----------------------------- MODULE Query_proofs -----------------------------
(***************************************************************************)
(* What a query says beside runs of ingest and enrichments, for any number *)
(* of sources, contents, faults and losses: its answers are the best that  *)
(* was found, of the present text if no run was under way, and a section   *)
(* is of the text of its passage.                                          *)
(***************************************************************************)
EXTENDS Query, IngestPipeline_proofs

-----------------------------------------------------------------------------
(* Sequences of anything *)

ItemsOf(s) == {s[i] : i \in DOMAIN s}
IsList(s)  == s \in Seq(ItemsOf(s))

\* A list has a length,
LEMMA ListHas ==
    ASSUME NEW s, IsList(s)
    PROVE  Len(s) \in Nat /\ DOMAIN s = 1 .. Len(s) /\ \A i \in 1 .. Len(s) : s[i] \in ItemsOf(s)
  BY DEF IsList, ItemsOf

\* and what is numbered is one.
LEMMA Numbered ==
    ASSUME NEW n \in Nat, NEW s, DOMAIN s = 1 .. n, s = [i \in 1 .. n |-> s[i]]
    PROVE  IsList(s) /\ Len(s) = n
  <1>1. \A i \in 1 .. n : s[i] \in ItemsOf(s)
    BY DEF ItemsOf
  <1>2. s \in [1 .. n -> ItemsOf(s)]
    BY <1>1
  <1>3. s \in Seq(ItemsOf(s))
    BY <1>2
  <1> QED
    BY <1>3 DEF IsList

\* A sequence over any set is a list,
LEMMA SeqIsList ==
    ASSUME NEW S, NEW s \in Seq(S)
    PROVE  IsList(s) /\ ItemsOf(s) \subseteq S
  <1>1. Len(s) \in Nat /\ DOMAIN s = 1 .. Len(s) /\ s = [i \in 1 .. Len(s) |-> s[i]]
        /\ \A i \in 1 .. Len(s) : s[i] \in S
    OBVIOUS
  <1> QED
    BY <1>1, Numbered DEF ItemsOf

\* the empty one is the only list without items,
LEMMA EmptyList ==
    IsList(<<>>) /\ ItemsOf(<<>>) = {} /\ \A s : IsList(s) /\ ItemsOf(s) = {} => s = <<>>
  <1>1. ItemsOf(<<>>) = {}
    BY DEF ItemsOf
  <1>2. IsList(<<>>) /\ ItemsOf(<<>>) = {}
    BY <1>1 DEF IsList
  <1>3. ASSUME NEW s, IsList(s), ItemsOf(s) = {} PROVE s = <<>>
    BY <1>3 DEF IsList
  <1> QED
    BY <1>2, <1>3

\* and appending, concatenating and dropping the first item leave lists.
LEMMA AppendList ==
    ASSUME NEW s, IsList(s), NEW x
    PROVE  IsList(Append(s, x)) /\ ItemsOf(Append(s, x)) = ItemsOf(s) \cup {x}
  <1> DEFINE t == Append(s, x)
             S == ItemsOf(s) \cup {x}
  <1>1. s \in Seq(S) /\ Len(s) \in Nat /\ DOMAIN s = 1 .. Len(s)
    BY ListHas DEF IsList
  <1>2. /\ t \in Seq(S) /\ DOMAIN t = 1 .. Len(s) + 1
        /\ \A i \in 1 .. Len(s) : t[i] = s[i]
        /\ t[Len(s) + 1] = x
    <2> HIDE DEF S
    <2>1. x \in S
      BY DEF S
    <2> QED
      BY <1>1, <2>1
  <1>3. ItemsOf(s) \subseteq ItemsOf(t) /\ x \in ItemsOf(t)
    <2> HIDE DEF t, S
    <2> QED
      BY <1>1, <1>2 DEF ItemsOf
  <1> HIDE DEF t
  <1>4. IsList(t) /\ ItemsOf(t) \subseteq S
    BY <1>2, SeqIsList
  <1> QED
    BY <1>3, <1>4 DEF t

\* Two lists in a row have the items of both,
LEMMA ConcatList ==
    ASSUME NEW s, IsList(s), NEW t, IsList(t)
    PROVE  IsList(s \o t) /\ ItemsOf(s \o t) \subseteq ItemsOf(s) \cup ItemsOf(t)
  <1> DEFINE S == ItemsOf(s) \cup ItemsOf(t)
  <1>1. s \in Seq(S) /\ t \in Seq(S)
    BY DEF IsList
  <1>2. s \o t \in Seq(S)
    <2> HIDE DEF S
    <2> QED
      BY <1>1
  <1> QED
    BY <1>2, SeqIsList

\* and what follows the first item of a list is a list of its items.
LEMMA TailList ==
    ASSUME NEW s, IsList(s), s # <<>>
    PROVE  Head(s) \in ItemsOf(s) /\ IsList(Tail(s)) /\ ItemsOf(Tail(s)) \subseteq ItemsOf(s)
  <1> DEFINE S == ItemsOf(s)
  <1>1. s \in Seq(S)
    BY DEF IsList
  <1>2. Head(s) \in S /\ Tail(s) \in Seq(S)
    <2> HIDE DEF S
    <2> QED
      BY <1>1
  <1> QED
    BY <1>2, SeqIsList

\* The first of a set are a list of its elements.
LEMMA FirstsAre ==
    ASSUME NEW key, NEW limit, NEW s \in Firsts(key, limit)
    PROVE  IsList(s) /\ ItemsOf(s) \subseteq DOMAIN key
  <1>1. PICK n \in 0 .. limit : s \in [1 .. n -> DOMAIN key]
    BY DEF Firsts
  <1>2. n \in Nat
    BY <1>1
  <1>3. s \in Seq(DOMAIN key)
    BY <1>1, <1>2
  <1> QED
    BY <1>3, SeqIsList

\* The elements of a list at some places of it.
LEMMA AtIs ==
    ASSUME NEW s, IsList(s), NEW places \in SUBSET DOMAIN s
    PROVE  IsList(At(s, places)) /\ ItemsOf(At(s, places)) = {s[i] : i \in places}
  <1> DEFINE key == [i \in places |-> i]
             order == InOrder(key)
             t == [k \in DOMAIN order |-> s[order[k]]]
  <1>1. IsFiniteSet(places) /\ places \subseteq Int
    <2>1. IsFiniteSet(1 .. Len(s))
      BY ListHas, FS_Interval
    <2> QED
      BY <2>1, ListHas, FS_Subset
  <1>2. /\ DOMAIN key = places
        /\ \A x \in places : key[x] \in Int
        /\ \A x, y \in places : key[x] = key[y] => x = y
    BY <1>1
  <1> HIDE DEF key
  <1>3. /\ Cardinality(places) \in Nat
        /\ DOMAIN order = 1 .. Cardinality(places)
        /\ \A k \in 1 .. Cardinality(places) : order[k] \in places
        /\ \A x \in places : \E k \in 1 .. Cardinality(places) : order[k] = x
    BY <1>1, <1>2, InOrderIs
  <1>4. At(s, places) = t
    BY DEF At, Ascending, key
  <1> HIDE DEF order
  <1>5. DOMAIN t = 1 .. Cardinality(places) /\ t = [i \in 1 .. Cardinality(places) |-> t[i]]
    BY <1>3
  <1>6. IsList(t)
    <2> HIDE DEF t
    <2> QED
      BY <1>3, <1>5, Numbered
  <1>7. ItemsOf(t) = {s[i] : i \in places}
    BY <1>3 DEF ItemsOf
  <1> QED
    BY <1>4, <1>6, <1>7

-----------------------------------------------------------------------------
(* The enricher *)

Enrichers == [pc : {"idle", "rebuild", "load", "read", "save"}, todo : Seq(Files),
              mem : Manifests, tree : Trees \cup {None}, text : Contents \cup {Gone, None}]

\* The enricher keeps its types, and the documents stay what they are.
EnrichInv ==
    /\ \A c \in Contents : IsDocument(library[c])
    /\ enrich \in Enrichers
    /\ enrich.pc \in {"read", "save"} => enrich.todo # <<>> /\ enrich.tree \in Trees
    /\ enrich.pc = "save" => enrich.text \in Contents \cup {Gone}

\* It works while the manifest is there, or the one it makes itself is.
NoRebuildInv == count.losses = 0 => manifest # Lost /\ enrich.pc # "rebuild"

\* The manifest made of the raw copies is one.
LEMMA ResumedIs ==
    ASSUME TypeInv
    PROVE  Resumed \in Manifests
  <1>1. CASE manifest = Lost
    <2> DEFINE m == [f \in DOMAIN disk.raw |-> Entry(disk.raw[f], None)]
    <2>1. disk.raw \in Partial(Files, Contents)
      BY LayersHave DEF TypeInv
    <2>2. DOMAIN disk.raw \subseteq Files /\ \A f \in DOMAIN disk.raw : disk.raw[f] \in Contents
      BY <2>1, PartialFacts
    <2>3. \A f \in DOMAIN disk.raw : Entry(disk.raw[f], None) \in Entries
      BY <2>2 DEF Entry, Entries
    <2>4. m \in Manifests
      BY <2>2, <2>3 DEF Manifests, Partial
    <2> QED
      BY <1>1, <2>4 DEF Resumed
  <1> QED
    BY <1>1 DEF Resumed, TypeInv

\* What is to be enriched are sources.
LEMMA TargetsAre ==
    ASSUME NEW m \in Manifests, NEW only
    PROVE  Targets(m, only) \in Seq(Files)
           /\ \A i \in DOMAIN Targets(m, only) : Targets(m, only)[i] \in DOMAIN m
  <1> DEFINE S == {f \in DOMAIN m : Derived(m[f]) /\ only \in {f, None}}
  <1>1. S \in SUBSET Files /\ S \subseteq DOMAIN m
    BY EntryOf
  <1>2. Targets(m, only) = Sorted(S)
    BY DEF Targets
  <1> HIDE DEF S
  <1>3. Sorted(S) \in Seq(S)
    BY <1>1, SortedIs
  <1> QED
    BY <1>1, <1>2, <1>3

\* An enricher that does not run is one.
LEMMA NoEnricherIs == NoEnricher \in Enrichers /\ NoEnricher.pc = "idle"
  <1>1. Nothing \in Manifests
    BY NothingPartial DEF Manifests
  <1> QED
    BY <1>1 DEF NoEnricher, Enrichers

\* What each step of the enricher does.
LEMMA StartEnrichDoes ==
    ASSUME TypeInv, EnrichInv, NEW only, StartEnrich(only)
    PROVE  /\ UNCHANGED <<vars, library>> /\ enrich' \in Enrichers
           /\ enrich.pc = "idle"
           /\ enrich'.pc = IF manifest = Lost THEN "rebuild" ELSE "load"
           /\ \A i \in DOMAIN enrich'.todo : enrich'.todo[i] \in DOMAIN Resumed
  <1>1. Resumed \in Manifests /\ Nothing \in Manifests
    BY ResumedIs, NothingPartial DEF Manifests
  <1>2. Targets(Resumed, only) \in Seq(Files)
        /\ \A i \in DOMAIN Targets(Resumed, only) : Targets(Resumed, only)[i] \in DOMAIN Resumed
    BY <1>1, TargetsAre
  <1> QED
    BY <1>1, <1>2, NoEnricherIs DEF StartEnrich, Enrichers, NoEnricher

\* Going on to the next target keeps the list of targets,
LEMMA NextTargetDoes ==
    ASSUME EnrichInv, enrich.pc \in {"read", "save"}, NextTarget
    PROVE  /\ enrich' \in Enrichers /\ enrich'.pc = "load"
           /\ \A i \in DOMAIN enrich'.todo : \E j \in DOMAIN enrich.todo :
                 enrich'.todo[i] = enrich.todo[j]
  <1>1. enrich.todo \in Seq(Files) /\ enrich.todo # <<>> /\ enrich \in Enrichers
    BY DEF EnrichInv, Enrichers
  <1>2. Tail(enrich.todo) \in Seq(Files)
    BY <1>1
  <1>3. enrich' = [enrich EXCEPT !.pc = "load", !.todo = Tail(@), !.tree = None, !.text = None]
    BY DEF NextTarget
  <1>4. enrich'.todo = Tail(enrich.todo)
    BY <1>1, <1>3 DEF Enrichers
  <1>5. \A i \in DOMAIN Tail(enrich.todo) : \E j \in DOMAIN enrich.todo :
           Tail(enrich.todo)[i] = enrich.todo[j]
    BY <1>1
  <1> QED
    BY <1>1, <1>2, <1>3, <1>4, <1>5 DEF Enrichers

\* loading one changes nothing but the enricher, which has then a tree in hand or gives up,
LEMMA LoadTargetDoes ==
    ASSUME TypeInv, EnrichInv, LoadTarget
    PROVE  /\ UNCHANGED <<vars, library>> /\ enrich' \in Enrichers /\ enrich.pc = "load"
           /\ \/ enrich' = NoEnricher
              \/ /\ enrich'.pc = "read" /\ enrich'.todo = enrich.todo /\ enrich.todo # <<>>
                 /\ Head(enrich.todo) \in Files
                 /\ StemOf[Head(enrich.todo)] \in DOMAIN disk.trees
                 /\ enrich'.tree = disk.trees[StemOf[Head(enrich.todo)]] /\ enrich'.tree \in Trees
  <1>1. /\ enrich \in Enrichers /\ enrich.todo \in Seq(Files) /\ enrich.todo # <<>>
        /\ Head(enrich.todo) \in Files
    BY DEF EnrichInv, Enrichers, LoadTarget
  <1> DEFINE stem == StemOf[Head(enrich.todo)]
  <1>2. ASSUME stem \in DOMAIN disk.trees PROVE disk.trees[stem] \in Trees
    <2>1. disk.trees \in Partial(Stems, Trees)
      BY LayersHave DEF TypeInv
    <2> QED
      BY <1>2, <2>1, PartialFacts
  <1> HIDE DEF stem
  <1>3. enrich' = IF stem \in DOMAIN disk.trees
                  THEN [enrich EXCEPT !.pc = "read", !.tree = disk.trees[stem]]
                  ELSE NoEnricher
    BY DEF LoadTarget, stem
  <1>4. CASE stem \in DOMAIN disk.trees
    BY <1>1, <1>2, <1>3, <1>4 DEF LoadTarget, Enrichers, stem
  <1>5. CASE stem \notin DOMAIN disk.trees
    BY <1>3, <1>5, NoEnricherIs DEF LoadTarget
  <1> QED
    BY <1>4, <1>5

\* and reading its copy does not either.
LEMMA ReadRawDoes ==
    ASSUME TypeInv, EnrichInv, ReadRaw
    PROVE  /\ UNCHANGED <<vars, library>> /\ enrich' \in Enrichers /\ enrich.pc = "read"
           /\ \/ /\ enrich'.pc = "load"
                 /\ \A i \in DOMAIN enrich'.todo : \E j \in DOMAIN enrich.todo :
                       enrich'.todo[i] = enrich.todo[j]
              \/ /\ enrich'.pc = "save" /\ enrich'.todo = enrich.todo
                 /\ enrich'.tree = enrich.tree
                 /\ enrich'.text = IF Head(enrich.todo) \in DOMAIN disk.raw
                                   THEN disk.raw[Head(enrich.todo)] ELSE Gone
                 /\ enrich'.text \in Contents \cup {Gone}
  <1>1. CASE NextTarget
    BY <1>1, NextTargetDoes DEF ReadRaw
  <1>2. CASE ~NextTarget
    <2> DEFINE f == Head(enrich.todo)
               text == IF f \in DOMAIN disk.raw THEN disk.raw[f] ELSE Gone
    <2>1. disk.raw \in Partial(Files, Contents)
      BY LayersHave DEF TypeInv
    <2>2. text \in Contents \cup {Gone}
      BY <2>1, PartialFacts
    <2>3. enrich' = [enrich EXCEPT !.pc = "save", !.text = text]
      BY <1>2 DEF ReadRaw
    <2> HIDE DEF text
    <2>4. enrich \in Enrichers /\ enrich.pc = "read" /\ UNCHANGED <<vars, library>>
      BY DEF EnrichInv, ReadRaw
    <2>5. /\ enrich' \in Enrichers /\ enrich'.pc = "save" /\ enrich'.todo = enrich.todo
          /\ enrich'.tree = enrich.tree /\ enrich'.text = text
      BY <2>2, <2>3, <2>4 DEF Enrichers
    <2> QED
      BY <2>2, <2>4, <2>5 DEF text
  <1> QED
    BY <1>1, <1>2

\* The tree that is saved is that which was loaded, with other nodes.
LEMMA SaveEnrichedDoes ==
    ASSUME TypeInv, EnrichInv, SaveEnriched
    PROVE  /\ UNCHANGED <<source, again, manifest, mem, job, count, library>>
           /\ enrich' \in Enrichers /\ enrich.pc = "save" /\ enrich'.pc = "load"
           /\ \A i \in DOMAIN enrich'.todo : \E j \in DOMAIN enrich.todo :
                 enrich'.todo[i] = enrich.todo[j]
           /\ disk' \in Layers
           /\ disk'.raw = disk.raw /\ disk'.pages = disk.pages /\ disk'.index = disk.index
           /\ disk'.graph = disk.graph /\ disk'.vectors = disk.vectors
           /\ \/ UNCHANGED disk
              \/ \E tree \in Trees :
                    /\ tree.of = enrich.tree.of /\ tree.sha = enrich.tree.sha
                    /\ tree.text = enrich.tree.text /\ tree.from = enrich.text
                    /\ Head(enrich.todo) \in Files
                    /\ disk'.trees = Put(disk.trees, StemOf[Head(enrich.todo)], tree)
  <1>1. /\ enrich \in Enrichers /\ enrich.todo \in Seq(Files) /\ enrich.todo # <<>>
        /\ Head(enrich.todo) \in Files /\ enrich.tree \in Trees
        /\ enrich.text \in Contents \cup {Gone} /\ enrich.pc = "save"
    BY DEF EnrichInv, Enrichers, SaveEnriched
  <1> DEFINE stem == StemOf[Head(enrich.todo)]
  <1>2. /\ UNCHANGED <<source, again, manifest, mem, job, count, library>>
        /\ enrich' \in Enrichers /\ enrich'.pc = "load"
        /\ \A i \in DOMAIN enrich'.todo : \E j \in DOMAIN enrich.todo :
              enrich'.todo[i] = enrich.todo[j]
    BY <1>1, NextTargetDoes DEF SaveEnriched
  <1>3. CASE UNCHANGED disk
    BY <1>1, <1>2, <1>3 DEF TypeInv
  <1>4. ASSUME NEW tree \in Enriched(enrich.tree, enrich.text),
               disk' = [disk EXCEPT !.trees = Put(@, stem, tree)]
        PROVE  /\ tree \in Trees
               /\ tree.of = enrich.tree.of /\ tree.sha = enrich.tree.sha
               /\ tree.text = enrich.tree.text /\ tree.from = enrich.text
               /\ disk' \in Layers /\ disk'.trees = Put(disk.trees, stem, tree)
               /\ disk'.raw = disk.raw /\ disk'.pages = disk.pages /\ disk'.index = disk.index
               /\ disk'.graph = disk.graph /\ disk'.vectors = disk.vectors
    <2>1. PICK by \in {"thirds", "sections", "filled", enrich.tree.by} \ {"rule"} :
              tree = [enrich.tree EXCEPT !.by = by, !.from = enrich.text]
      <3> DEFINE ways == IF Len(Nodes(enrich.tree)) = 1 THEN {"thirds", "sections"}
                         ELSE IF enrich.tree.by = "rule" THEN {"filled"} ELSE {enrich.tree.by}
      <3>1. tree \in {[enrich.tree EXCEPT !.by = by, !.from = enrich.text] : by \in ways}
        BY <1>4 DEF Enriched
      <3>2. ways \subseteq {"thirds", "sections", "filled", enrich.tree.by} \ {"rule"}
        OBVIOUS
      <3> HIDE DEF ways
      <3> QED
        BY <3>1, <3>2
    <2>2. /\ tree \in Trees
          /\ tree.of = enrich.tree.of /\ tree.sha = enrich.tree.sha
          /\ tree.text = enrich.tree.text /\ tree.from = enrich.text
      BY <1>1, <2>1, IngestAssumption, PageIndexAssumption DEF Trees
    <2>3. stem \in Stems
      BY <1>1 DEF Stems
    <2>4. Put(disk.trees, stem, tree) \in Partial(Stems, Trees)
      <3>1. disk.trees \in Partial(Stems, Trees)
        BY LayersHave DEF TypeInv
      <3> HIDE DEF stem
      <3> QED
        BY <2>2, <2>3, <3>1, PutPartial
    <2> HIDE DEF stem
    <2>5. /\ disk' \in Layers /\ disk'.trees = Put(disk.trees, stem, tree)
          /\ disk'.raw = disk.raw /\ disk'.pages = disk.pages /\ disk'.index = disk.index
          /\ disk'.graph = disk.graph /\ disk'.vectors = disk.vectors
      BY <1>4, <2>4, OnlyTrees DEF TypeInv
    <2> QED
      BY <2>2, <2>5
  <1> QED
    BY <1>1, <1>2, <1>3, <1>4 DEF SaveEnriched

-----------------------------------------------------------------------------
(* The nodes of a tree *)

\* The places of a document that a test selects, in order.
LEMMA AscendingIs ==
    ASSUME NEW n \in Nat, NEW places \in SUBSET (1 .. n)
    PROVE  \E m \in Nat : DOMAIN Ascending(places) = 1 .. m
  <1> DEFINE key == [i \in places |-> i]
  <1>1. IsFiniteSet(places)
    <2>1. IsFiniteSet(1 .. n)
      BY FS_Interval
    <2> QED
      BY <2>1, FS_Subset
  <1>2. /\ DOMAIN key = places
        /\ \A x \in places : key[x] \in Int
        /\ \A x, y \in places : key[x] = key[y] => x = y
    OBVIOUS
  <1>3. Ascending(places) = InOrder(key)
    BY DEF Ascending
  <1> HIDE DEF key
  <1>4. Cardinality(places) \in Nat /\ DOMAIN InOrder(key) = 1 .. Cardinality(places)
    BY <1>1, <1>2, InOrderIs
  <1> QED
    BY <1>3, <1>4

\* What is made of each element of a list is a list.
LEMMA MadeOf ==
    ASSUME NEW n \in Nat, NEW s, NEW S, s \in [1 .. n -> S]
    PROVE  IsList(s) /\ ItemsOf(s) \subseteq S
  <1>1. s \in Seq(S)
    OBVIOUS
  <1> QED
    BY <1>1, SeqIsList

\* The tree of a document is a list of nodes,
LEMMA BuildPageTreeIs ==
    ASSUME NEW doc, IsDocument(doc)
    PROVE  IsList(BuildPageTree(doc))
  <1>1. Len(doc.segments) \in Nat /\ DOMAIN doc.segments = 1 .. Len(doc.segments)
    BY DEF IsDocument
  <1>2. ASSUME NEW headings, NEW n \in Nat, DOMAIN headings = 1 .. n
        PROVE  IsList(HeadingsToTree(headings, doc.length))
    <2> DEFINE tree == HeadingsToTree(headings, doc.length)
    <2>1. tree \in [DOMAIN headings -> {tree[i] : i \in DOMAIN headings}]
      BY Zenon DEF HeadingsToTree
    <2> HIDE DEF tree
    <2> QED
      BY <1>2, <2>1, MadeOf DEF tree
  <1>3. \E n \in Nat : DOMAIN HeadingsOf(doc) = 1 .. n
    <2> DEFINE S == {i \in DOMAIN doc.segments : doc.segments[i].kind = "heading"}
    <2>1. S \in SUBSET (1 .. Len(doc.segments))
      BY <1>1
    <2>2. DOMAIN HeadingsOf(doc) = DOMAIN Ascending(S)
      BY DEF HeadingsOf
    <2> HIDE DEF S
    <2> QED
      BY <1>1, <2>1, <2>2, AscendingIs
  <1>4. ASSUME NEW header, NEW nested PROVE IsList(SectionsToTree(doc, header, nested))
    <2> DEFINE isHeader(i) == doc.segments[i].kind = header
               headerOf(i) == Greatest({0} \cup {j \in 1 .. i : isHeader(j)})
               isChild(i)  == nested /\ doc.segments[i].kind = "heading" /\ headerOf(i) # 0
               S           == {i \in DOMAIN doc.segments : isHeader(i) \/ isChild(i)}
               tree        == SectionsToTree(doc, header, nested)
    <2>1. S \in SUBSET (1 .. Len(doc.segments))
      BY <1>1
    <2>2. tree \in [DOMAIN Ascending(S) -> {tree[i] : i \in DOMAIN Ascending(S)}]
      BY Zenon DEF SectionsToTree
    <2> HIDE DEF S, tree
    <2>3. PICK n \in Nat : DOMAIN Ascending(S) = 1 .. n
      BY <1>1, <2>1, AscendingIs
    <2> QED
      BY <2>2, <2>3, MadeOf DEF tree
  <1>5. IsList(<<>>)
    BY EmptyList
  <1>6. IsList(SingleRoot(doc))
    <2>1. SingleRoot(doc) \in Seq({SingleRoot(doc)[1]})
      BY DEF SingleRoot
    <2> QED
      BY <2>1, SeqIsList
  <1> DEFINE tree == CASE doc.format \in {"md", "docx", "pdf"} ->
                              HeadingsToTree(HeadingsOf(doc), doc.length)
                       [] doc.format = "pptx" -> SectionsToTree(doc, "slide_header", TRUE)
                       [] doc.format = "xlsx" -> SectionsToTree(doc, "sheet_header", FALSE)
                       [] OTHER -> <<>>
  <1>7. IsList(tree)
    BY <1>2, <1>3, <1>4, <1>5
  <1>8. BuildPageTree(doc) = IF tree = <<>> THEN SingleRoot(doc) ELSE tree
    BY DEF BuildPageTree
  <1> HIDE DEF tree
  <1> QED
    BY <1>6, <1>7, <1>8

\* and so is one that was enriched.
LEMMA NodesAre ==
    ASSUME EnrichInv, NEW tree \in Trees
    PROVE  IsList(Nodes(tree))
  <1>1. tree.by \in {"rule", "filled", "thirds", "sections"} /\ tree.text \in Contents
    BY DEF Trees
  <1>2. IsList(BuildPageTree(library[tree.text]))
    BY <1>1, BuildPageTreeIs DEF EnrichInv
  <1>3. ASSUME NEW length PROVE IsList(Thirds(length))
    <2>1. DOMAIN Thirds(length) = 1 .. 3 /\ Thirds(length) = [i \in 1 .. 3 |-> Thirds(length)[i]]
      BY DEF Thirds
    <2> QED
      BY <2>1, Numbered
  <1>4. IsList(Sections(ModelSpans))
    <2>1. Len(ModelSpans) \in Nat /\ DOMAIN ModelSpans = 1 .. Len(ModelSpans)
      BY PageIndexAssumption
    <2>2. DOMAIN Sections(ModelSpans) = 1 .. Len(ModelSpans)
          /\ Sections(ModelSpans) = [i \in DOMAIN Sections(ModelSpans) |-> Sections(ModelSpans)[i]]
      BY <2>1 DEF Sections
    <2> QED
      BY <2>1, <2>2, Numbered
  <1>5. CASE tree.by \in {"rule", "filled"}
    BY <1>2, <1>5 DEF Nodes
  <1>6. CASE tree.by = "thirds"
    BY <1>3, <1>6 DEF Nodes
  <1>7. CASE tree.by = "sections"
    BY <1>4, <1>7 DEF Nodes
  <1> QED
    BY <1>1, <1>5, <1>6, <1>7

-----------------------------------------------------------------------------
(* The ranking *)

\* The same elements, each as often.
Reorders(t, s) ==
    /\ IsList(t) /\ Len(t) = Len(s) /\ ItemsOf(t) \subseteq ItemsOf(s)
    /\ \A c : Cardinality({i \in DOMAIN s : s[i] = c}) = Cardinality({i \in DOMAIN t : t[i] = c})

\* A list taken in another order has each of its elements as often as before.
LEMMA Reordered ==
    ASSUME NEW s, IsList(s), NEW order, DOMAIN order = 1 .. Len(s),
           \A k \in 1 .. Len(s) : order[k] \in 1 .. Len(s),
           \A i \in 1 .. Len(s) : \E k \in 1 .. Len(s) : order[k] = i,
           \A j, k \in 1 .. Len(s) : order[j] = order[k] => j = k,
           NEW t, t = [k \in DOMAIN order |-> s[order[k]]]
    PROVE  Reorders(t, s)
  <1> DEFINE n == Len(s)
  <1>1. n \in Nat /\ DOMAIN s = 1 .. n
    BY ListHas
  <1>2. DOMAIN t = 1 .. n /\ t = [i \in 1 .. n |-> t[i]]
    OBVIOUS
  <1>3. IsList(t) /\ Len(t) = n
    <2> HIDE DEF n
    <2> QED
      BY <1>1, <1>2, Numbered
  <1>5. ItemsOf(t) \subseteq ItemsOf(s)
    BY <1>1, <1>2 DEF ItemsOf
  <1>4. ASSUME NEW c
        PROVE  Cardinality({i \in DOMAIN s : s[i] = c}) = Cardinality({i \in DOMAIN t : t[i] = c})
    <2> DEFINE A == {i \in DOMAIN s : s[i] = c}
               B == {i \in DOMAIN t : t[i] = c}
               f == [k \in B |-> order[k]]
    <2>1. IsFiniteSet(B)
      <3>1. IsFiniteSet(1 .. n) /\ B \in SUBSET (1 .. n)
        BY <1>1, <1>2, FS_Interval
      <3> QED
        BY <3>1, FS_Subset
    <2>2. /\ \A k \in B : f[k] \in A
          /\ \A j, k \in B : f[j] = f[k] => j = k
          /\ \A i \in A : \E k \in B : f[k] = i
      BY <1>1, <1>2
    <2>3. DOMAIN f = B /\ f = [k \in B |-> f[k]]
      OBVIOUS
    <2> HIDE DEF f, A, B
    <2>6. Cardinality(A) = Cardinality(B)
      BY <2>1, <2>2, <2>3, MatchedCounts
    <2> QED
      BY <2>6 DEF A, B
  <1> QED
    BY <1>3, <1>4, <1>5 DEF Reorders

\* Within a route the ranks are 0, 1, ..., and what has rank 0 has the best score.
LEMMA RanksInRoute ==
    ASSUME NEW cands, IsList(cands), \A c \in ItemsOf(cands) : c.score \in Int
    PROVE  /\ \A i \in DOMAIN cands : RankInRoute(cands, i) \in Nat
           /\ \A i, j \in DOMAIN cands :
                 cands[i].route = cands[j].route /\ RankInRoute(cands, i) = RankInRoute(cands, j)
                 => i = j
           /\ \A i \in DOMAIN cands : \E b \in DOMAIN cands :
                 /\ cands[b].route = cands[i].route /\ RankInRoute(cands, b) = 0
                 /\ cands[i].score <= cands[b].score
  <1> DEFINE D == DOMAIN cands
             S(r) == {j \in D : cands[j].route = r}
             better == {p \in D \X D : \/ cands[p[1]].score > cands[p[2]].score
                                       \/ cands[p[1]].score = cands[p[2]].score /\ p[1] < p[2]}
             place(r) == [i \in S(r) |-> Cardinality({j \in S(r) : <<j, i>> \in better})]
  <1>1. IsFiniteSet(D) /\ D \subseteq Nat /\ \A i \in D : cands[i].score \in Int
    <2>1. Len(cands) \in Nat /\ D = 1 .. Len(cands) /\ \A i \in D : cands[i] \in ItemsOf(cands)
      BY ListHas
    <2> QED
      BY <2>1, FS_Interval
  <1>2. \A i, j \in D : <<i, j>> \in better <=> \/ cands[i].score > cands[j].score
                                                \/ cands[i].score = cands[j].score /\ i < j
    OBVIOUS
  <1>3. ASSUME NEW r PROVE Placed(place(r)) /\ DOMAIN place(r) = S(r)
    <2>1. IsFiniteSet(S(r)) /\ S(r) \subseteq D
      BY <1>1, FS_Subset
    <2>2. Orders(better, S(r))
      <3> DEFINE before == better
      <3>1. \A x \in S(r) : x \in Nat /\ cands[x].score \in Int /\ x \in D
        BY <1>1, <2>1
      <3>2. \A x, y \in S(r) : <<x, y>> \in before
                                <=> \/ cands[x].score > cands[y].score
                                    \/ cands[x].score = cands[y].score /\ x < y
        BY <1>2, <3>1
      <3> HIDE DEF S, better, D, before
      <3>3. \A x \in S(r) : <<x, x>> \notin before
        BY <3>1, <3>2
      <3>4. ASSUME NEW x \in S(r), NEW y \in S(r), NEW z \in S(r),
                   <<x, y>> \in before, <<y, z>> \in before
            PROVE  <<x, z>> \in before
        <4>1. \/ cands[x].score > cands[z].score
              \/ cands[x].score = cands[z].score /\ x < z
          BY <3>1, <3>2, <3>4
        <4> QED
          BY <3>2, <4>1
      <3>5. ASSUME NEW x \in S(r), NEW y \in S(r)
            PROVE  x = y \/ <<x, y>> \in before \/ <<y, x>> \in before
        BY <3>1, <3>2, <3>5
      <3>6. Orders(before, S(r))
        BY <3>3, <3>4, <3>5 DEF Orders
      <3> QED
        BY <3>6 DEF before
    <2> HIDE DEF S, better, D
    <2> QED
      BY <2>1, <2>2, CountedApart
  <1>4. ASSUME NEW i \in D
        PROVE  /\ i \in S(cands[i].route)
               /\ RankInRoute(cands, i) = place(cands[i].route)[i]
    <2> DEFINE r == cands[i].route
    <2>1. {j \in D : cands[j].route = cands[i].route
                     /\ (cands[j].score > cands[i].score
                         \/ (cands[j].score = cands[i].score /\ j < i))}
          = {j \in S(r) : <<j, i>> \in better}
      BY <1>2
    <2> QED
      BY <2>1 DEF RankInRoute
  <1>5. \A i \in D : RankInRoute(cands, i) \in Nat
    <2> SUFFICES ASSUME NEW i \in D PROVE RankInRoute(cands, i) \in Nat
      OBVIOUS
    <2> DEFINE r == cands[i].route
    <2> HIDE DEF place, S, D
    <2>1. place(r)[i] \in 0 .. Cardinality(S(r)) - 1 /\ Cardinality(S(r)) \in Nat
      BY <1>3, <1>4 DEF Placed
    <2> QED
      BY <1>4, <2>1
  <1>6. \A i, j \in D : cands[i].route = cands[j].route
                        /\ RankInRoute(cands, i) = RankInRoute(cands, j) => i = j
    <2> HIDE DEF place, S, D
    <2> QED
      BY <1>3, <1>4 DEF Placed
  <1>7. ASSUME NEW i \in D
        PROVE  \E b \in D : /\ cands[b].route = cands[i].route /\ RankInRoute(cands, b) = 0
                            /\ cands[i].score <= cands[b].score
    <2> DEFINE r == cands[i].route
               n == Cardinality(S(r))
    <2>1. n \in Nat /\ 0 \in 0 .. n - 1
      <3> HIDE DEF place, S, D
      <3>1. place(r)[i] \in 0 .. n - 1 /\ n \in Nat
        BY <1>3, <1>4 DEF Placed
      <3> HIDE DEF n
      <3> QED
        BY <3>1
    <2>2. PICK b \in S(r) : place(r)[b] = 0
      <3> HIDE DEF place, S, D, n
      <3> QED
        BY <1>3, <2>1 DEF Placed, n
    <2>3. b \in D /\ cands[b].route = r /\ RankInRoute(cands, b) = 0
      <3> HIDE DEF place
      <3> QED
        BY <1>4, <2>2
    <2>4. {j \in S(r) : <<j, b>> \in better} = {}
      <3>1. IsFiniteSet({j \in S(r) : <<j, b>> \in better})
        BY <1>1, FS_Subset
      <3>2. Cardinality({j \in S(r) : <<j, b>> \in better}) = 0
        BY <2>2
      <3> QED
        BY <3>1, <3>2, FS_EmptySet
    <2>5. <<i, b>> \notin better
      BY <1>4, <2>4
    <2> HIDE DEF D, better
    <2>6. cands[i].score <= cands[b].score
      BY <1>1, <1>2, <2>3, <2>5
    <2> QED
      BY <2>3, <2>6
  <1> QED
    BY <1>5, <1>6, <1>7

\* The first that was found on a route is one of it.
LEMMA FirstOfIs ==
    ASSUME NEW cands, IsList(cands), NEW i \in DOMAIN cands
    PROVE  FirstOf(cands, i) \in DOMAIN cands /\ cands[FirstOf(cands, i)].route = cands[i].route
  <1> DEFINE S == {j \in DOMAIN cands : cands[j].route = cands[i].route}
  <1>1. S \subseteq Nat /\ S # {} /\ FirstOf(cands, i) = Least(S)
    BY ListHas DEF FirstOf
  <1> HIDE DEF S
  <1>2. Least(S) \in S
    BY <1>1, LeastExists DEF Least
  <1> QED
    BY <1>1, <1>2 DEF S

\* Without a model no candidate is lost, and the first has the best score of all.
LEMMA RrfIs ==
    ASSUME NEW cands, IsList(cands), \A c \in ItemsOf(cands) : c.score \in Int
    PROVE  /\ Reorders(RrfRerank(cands), cands)
           /\ \A i \in DOMAIN cands : cands[i].score <= RrfRerank(cands)[1].score
  <1> DEFINE D      == DOMAIN cands
             n      == Len(cands)
             rank   == [i \in D |-> RankInRoute(cands, i)]
             before == {p \in D \X D : Precedes(cands, rank, p[1], p[2])}
             place  == [i \in D |-> Cardinality({j \in D : <<j, i>> \in before})]
             order  == Listed(place)
             ranked == [k \in DOMAIN order |-> cands[order[k]]]
  <1>1. /\ n \in Nat /\ D = 1 .. n /\ IsFiniteSet(D) /\ Cardinality(D) = n
        /\ \A i \in D : i \in Nat /\ cands[i].score \in Int
    <2>1. n \in Nat /\ D = 1 .. n /\ \A i \in D : cands[i] \in ItemsOf(cands)
      BY ListHas
    <2>2. IsFiniteSet(1 .. n) /\ Cardinality(1 .. n) = n
      <3> HIDE DEF n
      <3> QED
        BY <2>1, FS_Interval
    <2> QED
      BY <2>1, <2>2
  <1>2. /\ \A i \in D : rank[i] \in Nat
        /\ \A i, j \in D : cands[i].route = cands[j].route /\ rank[i] = rank[j] => i = j
        /\ \A i \in D : \E b \in D : rank[b] = 0 /\ cands[i].score <= cands[b].score
    <2> HIDE DEF D
    <2>1. \A i \in D : rank[i] = RankInRoute(cands, i)
      OBVIOUS
    <2> HIDE DEF rank
    <2> QED
      BY <2>1, RanksInRoute DEF D
  <1>3. \A i \in D : FirstOf(cands, i) \in Nat /\ cands[FirstOf(cands, i)].route = cands[i].route
    BY <1>1, FirstOfIs
  <1>12. \A i \in D : rank[i] \in Nat
    BY <1>2
  <1>13. \A i, j \in D : cands[i].route = cands[j].route /\ rank[i] = rank[j] => i = j
    BY <1>2
  <1>14. \A i \in D : /\ rank[i] \in Int /\ cands[i].score \in Int /\ FirstOf(cands, i) \in Int
    <2> HIDE DEF D, rank
    <2>1. \A i \in D : cands[i].score \in Int
      BY <1>1
    <2>2. \A i \in D : FirstOf(cands, i) \in Nat
      BY <1>3
    <2> QED
      BY <1>12, <2>1, <2>2
  <1>4. \A i, j \in D : <<i, j>> \in before <=>
           \/ rank[i] < rank[j]
           \/ rank[i] = rank[j] /\ cands[i].score > cands[j].score
           \/ /\ rank[i] = rank[j] /\ cands[i].score = cands[j].score
              /\ FirstOf(cands, i) < FirstOf(cands, j)
    <2> HIDE DEF rank, D
    <2> QED
      BY DEF Precedes
  <1>5. RrfRerank(cands) = ranked
    <2>1. ASSUME NEW i \in D
          PROVE  {j \in D : Precedes(cands, rank, j, i)} = {j \in D : <<j, i>> \in before}
      <3> HIDE DEF rank, D
      <3> QED
        OBVIOUS
    <2>2. place = [i \in D |-> Cardinality({j \in D : Precedes(cands, rank, j, i)})]
      <3> HIDE DEF before, rank, D
      <3> QED
        BY <2>1
    <2> HIDE DEF place
    <2> QED
      BY <2>2 DEF RrfRerank
  <1>6. Orders(before, D)
    <2> HIDE DEF D, rank, before
    <2>1. \A x \in D : <<x, x>> \notin before
      BY <1>4, <1>14
    <2>2. ASSUME NEW x \in D, NEW y \in D, NEW z \in D, <<x, y>> \in before, <<y, z>> \in before
          PROVE  <<x, z>> \in before
      <3>2. \/ rank[x] < rank[z]
            \/ rank[x] = rank[z] /\ cands[x].score > cands[z].score
            \/ /\ rank[x] = rank[z] /\ cands[x].score = cands[z].score
               /\ FirstOf(cands, x) < FirstOf(cands, z)
        BY <1>4, <1>14, <2>2
      <3> QED
        BY <1>4, <3>2
    <2>3. ASSUME NEW x \in D, NEW y \in D, x # y
          PROVE  <<x, y>> \in before \/ <<y, x>> \in before
      <3>2. FirstOf(cands, x) = FirstOf(cands, y) => rank[x] # rank[y]
        <4>1. FirstOf(cands, x) = FirstOf(cands, y) => cands[x].route = cands[y].route
          BY <1>3
        <4> QED
          BY <1>13, <2>3, <4>1
      <3> QED
        BY <1>4, <1>14, <3>2
    <2> QED
      BY <2>1, <2>2, <2>3 DEF Orders
  <1>7. Placed(place)
    <2> HIDE DEF D, rank, before
    <2> QED
      BY <1>1, <1>6, CountedApart
  <1>8. DOMAIN place = D /\ \A i \in D : place[i] = Cardinality({j \in D : <<j, i>> \in before})
    <2> HIDE DEF D, before
    <2> QED
      OBVIOUS
  <1> HIDE DEF place
  <1>9. /\ DOMAIN order = 1 .. n
        /\ \A k \in 1 .. n : order[k] \in D /\ place[order[k]] = k - 1
        /\ \A i \in D : place[i] + 1 \in 1 .. n /\ order[place[i] + 1] = i
        /\ \A j, k \in 1 .. n : order[j] = order[k] => j = k
    <2>1. Cardinality(DOMAIN place) = n /\ DOMAIN place = D
      BY <1>1, <1>8
    <2> HIDE DEF D, n
    <2>2. /\ DOMAIN order = 1 .. Cardinality(DOMAIN place)
          /\ \A k \in 1 .. Cardinality(DOMAIN place) :
                order[k] \in DOMAIN place /\ place[order[k]] = k - 1
          /\ \A i \in DOMAIN place :
                /\ place[i] + 1 \in 1 .. Cardinality(DOMAIN place)
                /\ order[place[i] + 1] = i
          /\ \A j, k \in 1 .. Cardinality(DOMAIN place) : order[j] = order[k] => j = k
      BY <1>7, ListedIs, Zenon
    <2> QED
      BY <2>1, <2>2
  <1>10. Reorders(ranked, cands)
    <2>1. \A i \in 1 .. n : \E k \in 1 .. n : order[k] = i
      BY <1>1, <1>9
    <2> DEFINE t == ranked
    <2> HIDE DEF order
    <2>2. t = [k \in DOMAIN order |-> cands[order[k]]]
      OBVIOUS
    <2> HIDE DEF t
    <2>3. Reorders(t, cands)
      BY <1>1, <1>9, <2>1, <2>2, Reordered
    <2> QED
      BY <2>3 DEF t
  <1>11. ASSUME NEW i \in D PROVE cands[i].score <= ranked[1].score
    <2> DEFINE w == order[1]
    <2>1. 1 \in 1 .. n
      BY <1>1
    <2>2. w \in D /\ place[w] = 0 /\ ranked[1] = cands[w]
      BY <1>9, <2>1
    <2> HIDE DEF w, order, ranked, D, rank, before
    <2>3. {j \in D : <<j, w>> \in before} = {}
      <3>1. IsFiniteSet({j \in D : <<j, w>> \in before})
        BY <1>1, FS_Subset
      <3> QED
        BY <1>8, <2>2, <3>1, FS_EmptySet
    <2>4. PICK b \in D : rank[b] = 0 /\ cands[i].score <= cands[b].score
      BY <1>2
    <2>5. <<b, w>> \notin before
      BY <2>3
    <2>6. /\ rank[w] \in Nat /\ cands[i].score \in Int /\ cands[b].score \in Int
          /\ cands[w].score \in Int
      BY <1>12, <1>14, <2>2, <2>4
    <2>7. cands[b].score <= cands[w].score
      BY <1>4, <2>2, <2>4, <2>5, <2>6
    <2> QED
      BY <2>2, <2>4, <2>6, <2>7
  <1> HIDE DEF ranked
  <1> QED
    BY <1>5, <1>10, <1>11

\* A model's order loses no candidate and repeats none.
LEMMA LlmIs ==
    ASSUME NEW cands, IsList(cands), NEW ranking \in Seq(Int)
    PROVE  Reorders(LlmRerank(cands, ranking), cands)
  <1> DEFINE D        == DOMAIN cands
             n        == Len(cands)
             m        == Len(ranking)
             named(i) == {k \in DOMAIN ranking : ranking[k] = i}
             asked(i) == i <= RerankCap /\ named(i) # {}
             key      == [i \in D |-> IF asked(i) THEN Least(named(i)) ELSE m + i]
             order    == InOrder(key)
             ranked   == [k \in DOMAIN order |-> cands[order[k]]]
  <1>1. n \in Nat /\ D = 1 .. n /\ m \in Nat /\ DOMAIN ranking = 1 .. m
    BY ListHas
  <1>2. IsFiniteSet(D) /\ Cardinality(D) = n
    <2> HIDE DEF n, D
    <2> QED
      BY <1>1, FS_Interval
  <1>3. ASSUME NEW i \in D, asked(i)
        PROVE  Least(named(i)) \in 1 .. m /\ ranking[Least(named(i))] = i
    <2> DEFINE S == named(i)
    <2>1. S \subseteq Nat /\ S # {}
      BY <1>1, <1>3
    <2>2. Least(S) \in S
      <3> HIDE DEF S
      <3> QED
        BY <2>1, LeastExists DEF Least
    <2> QED
      BY <1>1, <2>2
  <1>4. \A i \in D : key[i] = IF asked(i) THEN Least(named(i)) ELSE m + i
    OBVIOUS
  <1>5. DOMAIN key = D
    OBVIOUS
  <1> HIDE DEF key, asked, named
  <1>6. \A i \in D : key[i] \in Int
    <2> SUFFICES ASSUME NEW i \in D PROVE key[i] \in Int
      OBVIOUS
    <2> HIDE DEF n, m
    <2>1. m + i \in Int
      BY <1>1
    <2>2. asked(i) => Least(named(i)) \in Int
      BY <1>3
    <2> QED
      BY <1>4, <2>1, <2>2
  <1>7. ASSUME NEW i \in D, NEW j \in D, key[i] = key[j] PROVE i = j
    <2> HIDE DEF n, m
    <2>1. i \in Nat /\ j \in Nat /\ i >= 1 /\ j >= 1
      BY <1>1
    <2>2. CASE asked(i) /\ asked(j)
      BY <1>3, <1>4, <1>7, <2>2
    <2>3. CASE ~asked(i) /\ ~asked(j)
      <3>1. m + i = m + j
        BY <1>4, <1>7, <2>3
      <3> QED
        BY <1>1, <2>1, <3>1
    <2>4. ASSUME NEW x \in {i, j}, NEW y \in {i, j}, asked(x), ~asked(y), key[x] = key[y]
          PROVE  FALSE
      <3>1. key[x] \in 1 .. m /\ key[y] = m + y /\ y \in Nat /\ y >= 1
        BY <1>3, <1>4, <2>1, <2>4
      <3> QED
        BY <1>1, <2>4, <3>1
    <2> QED
      BY <1>7, <2>2, <2>3, <2>4
  <1>8. /\ DOMAIN order = 1 .. n
        /\ \A k \in 1 .. n : order[k] \in D
        /\ \A i \in D : \E k \in 1 .. n : order[k] = i
        /\ \A j, k \in 1 .. n : order[j] = order[k] => j = k
    <2> HIDE DEF D, n, m
    <2> QED
      BY <1>2, <1>5, <1>6, <1>7, InOrderIs
  <1>9. LlmRerank(cands, ranking) = ranked
    BY DEF LlmRerank, key, asked, named
  <1> DEFINE t == ranked
  <1> HIDE DEF order
  <1>10. t = [k \in DOMAIN order |-> cands[order[k]]]
    OBVIOUS
  <1> HIDE DEF t
  <1>11. Reorders(t, cands)
    BY <1>1, <1>8, <1>10, Reordered
  <1>12. LlmRerank(cands, ranking) = t
    BY <1>9 DEF t
  <1> QED
    BY <1>11, <1>12

\* Whichever way they are ranked, the best wins.
LEMMA BestWins ==
    ASSUME NEW cands, IsList(cands), \A c \in ItemsOf(cands) : c.score \in Int,
           NEW ranking \in Rankings \cup {None}
    PROVE  /\ WinnerIsBest(cands, ranking)
           /\ cands # <<>> => Rerank(cands, ranking)[1] \in ItemsOf(cands)
  <1> DEFINE ranked == Rerank(cands, ranking)
  <1>1. /\ Reorders(ranked, cands)
        /\ ranking = Unset => \A i \in DOMAIN cands : cands[i].score <= ranked[1].score
    <2>1. CASE ranking = Unset
      <3>1. ranked = RrfRerank(cands)
        BY <2>1 DEF Rerank
      <3> HIDE DEF ranked
      <3> QED
        BY <3>1, RrfIs
    <2>2. CASE ranking # Unset
      <3>1. ranked = LlmRerank(cands, ranking) /\ ranking \in Seq(Int)
        BY <2>2, QueryAssumption DEF Rerank
      <3> HIDE DEF ranked
      <3> QED
        BY <2>2, <3>1, LlmIs
    <2> QED
      BY <2>1, <2>2
  <1>2. WinnerIsBest(cands, ranking)
    <2> HIDE DEF ranked
    <2> QED
      BY <1>1 DEF WinnerIsBest, Reorders, ranked
  <1>3. ASSUME cands # <<>> PROVE ranked[1] \in ItemsOf(cands)
    <2> HIDE DEF ranked
    <2>1. Len(cands) \in Nat /\ Len(cands) # 0
      BY <1>3 DEF IsList
    <2>2. 1 \in 1 .. Len(ranked) /\ DOMAIN ranked = 1 .. Len(ranked)
      BY <1>1, <2>1, ListHas DEF Reorders
    <2> QED
      BY <1>1, <2>2, ListHas DEF Reorders
  <1> QED
    BY <1>2, <1>3

-----------------------------------------------------------------------------
(* What a query has found *)

Shaped(q) ==
    q = [pc |-> q.pc, question |-> q.question, snapshot |-> q.snapshot, quiet |-> q.quiet,
         pages |-> q.pages, top |-> q.top, hits |-> q.hits, todo |-> q.todo,
         nodes |-> q.nodes, cands |-> q.cands, answer |-> q.answer]

\* A candidate that may be written back without being asked for quotes a source.
CandFits(c) ==
    /\ c.score \in Int
    /\ Eligible(c) => \E e \in c.evidence : e.route # "wiki" /\ e.text # None

HitFits(h) == h.text \in Contents /\ h.k \in Int

\* One of the edges is the best.
TopFits ==
    /\ IsFiniteSet(query.top)
    /\ \A e \in query.top : e.text \in Contents
    /\ \E e \in query.top : \A d \in query.top : EdgeScore(d) <= EdgeScore(e)

\* The candidates, from whatever layer.
Gathered == ItemsOf(query.nodes) \cup ItemsOf(query.cands)

FoundInv ==
    /\ Shaped(query)
    /\ query.pc # "idle" => Asked \in Questions
    /\ \A p \in query.pages : MatchesIntent(PageMemory(p.of, p.text), Seeks)
    /\ query.pc = "evidence" => TopFits
    /\ IsList(query.hits) /\ \A h \in ItemsOf(query.hits) : HitFits(h)
    /\ IsList(query.nodes) /\ IsList(query.cands)
    /\ \A c \in Gathered : CandFits(c)
    /\ query.pc \in {"status", "range", "rank"} => query.cands # <<>>
    /\ query.pc = "done" => AutoIsBacked /\ MemoryFits

\* What a candidate that is found now may quote: a page, an edge that is still in the
\* graph, a chunk that was found, with a section of the tree there is now, or the
\* summary of a tree.
QuotedNow(e) ==
    \/ e.route = "wiki" /\ \E p \in Pages : e.of = p.of /\ e.text = p.text
    \/ /\ e.route = "graph"
       /\ \E t \in query.top : e.of = t.of /\ (t \in Edges => e.text = disk.graph[t.of])
    \/ /\ e.route = "vector"
       /\ \E h \in ItemsOf(query.hits) :
             /\ e.of = h.of /\ e.text = h.text
             /\ e.section # None => /\ HasSection(h) /\ e.section.hit = h.sha
                                    /\ e.section.of = disk.trees[StemOf[h.of]].text
    \/ /\ e.route = "page_tree"
       /\ \E s \in DOMAIN disk.trees : /\ disk.trees[s].by # "rule"
                                       /\ e.of = disk.trees[s].of /\ e.text = disk.trees[s].from

\* What an answer may quote: what a candidate quotes, or an entry or a page of a
\* past session.
AnsweredNow(e) ==
    \/ \E c \in Gathered : e \in c.evidence
    \/ e.route = "vector" /\ \E h \in Hits : e.of = h.of /\ e.text = h.text
    \/ e.route = "wiki" /\ \E p \in query.pages : e.of = p.of /\ e.text = p.text

\* How a query goes on.
Goes ==
    /\ query.pc \notin {"idle", "done"} /\ query'.pc # "idle"
    /\ query'.question = Asked /\ query'.quiet = query.quiet
    /\ query'.pc # "done" => query'.snapshot = query.snapshot
    /\ query'.pc = "done" => Gathered' = {}
    /\ query'.pages \subseteq query.pages \cup Pages
    /\ query'.top \subseteq query.top \cup Edges
    /\ ItemsOf(query'.hits) \subseteq ItemsOf(query.hits) \cup Hits
    /\ \A c \in Gathered' : c \in Gathered \/ \A e \in c.evidence : QuotedNow(e)
    /\ \A e \in query'.answer.evidence : e \in query.answer.evidence \/ AnsweredNow(e)

\* A query that has not begun.
LEMMA NoQueryIs ==
    /\ Shaped(NoQuery) /\ NoQuery.pc = "idle" /\ NoQuery.quiet = TRUE
    /\ NoQuery.pages = {} /\ NoQuery.top = {} /\ NoQuery.hits = <<>> /\ NoQuery.nodes = <<>>
    /\ NoQuery.cands = <<>> /\ NoQuery.answer = NoAnswer
    /\ NoAnswer.evidence = {} /\ NoAnswer.outcome = None /\ NoAnswer.kind = "none"
    BY DEF NoQuery, NoAnswer, Shaped

\* and one that has ended.
LEMMA Ended ==
    ASSUME query' = NoQuery
    PROVE  FoundInv'
  <1>1. /\ Shaped(query') /\ query'.pc = "idle" /\ query'.pages = {} /\ query'.hits = <<>>
        /\ query'.nodes = <<>> /\ query'.cands = <<>>
    BY NoQueryIs
  <1> QED
    BY <1>1, EmptyList DEF FoundInv, Gathered

\* A query goes on without having found anything, or not what counts.
LEMMA WentOn ==
    ASSUME FoundInv, UNCHANGED library, query.pc \notin {"idle", "done", "rank", "status", "range"},
           Shaped(query'), query'.pc \notin {"idle", "done", "rank", "status", "range"},
           query'.question = query.question, query'.quiet = query.quiet,
           query'.snapshot = query.snapshot, query'.answer = query.answer,
           \A p \in query'.pages : p \in query.pages
                                    \/ (p \in Pages /\ MatchesIntent(PageMemory(p.of, p.text), Seeks)),
           query'.top \subseteq query.top \cup Edges, query'.pc = "evidence" => TopFits',
           IsList(query'.hits), ItemsOf(query'.hits) \subseteq ItemsOf(query.hits) \cup Hits,
           \A h \in ItemsOf(query'.hits) : HitFits(h),
           IsList(query'.nodes), IsList(query'.cands),
           \A c \in Gathered' : c \in Gathered \/ (CandFits(c) /\ \A e \in c.evidence : QuotedNow(e))
    PROVE  FoundInv' /\ Goes
  <1>1. Asked' = Asked /\ Seeks' = Seeks
    BY DEF Asked, Seeks
  <1>2. \A p \in query'.pages : MatchesIntent(PageMemory(p.of, p.text), Seeks)
    BY DEF FoundInv
  <1>3. \A p \in query'.pages : MatchesIntent(PageMemory(p.of, p.text), Seeks)'
    <2>1. ASSUME NEW f, NEW c PROVE PageMemory(f, c)' = PageMemory(f, c)
      BY DEF PageMemory
    <2> QED
      BY <1>1, <1>2, <2>1
  <1>4. \A c \in Gathered' : CandFits(c)
    BY DEF FoundInv
  <1>5. FoundInv'
    BY <1>1, <1>3, <1>4 DEF FoundInv
  <1> QED
    BY <1>1, <1>4, <1>5 DEF Goes, Asked

\* What a page may be asked for, it says of itself: a wiki candidate is never
\* written back unasked.
LEMMA WikiFits ==
    ASSUME NEW score \in Int, NEW memory, NEW evidence
    PROVE  CandFits(Candidate("wiki", score, memory, evidence))
           /\ Candidate("wiki", score, memory, evidence).evidence = evidence
  <1> DEFINE c == Candidate("wiki", score, memory, evidence)
  <1>1. c.route = "wiki" /\ c.score = score /\ c.evidence = evidence
    BY DEF Candidate
  <1> HIDE DEF c
  <1>2. ~Eligible(c)
    BY <1>1 DEF Eligible
  <1> QED
    BY <1>1, <1>2 DEF CandFits, c

\* What an item of evidence says.
LEMMA ItemIs ==
    ASSUME NEW f, NEW text, NEW route
    PROVE  /\ Item(f, text, route).of = f /\ Item(f, text, route).text = text
           /\ Item(f, text, route).route = route /\ Item(f, text, route).section = None
    BY DEF Item

\* A candidate added to those that were found.
LEMMA FoundMore ==
    ASSUME IsList(query.cands), query'.nodes = query.nodes, NEW c,
           query'.cands = Append(query.cands, c)
    PROVE  IsList(query'.cands) /\ Gathered' = Gathered \cup {c}
  <1>1. IsList(query'.cands) /\ ItemsOf(query'.cands) = ItemsOf(query.cands) \cup {c}
    BY AppendList
  <1> QED
    BY <1>1 DEF Gathered

\* A step on which nothing is found.
LEMMA GoOnDoes ==
    ASSUME FoundInv, UNCHANGED library, query.pc \notin {"idle", "done", "rank", "status", "range"},
           NEW pc, pc \notin {"idle", "done", "rank", "status", "range", "evidence"}, GoOn(pc)
    PROVE  FoundInv' /\ Goes
  <1>1. Shaped(query)
    BY DEF FoundInv
  <1>2. /\ Shaped(query') /\ query'.pc = pc /\ query'.question = query.question
        /\ query'.quiet = query.quiet /\ query'.snapshot = query.snapshot
        /\ query'.answer = query.answer /\ query'.pages = query.pages /\ query'.top = query.top
        /\ query'.hits = query.hits /\ query'.nodes = query.nodes /\ query'.cands = query.cands
    BY <1>1 DEF Shaped, GoOn
  <1>3. Gathered' = Gathered
    BY <1>2 DEF Gathered
  <1> QED
    BY <1>2, <1>3, WentOn DEF FoundInv

\* A question is asked.
LEMMA AskDoes ==
    ASSUME FoundInv, UNCHANGED library, NEW question \in Questions, Ask(question)
    PROVE  /\ FoundInv'
           /\ query.pc = "idle" /\ query'.pc = "pages" /\ manifest # Lost
           /\ query'.snapshot = manifest /\ (query'.quiet <=> job.stage = "idle")
           /\ query'.pages = {} /\ query'.top = {} /\ query'.hits = <<>>
           /\ Gathered' = {} /\ query'.answer.evidence = {}
  <1>1. /\ Shaped(query') /\ query'.pc = "pages" /\ query'.question = question
        /\ query'.snapshot = manifest /\ query'.quiet = (job.stage = "idle")
        /\ query'.pages = {} /\ query'.top = {} /\ query'.hits = <<>> /\ query'.nodes = <<>>
        /\ query'.cands = <<>> /\ query'.answer = NoAnswer
    BY DEF Ask, NoQuery, Shaped
  <1>2. Gathered' = {}
    BY <1>1, EmptyList DEF Gathered
  <1>3. FoundInv'
    BY <1>1, <1>2, EmptyList DEF FoundInv, Asked
  <1> QED
    BY <1>1, <1>2, <1>3, NoQueryIs DEF Ask

\* The pages of a memory.
LEMMA ReadPagesDoes ==
    ASSUME FoundInv, UNCHANGED library, ReadPages, query' # NoQuery
    PROVE  FoundInv' /\ Goes
  <1>1. query.pc = "pages" /\ Shaped(query)
    BY DEF ReadPages, FoundInv
  <1>2. CASE Seeks = None
    BY <1>1, <1>2, GoOnDoes DEF ReadPages
  <1>3. CASE Seeks # None
    <2> DEFINE fits(page) == MatchesIntent(PageMemory(page.of, page.text), Seeks)
               slugs == {s \in DOMAIN disk.pages : fits(disk.pages[s])}
               key == [s \in slugs |-> Place(disk.pages[s].of)]
               cand(s) == Candidate("wiki", 100, PageMemory(disk.pages[s].of, disk.pages[s].text),
                                    {Item(disk.pages[s].of, disk.pages[s].text, "wiki")})
               made(found) == [k \in DOMAIN found |-> cand(found[k])]
    <2>1. PICK found \in Firsts(key, Cardinality(slugs)) :
             query' = [query EXCEPT !.pc = "wiki", !.pages = {disk.pages[s] : s \in slugs},
                                    !.cands = made(found)]
      BY <1>3 DEF ReadPages
    <2>2. IsList(found) /\ ItemsOf(found) \subseteq slugs
      BY FirstsAre
    <2>3. /\ Len(found) \in Nat /\ DOMAIN found = 1 .. Len(found)
          /\ \A k \in 1 .. Len(found) : found[k] \in slugs
      BY <2>2, ListHas
    <2> DEFINE cands == made(found)
    <2>4. cands \in [1 .. Len(found) -> {cand(s) : s \in slugs}]
      <3> HIDE DEF cand, slugs
      <3> QED
        BY <2>3
    <2>5. ASSUME NEW s \in slugs
          PROVE  CandFits(cand(s)) /\ \A e \in cand(s).evidence : QuotedNow(e)
      <3> DEFINE page == disk.pages[s]
      <3>1. CandFits(cand(s)) /\ cand(s).evidence = {Item(page.of, page.text, "wiki")}
        BY WikiFits
      <3>2. page \in Pages
        BY DEF Pages
      <3> HIDE DEF page, cand
      <3>3. QuotedNow(Item(page.of, page.text, "wiki"))
        BY <3>2, ItemIs DEF QuotedNow
      <3> QED
        BY <3>1, <3>3 DEF page
    <2> HIDE DEF cand, made
    <2>6. /\ Shaped(query') /\ query'.pc = "wiki" /\ query'.question = query.question
          /\ query'.quiet = query.quiet /\ query'.snapshot = query.snapshot
          /\ query'.answer = query.answer /\ query'.pages = {disk.pages[s] : s \in slugs}
          /\ query'.top = query.top /\ query'.hits = query.hits /\ query'.nodes = query.nodes
          /\ query'.cands = cands
      <3> HIDE DEF slugs, cands
      <3> QED
        BY <1>1, <2>1 DEF Shaped, cands
    <2>7. \A p \in query'.pages : p \in Pages /\ MatchesIntent(PageMemory(p.of, p.text), Seeks)
      BY <2>6 DEF Pages
    <2> HIDE DEF slugs, cands
    <2>8. IsList(cands) /\ \A i \in DOMAIN cands : \E s \in slugs : cands[i] = cand(s)
      BY <2>3, <2>4, MadeOf
    <2>9. \A c \in Gathered' : c \in Gathered \/ (CandFits(c) /\ \A e \in c.evidence : QuotedNow(e))
      BY <2>5, <2>6, <2>8 DEF Gathered, ItemsOf
    <2> QED
      BY <1>1, <2>6, <2>7, <2>8, <2>9, WentOn DEF FoundInv
  <1> QED
    BY <1>2, <1>3

\* The pages that fit best.
LEMMA SearchWikiDoes ==
    ASSUME FoundInv, UNCHANGED library, SearchWiki, query' # NoQuery
    PROVE  FoundInv' /\ Goes
  <1>1. query.pc = "wiki" /\ Shaped(query)
    BY DEF SearchWiki, FoundInv
  <1>2. \/ GoOn("graph")
        \/ \E score \in Int, p \in Pages :
           \E evidence \in {{}, {Item(p.of, p.text, "wiki")}}, memory \in {Named(p.of), NoMemory} :
              query' = [query EXCEPT !.pc = "graph",
                           !.cands = Append(@, Candidate("wiki", score, memory, evidence))]
    <2> DEFINE primary   == Route(Asked, Rules) = "wiki"
               secondary == Asked.words \cap {"summary", "emphasis"} # {}
    <2>1. BestPages \subseteq Pages
      BY DEF BestPages
    <2>2. \/ \E p \in BestPages :
                IF primary \/ secondary \/ p.of \in Asked.names
                THEN query' = [query EXCEPT !.pc = "graph", !.cands = Append(@,
                        Candidate("wiki", IF primary THEN 100 ELSE 65, Named(p.of),
                                  {Item(p.of, p.text, "wiki")}))]
                ELSE GoOn("graph")
          \/ IF secondary /\ Pages # {}
             THEN query' = [query EXCEPT !.pc = "graph",
                               !.cands = Append(@, Candidate("wiki", 70, NoMemory, {}))]
             ELSE GoOn("graph")
      BY DEF SearchWiki
    <2>3. (IF primary THEN 100 ELSE 65) \in Int /\ 70 \in Int
      OBVIOUS
    <2> HIDE DEF primary, secondary
    <2> QED
      BY <2>1, <2>2, <2>3, Zenon
  <1>3. CASE GoOn("graph")
    BY <1>1, <1>3, GoOnDoes
  <1>4. ASSUME NEW score \in Int, NEW p \in Pages, NEW memory \in {Named(p.of), NoMemory},
               NEW evidence \in {{}, {Item(p.of, p.text, "wiki")}},
               query' = [query EXCEPT !.pc = "graph",
                            !.cands = Append(@, Candidate("wiki", score, memory, evidence))]
        PROVE  FoundInv' /\ Goes
    <2> DEFINE c == Candidate("wiki", score, memory, evidence)
    <2>1. CandFits(c) /\ c.evidence = evidence
      BY WikiFits
    <2>2. \A e \in c.evidence : QuotedNow(e)
      BY <2>1, ItemIs DEF QuotedNow
    <2> HIDE DEF c
    <2>3. /\ Shaped(query') /\ query'.pc = "graph" /\ query'.question = query.question
          /\ query'.quiet = query.quiet /\ query'.snapshot = query.snapshot
          /\ query'.answer = query.answer /\ query'.pages = query.pages
          /\ query'.top = query.top /\ query'.hits = query.hits /\ query'.nodes = query.nodes
          /\ query'.cands = Append(query.cands, c)
      BY <1>1, <1>4 DEF Shaped, c
    <2>4. IsList(query'.cands) /\ Gathered' = Gathered \cup {c}
      BY <2>3, FoundMore DEF FoundInv
    <2> QED
      BY <1>1, <2>1, <2>2, <2>3, <2>4, WentOn DEF FoundInv
  <1> QED
    BY <1>2, <1>3, <1>4

\* The items of a list are finitely many.
LEMMA ListFinite ==
    ASSUME NEW s, IsList(s)
    PROVE  IsFiniteSet(ItemsOf(s))
  <1>1. Len(s) \in Nat /\ DOMAIN s = 1 .. Len(s) /\ s = [i \in 1 .. Len(s) |-> s[i]]
    BY DEF IsList
  <1> DEFINE n == Len(s)
  <1> HIDE DEF n
  <1>2. IsFiniteSet(1 .. n)
    BY <1>1, FS_Interval DEF n
  <1>3. DOMAIN s = 1 .. n /\ s = [i \in 1 .. n |-> s[i]]
    BY <1>1 DEF n
  <1>4. IsFiniteSet({s[i] : i \in 1 .. n})
    BY <1>2, <1>3, FinitelyMany
  <1> QED
    BY <1>3, <1>4 DEF ItemsOf

\* What an edge and a chunk say, and how they are scored.
LEMMA EdgesAre ==
    ASSUME TypeInv, Asked \in Questions, NEW e \in Edges
    PROVE  /\ e.of \in DOMAIN disk.graph /\ e.text = disk.graph[e.of] /\ e.text \in Contents
           /\ EdgeScore(e) \in Int
  <1>1. PICK f \in DOMAIN disk.graph : \E kind \in Relations[disk.graph[f]] :
           e = [of |-> f, text |-> disk.graph[f], kind |-> kind]
    BY DEF Edges
  <1>2. disk.graph[f] \in Contents
    <2>1. disk.graph \in Partial(Files, Contents)
      BY LayersHave DEF TypeInv
    <2> QED
      BY <2>1, PartialFacts
  <1>3. e.of \in DOMAIN disk.graph /\ e.text = disk.graph[e.of] /\ e.text \in Contents
    BY <1>1, <1>2
  <1>4. Asked.terms[e.text] \in Nat
    BY <1>3, QueryAssumption
  <1> QED
    BY <1>3, <1>4 DEF EdgeScore

\* A hit is of a vector in the store, of whose source and text it is.
LEMMA HitsAre ==
    ASSUME TypeInv, NEW h \in Hits
    PROVE  /\ HitFits(h) /\ h.sha \in DOMAIN disk.vectors
           /\ h.of = disk.vectors[h.sha].of /\ h.text = disk.vectors[h.sha].text
  <1>1. PICK sha \in DOMAIN disk.vectors :
           \E k \in 1 .. Len(Chunks(library[disk.vectors[sha].text])) :
              h = [of |-> disk.vectors[sha].of, sha |-> sha, text |-> disk.vectors[sha].text, k |-> k]
    BY DEF Hits
  <1>2. disk.vectors[sha].text \in Contents
    <2>1. disk.vectors \in Partial(Contents, Artifacts)
      BY LayersHave DEF TypeInv
    <2>2. disk.vectors[sha] \in Artifacts
      BY <2>1, PartialFacts
    <2> QED
      BY <2>2 DEF Artifacts
  <1> QED
    BY <1>1, <1>2 DEF HitFits

\* The scores of a hit are numbers.
LEMMA HitScores ==
    ASSUME Asked \in Questions, NEW h, HitFits(h)
    PROVE  Similarity(h) \in Int /\ FinalScore(h) \in Int
  <1>1. /\ Asked.near[h.text] \in Nat /\ Asked.terms[h.text] \in Nat /\ h.k \in Int
    BY QueryAssumption DEF HitFits
  <1>2. Similarity(h) \in Int
    <2> DEFINE S == {0, Asked.near[h.text] - h.k}
    <2>1. S \subseteq Int /\ \E x \in S : \A y \in S : x >= y
      BY <1>1
    <2> HIDE DEF S
    <2>2. Greatest(S) \in S
      BY <2>1 DEF Greatest
    <2> QED
      BY <2>1, <2>2 DEF Similarity, S
  <1> QED
    BY <1>1, <1>2 DEF FinalScore, Lesser

\* The best edges of the graph.
LEMMA ReadGraphDoes ==
    ASSUME TypeInv, FoundInv, UNCHANGED library, ReadGraph
    PROVE  FoundInv' /\ Goes
  <1>1. query.pc = "graph" /\ Shaped(query) /\ Asked \in Questions
    BY DEF ReadGraph, FoundInv
  <1>2. CASE GoOn("vectors")
    BY <1>1, <1>2, GoOnDoes
  <1>3. CASE ~GoOn("vectors")
    <2> DEFINE scored  == {e \in Edges : EdgeScore(e) > 0}
               desired == {e \in scored : e.kind \in Asked.relations}
               ranked  == IF desired # {} THEN desired ELSE scored
               key     == [e \in ranked |-> -EdgeScore(e)]
    <2>1. ranked # {} /\ \E best \in Firsts(key, TopEdges) :
             query' = [query EXCEPT !.pc = "evidence", !.top = {best[k] : k \in DOMAIN best}]
      BY <1>3 DEF ReadGraph
    <2>2. ranked \subseteq Edges
      OBVIOUS
    <2>3. DOMAIN key = ranked /\ \A e \in ranked : key[e] = -EdgeScore(e)
      OBVIOUS
    <2> HIDE DEF ranked, key
    <2>4. PICK best \in Firsts(key, TopEdges) :
             query' = [query EXCEPT !.pc = "evidence", !.top = {best[k] : k \in DOMAIN best}]
      BY <2>1
    <2>5. IsList(best) /\ ItemsOf(best) \subseteq ranked
      BY <2>3, FirstsAre
    <2>6. Len(best) \in Nat /\ DOMAIN best = 1 .. Len(best) /\ \A k \in 1 .. Len(best) : best[k] \in ranked
      BY <2>5, ListHas
    <2>7. /\ ranked \ {best[i] : i \in DOMAIN best} # {} => Len(best) = TopEdges
          /\ \A i, j \in DOMAIN best : i < j => key[best[i]] <= key[best[j]]
      BY <2>3 DEF Firsts
    <2>8. 1 \in DOMAIN best
      <3>1. Len(best) # 0
        <4> SUFFICES ASSUME Len(best) = 0 PROVE FALSE
          OBVIOUS
        <4>1. {best[i] : i \in DOMAIN best} = {}
          BY <2>6
        <4> QED
          BY <2>1, <2>7, <4>1, QueryAssumption
      <3> QED
        BY <2>6, <3>1
    <2>9. \A e \in ranked : e.text \in Contents /\ EdgeScore(e) \in Int
      BY <1>1, <2>2, EdgesAre
    <2>10. \A k \in DOMAIN best : EdgeScore(best[k]) <= EdgeScore(best[1])
      <3> SUFFICES ASSUME NEW k \in DOMAIN best PROVE EdgeScore(best[k]) <= EdgeScore(best[1])
        OBVIOUS
      <3>1. k = 1 \/ (k \in Int /\ 1 < k)
        BY <2>6
      <3>2. key[best[1]] = -EdgeScore(best[1]) /\ key[best[k]] = -EdgeScore(best[k])
            /\ EdgeScore(best[1]) \in Int /\ EdgeScore(best[k]) \in Int
        BY <2>3, <2>6, <2>8, <2>9
      <3> QED
        BY <2>7, <2>8, <3>1, <3>2
    <2>11. /\ Shaped(query') /\ query'.pc = "evidence" /\ query'.question = query.question
           /\ query'.quiet = query.quiet /\ query'.snapshot = query.snapshot
           /\ query'.answer = query.answer /\ query'.pages = query.pages
           /\ query'.top = ItemsOf(best) /\ query'.hits = query.hits
           /\ query'.nodes = query.nodes /\ query'.cands = query.cands
      BY <1>1, <2>4 DEF Shaped, ItemsOf
    <2>12. TopFits'
      <3>1. \A e : EdgeScore(e)' = EdgeScore(e)
        BY <2>11 DEF EdgeScore, Asked
      <3>2. IsFiniteSet(query'.top)
        BY <2>5, <2>11, ListFinite
      <3>3. \A e \in query'.top : e.text \in Contents
        BY <2>5, <2>9, <2>11
      <3>4. \E e \in query'.top : \A d \in query'.top : EdgeScore(d) <= EdgeScore(e)
        BY <2>8, <2>10, <2>11 DEF ItemsOf
      <3> QED
        BY <3>1, <3>2, <3>3, <3>4 DEF TopFits
    <2>13. Gathered' = Gathered /\ query'.top \subseteq Edges
      BY <2>2, <2>5, <2>11 DEF Gathered
    <2> QED
      BY <1>1, <2>11, <2>12, <2>13, WentOn DEF FoundInv
  <1> QED
    BY <1>2, <1>3

\* Their evidence: an edge that is still there is quoted with what the graph has of
\* its source now.
LEMMA ReadEvidenceDoes ==
    ASSUME TypeInv, FoundInv, UNCHANGED library, ReadEvidence
    PROVE  FoundInv' /\ Goes
  <1>1. query.pc = "evidence" /\ Shaped(query) /\ Asked \in Questions /\ TopFits
    BY DEF ReadEvidence, FoundInv
  <1> DEFINE top     == query.top
             still   == {e \in Edges : \E t \in top : e.of = t.of /\ e.kind = t.kind}
             best    == Greatest({EdgeScore(e) : e \in top})
             text(f) == IF \E e \in still : e.of = f THEN disk.graph[f] ELSE None
             score   == Lesser(99, 55 + 6 * Lesser(best, 6) + 5 * (Cardinality(top) - 1))
             items   == {Item(t.of, text(t.of), "graph") : t \in top}
             quoted  == {e.of : e \in still}
             c       == [Candidate("graph", score, NoMemory, items)
                            EXCEPT !.edges = top, !.quoted = quoted]
  <1>2. query' = [query EXCEPT !.pc = "vectors", !.top = {}, !.cands = Append(@, c)]
    BY DEF ReadEvidence
  <1>3. score \in Int
    <2>1. \A e \in top : EdgeScore(e) \in Int
      <3>1. \A e \in top : Asked.terms[e.text] \in Nat
        BY <1>1, QueryAssumption DEF TopFits
      <3> QED
        BY <3>1 DEF EdgeScore
    <2> DEFINE S == {EdgeScore(e) : e \in top}
    <2>2. S \subseteq Int /\ \E x \in S : \A y \in S : x >= y
      BY <1>1, <2>1 DEF TopFits
    <2>3. Greatest(S) \in Int
      <3> HIDE DEF S
      <3> QED
        BY <2>2 DEF Greatest
    <2>4. Cardinality(top) \in Int
      BY <1>1, FS_CardinalityType DEF TopFits
    <2> HIDE DEF top
    <2> QED
      BY <2>3, <2>4 DEF Lesser
  <1>4. /\ c.score = score /\ c.route = "graph" /\ c.evidence = items /\ c.quoted = quoted
    BY DEF Candidate
  <1> HIDE DEF score, c
  <1>5. ASSUME NEW t \in top, t.of \in quoted
        PROVE  Item(t.of, text(t.of), "graph").text \in Contents
    <2>1. PICK e \in still : e.of = t.of
      BY <1>5
    <2>2. text(t.of) = disk.graph[t.of] /\ disk.graph[t.of] \in Contents
      BY <1>1, <2>1, EdgesAre
    <2> HIDE DEF text
    <2> QED
      BY <2>2, ItemIs
  <1>6. CandFits(c)
    <2> SUFFICES ASSUME Eligible(c) PROVE \E e \in items : e.route # "wiki" /\ e.text # None
      BY <1>3, <1>4 DEF CandFits
    <2>1. quoted # {}
      BY <1>4 DEF Eligible
    <2>2. PICK t \in top : t.of \in quoted
      BY <2>1
    <2>3. Item(t.of, text(t.of), "graph").text # None
      <3> HIDE DEF quoted, text
      <3> QED
        BY <1>5, <2>2, IngestAssumption
    <2> HIDE DEF text, quoted
    <2> QED
      BY <2>3, ItemIs
  <1>7. \A e \in items : QuotedNow(e)
    <2> SUFFICES ASSUME NEW t \in top PROVE QuotedNow(Item(t.of, text(t.of), "graph"))
      OBVIOUS
    <2>1. t \in Edges => text(t.of) = disk.graph[t.of]
      OBVIOUS
    <2> HIDE DEF text
    <2> QED
      BY <2>1, ItemIs DEF QuotedNow
  <1> HIDE DEF items
  <1>8. /\ Shaped(query') /\ query'.pc = "vectors" /\ query'.question = query.question
        /\ query'.quiet = query.quiet /\ query'.snapshot = query.snapshot
        /\ query'.answer = query.answer /\ query'.pages = query.pages
        /\ query'.top = {} /\ query'.hits = query.hits /\ query'.nodes = query.nodes
        /\ query'.cands = Append(query.cands, c)
    BY <1>1, <1>2 DEF Shaped
  <1>9. IsList(query'.cands) /\ Gathered' = Gathered \cup {c}
    BY <1>8, FoundMore DEF FoundInv
  <1> QED
    BY <1>1, <1>4, <1>6, <1>7, <1>8, <1>9, WentOn DEF FoundInv

\* The nearest chunks.
LEMMA SearchVectorsDoes ==
    ASSUME TypeInv, FoundInv, UNCHANGED library, SearchVectors
    PROVE  FoundInv' /\ Goes
  <1>1. query.pc = "vectors" /\ Shaped(query)
    BY DEF SearchVectors, FoundInv
  <1> DEFINE key == [hit \in Hits |-> -Similarity(hit)]
  <1>2. PICK nearest \in Firsts(key, TopHits) :
           query' = [query EXCEPT !.pc = "sections", !.hits = nearest]
    BY DEF SearchVectors
  <1>3. DOMAIN key = Hits
    OBVIOUS
  <1> HIDE DEF key
  <1>4. IsList(nearest) /\ ItemsOf(nearest) \subseteq Hits
    BY <1>3, FirstsAre
  <1>5. \A h \in ItemsOf(nearest) : HitFits(h)
    BY <1>4, HitsAre
  <1>6. /\ Shaped(query') /\ query'.pc = "sections" /\ query'.question = query.question
        /\ query'.quiet = query.quiet /\ query'.snapshot = query.snapshot
        /\ query'.answer = query.answer /\ query'.pages = query.pages
        /\ query'.top = query.top /\ query'.hits = nearest /\ query'.nodes = query.nodes
        /\ query'.cands = query.cands
    BY <1>1, <1>2 DEF Shaped
  <1>7. Gathered' = Gathered
    BY <1>6 DEF Gathered
  <1> QED
    BY <1>1, <1>4, <1>5, <1>6, <1>7, WentOn DEF FoundInv

\* A hit becomes a candidate, with the section that it lies in.
LEMMA LocateDoes ==
    ASSUME TypeInv, FoundInv, UNCHANGED library, Locate
    PROVE  FoundInv' /\ Goes
  <1>1. query.pc = "sections" /\ Shaped(query) /\ Asked \in Questions /\ query.hits # <<>>
        /\ IsList(query.hits)
    BY DEF Locate, FoundInv
  <1> DEFINE hit     == Head(query.hits)
             tree    == disk.trees[StemOf[hit.of]]
             passage == Item(hit.of, hit.text, "vector")
             item(i) == IF i = 0 THEN passage
                        ELSE [passage EXCEPT !.section = [of |-> tree.text, hit |-> hit.sha,
                                                          path |-> SectionPath(Nodes(tree), i)]]
             c(e)    == [Candidate("vector", FinalScore(hit), ChunkMemory(hit.of, hit.text, hit.k), {e})
                           EXCEPT !.similarity = Similarity(hit), !.overlap = Asked.terms[hit.text]]
  <1>2. PICK found \in IF HasSection(hit) THEN {item(i) : i \in NodesFor(tree, hit)} ELSE {passage} :
           query' = [query EXCEPT !.hits = Tail(@), !.cands = Append(@, c(found))]
    BY DEF Locate
  <1>3. /\ hit \in ItemsOf(query.hits) /\ HitFits(hit)
        /\ IsList(Tail(query.hits)) /\ ItemsOf(Tail(query.hits)) \subseteq ItemsOf(query.hits)
    BY <1>1, TailList DEF FoundInv
  <1>4. /\ passage.of = hit.of /\ passage.text = hit.text /\ passage.route = "vector"
        /\ passage.section = None
    BY ItemIs
  <1>5. /\ found.of = hit.of /\ found.text = hit.text /\ found.route = "vector"
        /\ found.section # None => /\ HasSection(hit) /\ found.section.hit = hit.sha
                                  /\ found.section.of = tree.text
    <2>1. CASE found = passage
      BY <1>4, <2>1
    <2>2. CASE found # passage
      <3>1. HasSection(hit) /\ \E i : found = item(i)
        BY <1>2, <2>2
      <3>2. PICK i : found = [passage EXCEPT !.section = [of |-> tree.text, hit |-> hit.sha,
                                                          path |-> SectionPath(Nodes(tree), i)]]
        BY <2>2, <3>1
      <3>3. /\ found.of = hit.of /\ found.text = hit.text /\ found.route = "vector"
            /\ found.section.hit = hit.sha /\ found.section.of = tree.text
        <4> HIDE DEF hit, tree
        <4> QED
          BY <3>2 DEF Item
      <3> QED
        BY <3>1, <3>3
    <2> QED
      BY <2>1, <2>2
  <1> HIDE DEF passage, item, hit
  <1>6. c(found).score = FinalScore(hit) /\ c(found).evidence = {found}
    BY DEF Candidate
  <1> HIDE DEF c
  <1>7. QuotedNow(found)
    BY <1>3, <1>5 DEF QuotedNow
  <1>8. CandFits(c(found))
    <2>1. found.route # "wiki" /\ found.text # None
      BY <1>3, <1>5, IngestAssumption DEF HitFits
    <2> QED
      BY <1>1, <1>3, <1>6, <2>1, HitScores DEF CandFits
  <1>9. /\ Shaped(query') /\ query'.pc = "sections" /\ query'.question = query.question
        /\ query'.quiet = query.quiet /\ query'.snapshot = query.snapshot
        /\ query'.answer = query.answer /\ query'.pages = query.pages
        /\ query'.top = query.top /\ query'.hits = Tail(query.hits) /\ query'.nodes = query.nodes
        /\ query'.cands = Append(query.cands, c(found))
    BY <1>1, <1>2 DEF Shaped
  <1>10. IsList(query'.cands) /\ Gathered' = Gathered \cup {c(found)}
    BY <1>9, FoundMore DEF FoundInv
  <1>11. /\ query'.top \subseteq query.top \cup Edges
         /\ ItemsOf(query'.hits) \subseteq ItemsOf(query.hits) \cup Hits
         /\ \A h \in ItemsOf(query'.hits) : HitFits(h)
    BY <1>3, <1>9 DEF FoundInv
  <1>12. \A x \in Gathered' : x \in Gathered \/ (CandFits(x) /\ \A e \in x.evidence : QuotedNow(e))
    BY <1>6, <1>7, <1>8, <1>10
  <1> QED
    BY <1>1, <1>3, <1>9, <1>10, <1>11, <1>12, WentOn DEF FoundInv

\* All hits are candidates.
LEMMA AllLocatedDoes ==
    ASSUME FoundInv, UNCHANGED library, AllLocated
    PROVE  FoundInv' /\ Goes
  <1>1. query.pc = "sections" /\ Shaped(query)
    BY DEF AllLocated, FoundInv
  <1> DEFINE todo == Sorted({f \in DOMAIN query.snapshot : Derived(query.snapshot[f])})
  <1>2. query' = [query EXCEPT !.pc = "trees", !.todo = todo]
    BY DEF AllLocated
  <1> HIDE DEF todo
  <1>3. /\ Shaped(query') /\ query'.pc = "trees" /\ query'.question = query.question
        /\ query'.quiet = query.quiet /\ query'.snapshot = query.snapshot
        /\ query'.answer = query.answer /\ query'.pages = query.pages
        /\ query'.top = query.top /\ query'.hits = query.hits /\ query'.nodes = query.nodes
        /\ query'.cands = query.cands
    BY <1>1, <1>2 DEF Shaped
  <1>4. Gathered' = Gathered
    BY <1>3 DEF Gathered
  <1> QED
    BY <1>1, <1>3, <1>4, WentOn DEF FoundInv

\* The nodes of the next tree, if it has summaries.
LEMMA ReadTreeDoes ==
    ASSUME TypeInv, EnrichInv, FoundInv, UNCHANGED library, ReadTree
    PROVE  FoundInv' /\ Goes
  <1>1. query.pc = "trees" /\ Shaped(query) /\ Asked \in Questions
    BY DEF ReadTree, FoundInv
  <1> DEFINE stem == StemOf[Head(query.todo)]
             tree == disk.trees[stem]
             score == NodeScore(tree)
             item(i) == [Item(tree.of, tree.from, "page_tree") EXCEPT
                            !.section = [of |-> tree.text, hit |-> tree.sha,
                                         path |-> SectionPath(Nodes(tree), i)]]
             c(i) == Candidate("page_tree", Lesser(score, 85), Named(tree.of), {item(i)})
             made == [i \in DOMAIN Nodes(tree) |-> c(i)]
             found == IF score = 0 THEN <<>> ELSE made
  <1>2. CASE query' = [query EXCEPT !.todo = Tail(@)]
    <2>1. /\ Shaped(query') /\ query'.pc = "trees" /\ query'.question = query.question
          /\ query'.quiet = query.quiet /\ query'.snapshot = query.snapshot
          /\ query'.answer = query.answer /\ query'.pages = query.pages
          /\ query'.top = query.top /\ query'.hits = query.hits /\ query'.nodes = query.nodes
          /\ query'.cands = query.cands
      BY <1>1, <1>2 DEF Shaped
    <2>2. Gathered' = Gathered
      BY <2>1 DEF Gathered
    <2> QED
      BY <1>1, <2>1, <2>2, WentOn DEF FoundInv
  <1>3. CASE query' # [query EXCEPT !.todo = Tail(@)]
    <2>1. /\ stem \in DOMAIN disk.trees /\ tree.by # "rule"
          /\ query' = [query EXCEPT !.todo = Tail(@), !.nodes = @ \o found]
      BY <1>3 DEF ReadTree
    <2>2. tree \in Trees
      <3>1. disk.trees \in Partial(Stems, Trees)
        BY LayersHave DEF TypeInv
      <3> HIDE DEF stem
      <3> QED
        BY <2>1, <3>1, PartialFacts
    <2>3. tree.from # None /\ tree.text \in Contents
      BY <2>1, <2>2 DEF Trees
    <2>4. score \in Int
      <3>1. /\ Asked.terms[tree.text] \in Nat
            /\ tree.from \in Contents => Asked.terms[tree.from] \in Nat
        BY <1>1, <2>3, QueryAssumption
      <3> HIDE DEF tree
      <3> QED
        BY <3>1 DEF NodeScore
    <2>5. ASSUME NEW i
          PROVE  CandFits(c(i)) /\ \A e \in c(i).evidence : QuotedNow(e)
      <3> DEFINE e == item(i)
      <3>1. e.route = "page_tree" /\ e.text = tree.from /\ e.of = tree.of
        <4> HIDE DEF tree
        <4> QED
          BY DEF Item
      <3> HIDE DEF e
      <3>2. QuotedNow(e)
        BY <2>1, <3>1 DEF QuotedNow
      <3>3. c(i) = Candidate("page_tree", Lesser(score, 85), Named(tree.of), {e})
        BY DEF e
      <3> HIDE DEF score, tree, c
      <3>4. c(i).score \in Int /\ c(i).evidence = {e}
        BY <2>4, <3>3 DEF Candidate, Lesser
      <3> QED
        BY <2>3, <3>1, <3>2, <3>4 DEF CandFits
    <2>6. IsList(found) /\ \A x \in ItemsOf(found) : \E i : x = c(i)
      <3>1. IsList(Nodes(tree))
        BY <2>2, NodesAre
      <3> DEFINE N == Nodes(tree)
      <3>2. Len(N) \in Nat /\ DOMAIN N = 1 .. Len(N)
        BY <3>1, ListHas
      <3>3. made \in [1 .. Len(N) -> {c(i) : i \in 1 .. Len(N)}]
        <4> HIDE DEF c
        <4> QED
          BY <3>2
      <3> HIDE DEF c, N
      <3>4. IsList(made) /\ \A x \in ItemsOf(made) : \E i : x = c(i)
        <4>1. IsList(made)
          <5> HIDE DEF made
          <5> QED
            BY <3>2, <3>3, MadeOf
        <4>2. \A i \in DOMAIN made : \E j : made[i] = c(j)
          OBVIOUS
        <4> QED
          BY <4>1, <4>2 DEF ItemsOf
      <3> HIDE DEF made, score
      <3> QED
        BY <3>4, EmptyList
    <2> HIDE DEF found, c, tree, stem
    <2>7. /\ Shaped(query') /\ query'.pc = "trees" /\ query'.question = query.question
          /\ query'.quiet = query.quiet /\ query'.snapshot = query.snapshot
          /\ query'.answer = query.answer /\ query'.pages = query.pages
          /\ query'.top = query.top /\ query'.hits = query.hits
          /\ query'.nodes = query.nodes \o found /\ query'.cands = query.cands
      BY <1>1, <2>1 DEF Shaped
    <2>8. IsList(query'.nodes) /\ ItemsOf(query'.nodes) \subseteq ItemsOf(query.nodes) \cup ItemsOf(found)
      BY <2>6, <2>7, ConcatList DEF FoundInv
    <2>9. \A x \in Gathered' : x \in Gathered \/ (CandFits(x) /\ \A e \in x.evidence : QuotedNow(e))
      BY <2>5, <2>6, <2>7, <2>8 DEF Gathered
    <2> QED
      BY <1>1, <2>7, <2>8, <2>9, WentOn DEF FoundInv
  <1> QED
    BY <1>2, <1>3

\* Only what is eligible is written back without being asked for.
LEMMA OutcomeIs ==
    ASSUME NEW source_, NEW eligible, NEW flag \in {"yes", "no", "auto", "ask"},
           NEW tty \in BOOLEAN, NEW confirmed \in BOOLEAN,
           Decided(source_, eligible, flag, tty, confirmed) = "auto-committed"
    PROVE  eligible
  <1>1. CASE source_ = Unset
    BY <1>1 DEF Decided
  <1>2. CASE source_ # Unset
    <2>1. flag = "auto"
      BY <1>2 DEF Decided
    <2> QED
      BY <1>2, <2>1 DEF Decided
  <1> QED
    BY <1>1, <1>2

\* The answer is given, and what was found is dropped.
LEMMA AnswerDoes ==
    ASSUME FoundInv, UNCHANGED library, query.pc \notin {"idle", "done"},
           NEW route, NEW eligible, NEW answer,
           Answer(route, eligible, answer),
           answer = [kind |-> answer.kind, evidence |-> answer.evidence,
                     pieces |-> answer.pieces, outcome |-> answer.outcome],
           eligible => /\ answer.kind = "best"
                       /\ \E e \in answer.evidence : e.route # "wiki" /\ e.text # None,
           answer.kind \in {"status", "range"} =>
              answer.pieces # {} /\ \A p \in answer.pieces : FitsIntent(p, Seeks),
           \A e \in answer.evidence : AnsweredNow(e)
    PROVE  FoundInv' /\ Goes
  <1>1. PICK outcome \in Outcomes(route, eligible) :
           query' = [NoQuery EXCEPT !.pc = "done", !.question = Asked, !.quiet = query.quiet,
                        !.answer = [answer EXCEPT !.outcome = outcome]]
    BY DEF Answer
  <1> DEFINE given == [answer EXCEPT !.outcome = outcome]
  <1>2. outcome = "auto-committed" => eligible
    <2>1. PICK flag \in {"yes", "no", "auto", "ask"}, tty \in BOOLEAN, confirmed \in BOOLEAN :
             outcome = Decided(route, eligible, flag, tty, confirmed)
      BY DEF Outcomes
    <2>2. Decided(route, eligible, flag, tty, confirmed) = "auto-committed" => eligible
      BY OutcomeIs
    <2> QED
      BY <2>1, <2>2
  <1>3. /\ given.kind = answer.kind /\ given.evidence = answer.evidence
        /\ given.pieces = answer.pieces /\ given.outcome = outcome
    OBVIOUS
  <1>4. query' = [NoQuery EXCEPT !.pc = "done", !.question = Asked, !.quiet = query.quiet,
                                 !.answer = given]
    BY <1>1
  <1> HIDE DEF given
  <1>5. /\ Shaped(query') /\ query'.pc = "done" /\ query'.question = Asked
        /\ query'.quiet = query.quiet /\ query'.answer = given
        /\ query'.pages = {} /\ query'.top = {} /\ query'.hits = <<>> /\ query'.nodes = <<>>
        /\ query'.cands = <<>>
    BY <1>4 DEF NoQuery, Shaped
  <1>6. Gathered' = {}
    BY <1>5, EmptyList DEF Gathered
  <1>7. Asked' = Asked /\ Seeks' = Seeks
    BY <1>5 DEF Asked, Seeks
  <1>8. AutoIsBacked'
    BY <1>2, <1>3, <1>5 DEF AutoIsBacked
  <1>9. MemoryFits'
    BY <1>3, <1>5, <1>7 DEF MemoryFits
  <1>10. FoundInv'
    BY <1>5, <1>6, <1>7, <1>8, <1>9, EmptyList DEF FoundInv
  <1> QED
    BY <1>3, <1>5, <1>6, <1>10, EmptyList DEF Goes

\* Without a candidate.
LEMMA NoAnswerDoes ==
    ASSUME FoundInv, UNCHANGED library, query.pc \notin {"idle", "done"},
           Answer(None, FALSE, NoAnswer)
    PROVE  FoundInv' /\ Goes
  <1>1. /\ NoAnswer = [kind |-> NoAnswer.kind, evidence |-> NoAnswer.evidence,
                       pieces |-> NoAnswer.pieces, outcome |-> NoAnswer.outcome]
        /\ NoAnswer.kind = "none" /\ NoAnswer.evidence = {}
    BY DEF NoAnswer
  <1> QED
    BY <1>1, AnswerDoes

\* The candidates that are preferred are some of them.
LEMMA PreferredAre ==
    ASSUME NEW cands, IsList(cands), cands # <<>>
    PROVE  /\ IsList(Preferred(cands)) /\ ItemsOf(Preferred(cands)) \subseteq ItemsOf(cands)
           /\ Preferred(cands) # <<>>
  <1> DEFINE fitting == {i \in DOMAIN cands : MatchesIntent(cands[i].memory, Seeks)}
  <1>1. Preferred(cands) = IF Seeks = None \/ fitting = {} THEN cands ELSE At(cands, fitting)
    BY DEF Preferred
  <1>2. fitting \in SUBSET DOMAIN cands
    OBVIOUS
  <1> HIDE DEF fitting
  <1>3. IsList(At(cands, fitting)) /\ ItemsOf(At(cands, fitting)) = {cands[i] : i \in fitting}
    BY <1>2, AtIs
  <1>4. {cands[i] : i \in fitting} \subseteq ItemsOf(cands)
    BY <1>2 DEF ItemsOf
  <1>5. fitting # {} => At(cands, fitting) # <<>>
    BY <1>3, EmptyList
  <1> QED
    BY <1>1, <1>3, <1>4, <1>5

\* How many nodes go before each.
Before(nodes) ==
    [i \in DOMAIN nodes |->
        Cardinality({j \in DOMAIN nodes : nodes[j].score > nodes[i].score
                                          \/ (nodes[j].score = nodes[i].score /\ j < i)})]

\* The best nodes are some of the nodes.
LEMMA BestNodesAre ==
    ASSUME NEW nodes, IsList(nodes), \A c \in ItemsOf(nodes) : c.score \in Int, NEW order,
           order = Listed(Before(nodes)),
           NEW best, best = [k \in 1 .. Lesser(TopHits, Len(order)) |-> nodes[order[k]]]
    PROVE  IsList(best) /\ ItemsOf(best) \subseteq ItemsOf(nodes)
  <1> DEFINE D      == DOMAIN nodes
             before == {p \in D \X D : \/ nodes[p[1]].score > nodes[p[2]].score
                                       \/ nodes[p[1]].score = nodes[p[2]].score /\ p[1] < p[2]}
             place  == [i \in D |-> Cardinality({j \in D : <<j, i>> \in before})]
  <1>1. IsFiniteSet(D) /\ \A i \in D : i \in Int /\ nodes[i].score \in Int
    <2>1. Len(nodes) \in Nat /\ D = 1 .. Len(nodes) /\ \A i \in D : nodes[i] \in ItemsOf(nodes)
      BY ListHas
    <2> DEFINE n == Len(nodes)
    <2> HIDE DEF n
    <2>2. IsFiniteSet(1 .. n)
      BY <2>1, FS_Interval DEF n
    <2> QED
      BY <2>1, <2>2 DEF n
  <1>2. \A i, j \in D : <<i, j>> \in before <=> \/ nodes[i].score > nodes[j].score
                                                \/ nodes[i].score = nodes[j].score /\ i < j
    OBVIOUS
  <1>3. place = Before(nodes)
    <2>1. ASSUME NEW i \in D
          PROVE  {j \in D : nodes[j].score > nodes[i].score
                             \/ (nodes[j].score = nodes[i].score /\ j < i)}
                 = {j \in D : <<j, i>> \in before}
      BY <1>2
    <2> HIDE DEF before
    <2> QED
      BY <2>1 DEF Before
  <1>4. Orders(before, D)
    <2> HIDE DEF before, D
    <2>1. \A x \in D : <<x, x>> \notin before
      BY <1>1, <1>2
    <2>2. ASSUME NEW x \in D, NEW y \in D, NEW z \in D, <<x, y>> \in before, <<y, z>> \in before
          PROVE  <<x, z>> \in before
      <3>1. \/ nodes[x].score > nodes[z].score
            \/ nodes[x].score = nodes[z].score /\ x < z
        BY <1>1, <1>2, <2>2
      <3> QED
        BY <1>2, <3>1
    <2>3. ASSUME NEW x \in D, NEW y \in D
          PROVE  x = y \/ <<x, y>> \in before \/ <<y, x>> \in before
      BY <1>1, <1>2
    <2> QED
      BY <2>1, <2>2, <2>3 DEF Orders
  <1>5. Placed(place)
    <2> HIDE DEF before, D
    <2> QED
      BY <1>1, <1>4, CountedApart
  <1>6. DOMAIN place = D /\ order = Listed(place)
    BY <1>3
  <1> HIDE DEF place, before
  <1>7. Len(order) \in Nat /\ \A k \in 1 .. Len(order) : order[k] \in D
    <2>1. LET n == Cardinality(DOMAIN place) IN
             /\ n \in Nat /\ Len(order) = n
             /\ \A k \in 1 .. n : order[k] \in DOMAIN place
      BY <1>5, <1>6, ListedIs
    <2> QED
      BY <1>6, <2>1
  <1> DEFINE n == Lesser(TopHits, Len(order))
  <1>8. n \in Nat /\ \A k \in 1 .. n : order[k] \in D
    BY <1>7, QueryAssumption DEF Lesser
  <1>9. best \in [1 .. n -> ItemsOf(nodes)]
    <2>1. best = [k \in 1 .. n |-> nodes[order[k]]]
      OBVIOUS
    <2> HIDE DEF n
    <2>2. \A k \in 1 .. n : nodes[order[k]] \in ItemsOf(nodes)
      BY <1>8 DEF ItemsOf
    <2> QED
      BY <2>1, <2>2
  <1> HIDE DEF n
  <1>10. n \in Nat
    BY <1>8
  <1> DEFINE good == ItemsOf(nodes)
  <1>11. best \in [1 .. n -> good]
    BY <1>9
  <1> HIDE DEF good
  <1>12. IsList(best) /\ ItemsOf(best) \subseteq good
    BY <1>10, <1>11, MadeOf, ZenonT(60)
  <1> QED
    BY <1>12 DEF good

\* The nodes join the other candidates.
LEMMA CollectedDoes ==
    ASSUME FoundInv, UNCHANGED library, Collected
    PROVE  FoundInv' /\ Goes
  <1>1. /\ query.pc = "trees" /\ Shaped(query) /\ IsList(query.nodes) /\ IsList(query.cands)
        /\ \A c \in ItemsOf(query.nodes) : c.score \in Int
    BY DEF Collected, FoundInv, Gathered, CandFits
  <1> DEFINE order == Listed([i \in DOMAIN query.nodes |->
                         Cardinality({j \in DOMAIN query.nodes :
                                        query.nodes[j].score > query.nodes[i].score
                                        \/ (query.nodes[j].score = query.nodes[i].score /\ j < i)})])
             nodes == [k \in 1 .. Lesser(TopHits, Len(order)) |-> query.nodes[order[k]]]
             cands == query.cands \o nodes
             next  == IF AsksForStatus(Seeks) THEN "status"
                      ELSE IF AsksForRange(Seeks) THEN "range" ELSE "rank"
  <1>2. IsList(nodes) /\ ItemsOf(nodes) \subseteq ItemsOf(query.nodes)
    <2> DEFINE best == nodes
               listed == order
    <2>1. best = [k \in 1 .. Lesser(TopHits, Len(listed)) |-> query.nodes[listed[k]]]
      OBVIOUS
    <2>2. listed = Listed(Before(query.nodes))
      BY DEF Before
    <2> HIDE DEF best, listed
    <2>3. IsList(best) /\ ItemsOf(best) \subseteq ItemsOf(query.nodes)
      BY <1>1, <2>1, <2>2, BestNodesAre
    <2> QED
      BY <2>3 DEF best
  <1>3. IF cands = <<>> THEN Answer(None, FALSE, NoAnswer)
        ELSE query' = [query EXCEPT !.cands = Preferred(cands), !.nodes = <<>>, !.pc = next]
    BY DEF Collected
  <1> HIDE DEF nodes
  <1>4. IsList(cands) /\ ItemsOf(cands) \subseteq Gathered
    BY <1>1, <1>2, ConcatList DEF Gathered
  <1> HIDE DEF cands
  <1>5. CASE cands = <<>>
    BY <1>1, <1>3, <1>5, NoAnswerDoes
  <1>6. CASE cands # <<>>
    <2>1. /\ IsList(Preferred(cands)) /\ ItemsOf(Preferred(cands)) \subseteq Gathered
          /\ Preferred(cands) # <<>>
      BY <1>4, <1>6, PreferredAre
    <2>2. next \in {"status", "range", "rank"}
      OBVIOUS
    <2> HIDE DEF next
    <2>3. /\ Shaped(query') /\ query'.pc = next /\ query'.question = query.question
          /\ query'.quiet = query.quiet /\ query'.snapshot = query.snapshot
          /\ query'.answer = query.answer /\ query'.pages = query.pages
          /\ query'.top = query.top /\ query'.hits = query.hits
          /\ query'.nodes = <<>> /\ query'.cands = Preferred(cands)
      BY <1>1, <1>3, <1>6 DEF Shaped
    <2>4. Gathered' \subseteq Gathered
      BY <2>1, <2>3, EmptyList DEF Gathered
    <2>5. Asked' = Asked /\ Seeks' = Seeks
      BY <2>3 DEF Asked, Seeks
    <2>6. \A p \in query'.pages : MatchesIntent(PageMemory(p.of, p.text), Seeks)'
      <3>1. ASSUME NEW f, NEW c PROVE PageMemory(f, c)' = PageMemory(f, c)
        BY DEF PageMemory
      <3> QED
        BY <2>3, <2>5, <3>1 DEF FoundInv
    <2>7. FoundInv'
      BY <1>1, <2>1, <2>2, <2>3, <2>4, <2>5, <2>6, EmptyList DEF FoundInv
    <2> QED
      BY <1>1, <2>2, <2>3, <2>4, <2>7 DEF Goes, Asked
  <1> QED
    BY <1>5, <1>6

\* The query turns from what it might tell of past sessions to the candidates.
LEMMA TurnsTo ==
    ASSUME FoundInv, UNCHANGED library, query.pc \in {"status", "range"},
           NEW pc \in {"range", "rank"}, GoOn(pc)
    PROVE  FoundInv' /\ Goes
  <1>1. Shaped(query)
    BY DEF FoundInv
  <1>2. /\ Shaped(query') /\ query'.pc = pc /\ query'.question = query.question
        /\ query'.quiet = query.quiet /\ query'.snapshot = query.snapshot
        /\ query'.answer = query.answer /\ query'.pages = query.pages /\ query'.top = query.top
        /\ query'.hits = query.hits /\ query'.nodes = query.nodes /\ query'.cands = query.cands
    BY <1>1 DEF Shaped, GoOn
  <1>3. Gathered' = Gathered /\ Asked' = Asked /\ Seeks' = Seeks
    BY <1>2 DEF Gathered, Asked, Seeks
  <1>4. \A p \in query'.pages : MatchesIntent(PageMemory(p.of, p.text), Seeks)'
    <2>1. ASSUME NEW f, NEW c PROVE PageMemory(f, c)' = PageMemory(f, c)
      BY DEF PageMemory
    <2> QED
      BY <1>2, <1>3, <2>1 DEF FoundInv
  <1>5. FoundInv'
    BY <1>2, <1>3, <1>4 DEF FoundInv
  <1> QED
    BY <1>2, <1>3, <1>5 DEF Goes, Asked

\* The answers that are given: what is told of past sessions, and the best.
LEMMA AnswerIs ==
    ASSUME NEW kind, NEW pieces, NEW items
    PROVE  /\ [NoAnswer EXCEPT !.kind = kind, !.evidence = items]
              = [kind |-> kind, evidence |-> items, pieces |-> {}, outcome |-> None]
           /\ [NoAnswer EXCEPT !.kind = kind, !.pieces = pieces, !.evidence = items]
              = [kind |-> kind, evidence |-> items, pieces |-> pieces, outcome |-> None]
  <1> DEFINE a == [NoAnswer EXCEPT !.kind = kind]
             b == [a EXCEPT !.pieces = pieces]
  <1>1. a = [kind |-> kind, evidence |-> {}, pieces |-> {}, outcome |-> None]
    BY DEF NoAnswer
  <1> HIDE DEF a
  <1>2. b = [kind |-> kind, evidence |-> {}, pieces |-> pieces, outcome |-> None]
    BY <1>1
  <1>3. [a EXCEPT !.evidence = items]
        = [kind |-> kind, evidence |-> items, pieces |-> {}, outcome |-> None]
    BY <1>1
  <1> HIDE DEF b
  <1>4. [b EXCEPT !.evidence = items]
        = [kind |-> kind, evidence |-> items, pieces |-> pieces, outcome |-> None]
    BY <1>2
  <1> QED
    BY <1>3, <1>4 DEF a, b

\* What is told of past sessions.
LEMMA ToldDoes ==
    ASSUME FoundInv, UNCHANGED library, query.pc \notin {"idle", "done"},
           NEW kind \in {"status", "range"},
           NEW pieces, pieces # {}, Told(kind, pieces),
           \A p \in pieces : FitsIntent(p, Seeks),
           \A p \in pieces : AnsweredNow(Item(p.of, p.text, p.route))
    PROVE  FoundInv' /\ Goes
  <1> DEFINE items  == {Item(p.of, p.text, p.route) : p \in pieces}
             answer == [NoAnswer EXCEPT !.kind = kind, !.pieces = pieces, !.evidence = items]
  <1>1. Answer(kind, FALSE, answer) /\ \A e \in items : AnsweredNow(e)
    BY DEF Told
  <1> HIDE DEF items
  <1>a. answer = [kind |-> kind, evidence |-> items, pieces |-> pieces, outcome |-> None]
    <2> DEFINE a == [NoAnswer EXCEPT !.kind = kind]
               b == [a EXCEPT !.pieces = pieces]
    <2>1. a = [kind |-> kind, evidence |-> {}, pieces |-> {}, outcome |-> None]
      BY DEF NoAnswer
    <2>2. answer = [b EXCEPT !.evidence = items]
      OBVIOUS
    <2> HIDE DEF a, answer
    <2>3. b = [kind |-> kind, evidence |-> {}, pieces |-> pieces, outcome |-> None]
      BY <2>1
    <2> HIDE DEF b
    <2> QED
      BY <2>2, <2>3
  <1>2. /\ answer = [kind |-> answer.kind, evidence |-> answer.evidence,
                     pieces |-> answer.pieces, outcome |-> answer.outcome]
        /\ answer.kind = kind /\ answer.pieces = pieces /\ answer.evidence = items
    <2> HIDE DEF answer
    <2> QED
      BY <1>a
  <1> HIDE DEF answer
  <1> QED
    BY <1>1, <1>2, AnswerDoes

\* The entries of past sessions are chunks of today, of the days asked for.
LEMMA RememberedAre ==
    ASSUME NEW c \in Remembered
    PROVE  /\ c = Piece(c.of, c.text, c.route, c.memory, c.lines)
           /\ c.route = "vector" /\ \E h \in Hits : c.of = h.of /\ c.text = h.text
           /\ DateMatches(c.memory, Seeks)
  <1> DEFINE piece(h) == Piece(h.of, h.text, "vector", ChunkMemory(h.of, h.text, h.k),
                               EntryLine(h.text, h.k))
             chunks   == {piece(h) : h \in Hits}
  <1>1. c \in MatchingEntries(chunks, Seeks)
    BY DEF Remembered
  <1>2. c \in chunks /\ MatchesIntent(c.memory, Seeks)
    <2> HIDE DEF chunks
    <2> QED
      BY <1>1 DEF MatchingEntries
  <1>3. PICK h \in Hits : c = piece(h)
    BY <1>2
  <1>4. /\ c = Piece(c.of, c.text, c.route, c.memory, c.lines)
        /\ c.route = "vector" /\ c.of = h.of /\ c.text = h.text
    BY <1>3 DEF Piece
  <1> QED
    BY <1>2, <1>4 DEF MatchesIntent

\* What is left of a piece fits.
LEMMA NarrowedFits ==
    ASSUME NEW p, p = Piece(p.of, p.text, p.route, p.memory, p.lines), NEW intent,
           intent.workspace # NoValue, DateMatches(p.memory, intent),
           NEW r \in Narrowed(p, intent.workspace)
    PROVE  FitsIntent(r, intent) /\ r.of = p.of /\ r.text = p.text /\ r.route = p.route
  <1> DEFINE lines == {w \in p.lines : WorkspaceMatches(w, intent.workspace)}
  <1>1. CASE p.memory.workspace = NoValue
    <2>1. r = [p EXCEPT !.lines = lines] /\ lines # {}
      BY <1>1 DEF Narrowed
    <2>2. \A w \in lines : WorkspaceMatches(w, intent.workspace)
      OBVIOUS
    <2> HIDE DEF lines
    <2>3. /\ r.of = p.of /\ r.text = p.text /\ r.route = p.route /\ r.memory = p.memory
          /\ r.lines = lines
      BY <2>1 DEF Piece
    <2> QED
      BY <1>1, <2>1, <2>2, <2>3 DEF FitsIntent
  <1>2. CASE p.memory.workspace # NoValue
    <2>1. r = p /\ WorkspaceMatches(p.memory.workspace, intent.workspace)
      BY <1>2 DEF Narrowed
    <2> QED
      BY <1>2, <2>1 DEF FitsIntent
  <1> QED
    BY <1>1, <1>2

\* What is told of a workspace is a sound find,
LEMMA TellStatusDoes ==
    ASSUME FoundInv, UNCHANGED library, TellStatus
    PROVE  FoundInv' /\ Goes
  <1> DEFINE pieces == WorkspaceStatus(Remembered, Seeks)
  <1>1. query.pc = "status"
        /\ IF pieces # {} THEN Told("status", pieces)
           ELSE GoOn(IF AsksForRange(Seeks) THEN "range" ELSE "rank")
    BY DEF TellStatus
  <1>2. ASSUME NEW p \in pieces
        PROVE  FitsIntent(p, Seeks) /\ AnsweredNow(Item(p.of, p.text, p.route))
    <2>1. /\ p \in Remembered /\ p.memory.workspace # NoValue
          /\ WorkspaceMatches(p.memory.workspace, Seeks.workspace)
      BY DEF WorkspaceStatus
    <2>2. /\ p.route = "vector" /\ \E h \in Hits : p.of = h.of /\ p.text = h.text
          /\ DateMatches(p.memory, Seeks)
      BY <2>1, RememberedAre
    <2> QED
      BY <2>1, <2>2, ItemIs DEF FitsIntent, AnsweredNow
  <1> HIDE DEF pieces
  <1>3. CASE pieces # {}
    BY <1>1, <1>2, <1>3, ToldDoes
  <1>4. CASE pieces = {}
    BY <1>1, <1>4, TurnsTo
  <1> QED
    BY <1>3, <1>4

\* and so is what is told of a range of days.
LEMMA TellRangeDoes ==
    ASSUME FoundInv, UNCHANGED library, TellRange
    PROVE  FoundInv' /\ Goes
  <1> DEFINE page(p) == Piece(p.of, p.text, "wiki", PageMemory(p.of, p.text), {})
             pages   == {page(p) : p \in query.pages}
             pieces  == RangeSummary(pages, Remembered, Seeks)
  <1>1. query.pc = "range" /\ IF pieces # {} THEN Told("range", pieces) ELSE GoOn("rank")
    BY DEF TellRange
  <1>2. ASSUME NEW p \in pages
        PROVE  /\ p = Piece(p.of, p.text, p.route, p.memory, p.lines)
               /\ p.route = "wiki" /\ \E q \in query.pages : p.of = q.of /\ p.text = q.text
               /\ DateMatches(p.memory, Seeks)
    <2>1. PICK q \in query.pages : p = page(q)
      OBVIOUS
    <2>2. /\ p = Piece(p.of, p.text, p.route, p.memory, p.lines) /\ p.route = "wiki"
          /\ p.of = q.of /\ p.text = q.text /\ p.memory = PageMemory(q.of, q.text)
      BY <2>1 DEF Piece
    <2>3. MatchesIntent(p.memory, Seeks)
      BY <2>2 DEF FoundInv
    <2> QED
      BY <2>2, <2>3 DEF MatchesIntent
  <1> HIDE DEF pages
  <1>3. ASSUME NEW p \in pages \cup Remembered
        PROVE  /\ p = Piece(p.of, p.text, p.route, p.memory, p.lines)
               /\ DateMatches(p.memory, Seeks) /\ AnsweredNow(Item(p.of, p.text, p.route))
    BY <1>2, RememberedAre, ItemIs DEF AnsweredNow
  <1>4. ASSUME NEW r \in pieces
        PROVE  FitsIntent(r, Seeks) /\ AnsweredNow(Item(r.of, r.text, r.route))
    <2>1. CASE Seeks.workspace = NoValue
      <3>1. r \in pages
        BY <2>1 DEF RangeSummary
      <3> QED
        BY <1>3, <2>1, <3>1 DEF FitsIntent
    <2>2. CASE Seeks.workspace # NoValue
      <3>1. PICK p \in pages \cup Remembered : r \in Narrowed(p, Seeks.workspace)
        BY <2>2 DEF RangeSummary
      <3>2. FitsIntent(r, Seeks) /\ r.of = p.of /\ r.text = p.text /\ r.route = p.route
        BY <1>3, <2>2, <3>1, NarrowedFits
      <3> QED
        BY <1>3, <3>2
    <2> QED
      BY <2>1, <2>2
  <1> HIDE DEF pieces
  <1>5. CASE pieces # {}
    BY <1>1, <1>4, <1>5, ToldDoes
  <1>6. CASE pieces = {}
    BY <1>1, <1>6, TurnsTo
  <1> QED
    BY <1>5, <1>6

\* The best candidate is the answer, or there is none.
LEMMA RankDoes ==
    ASSUME FoundInv, UNCHANGED library, Rank
    PROVE  FoundInv' /\ Goes
  <1>1. /\ query.pc = "rank" /\ IsList(query.cands) /\ query.cands # <<>>
        /\ \A c \in ItemsOf(query.cands) : CandFits(c) /\ c.score \in Int
    BY DEF Rank, FoundInv, Gathered, CandFits
  <1>2. PICK ranking \in Rankings \cup {None} :
           LET winner == Rerank(query.cands, ranking)[1] IN
           IF ~PassesGate(winner, Route(Asked, Rules)) THEN Answer(None, FALSE, NoAnswer)
           ELSE Answer(winner.route, Eligible(winner),
                       [NoAnswer EXCEPT !.kind = "best", !.evidence = winner.evidence])
    BY DEF Rank
  <1> DEFINE winner == Rerank(query.cands, ranking)[1]
             answer == [NoAnswer EXCEPT !.kind = "best", !.evidence = winner.evidence]
  <1>3. winner \in ItemsOf(query.cands)
    BY <1>1, BestWins
  <1>4. Answer(None, FALSE, NoAnswer) \/ Answer(winner.route, Eligible(winner), answer)
    BY <1>2
  <1> HIDE DEF winner
  <1>a. answer = [kind |-> "best", evidence |-> winner.evidence, pieces |-> {}, outcome |-> None]
    BY AnswerIs, Zenon
  <1>5. /\ answer = [kind |-> answer.kind, evidence |-> answer.evidence,
                     pieces |-> answer.pieces, outcome |-> answer.outcome]
        /\ answer.kind = "best" /\ answer.evidence = winner.evidence
    <2> HIDE DEF answer
    <2> QED
      BY <1>a
  <1> HIDE DEF answer
  <1>6. Eligible(winner) => \E e \in answer.evidence : e.route # "wiki" /\ e.text # None
    BY <1>1, <1>3, <1>5 DEF CandFits
  <1>7. \A e \in answer.evidence : AnsweredNow(e)
    BY <1>3, <1>5 DEF AnsweredNow, Gathered
  <1>8. CASE Answer(None, FALSE, NoAnswer)
    BY <1>1, <1>8, NoAnswerDoes
  <1>9. CASE Answer(winner.route, Eligible(winner), answer)
    BY <1>1, <1>5, <1>6, <1>7, <1>9, AnswerDoes
  <1> QED
    BY <1>4, <1>8, <1>9

\* A question has been asked.
Asks ==
    /\ query.pc = "idle" /\ query'.pc = "pages" /\ manifest # Lost
    /\ query'.snapshot = manifest /\ (query'.quiet <=> job.stage = "idle")
    /\ query'.pages = {} /\ query'.top = {} /\ query'.hits = <<>>
    /\ Gathered' = {} /\ query'.answer.evidence = {}

\* A step of a query ends it, begins one, or goes on with it.
LEMMA QueryStepDoes ==
    ASSUME TypeInv, EnrichInv, FoundInv, QueryStep, UNCHANGED <<indexVars, raced>>
    PROVE  FoundInv' /\ (query' = NoQuery \/ Asks \/ Goes)
  <1>1. UNCHANGED library
    BY DEF indexVars
  <1>2. CASE query' = NoQuery
    BY <1>2, Ended
  <1>3. ASSUME NEW question \in Questions, Ask(question) PROVE FoundInv' /\ Asks
    BY <1>1, <1>3, AskDoes DEF Asks
  <1>4. CASE query' # NoQuery /\ ~\E question \in Questions : Ask(question)
    <2>1. CASE ReadPages
      BY <1>1, <1>4, <2>1, ReadPagesDoes
    <2>2. CASE SearchWiki
      BY <1>1, <1>4, <2>2, SearchWikiDoes
    <2>3. CASE ReadGraph
      BY <1>1, <2>3, ReadGraphDoes
    <2>4. CASE ReadEvidence
      BY <1>1, <2>4, ReadEvidenceDoes
    <2>5. CASE SearchVectors
      BY <1>1, <2>5, SearchVectorsDoes
    <2>6. CASE Locate
      BY <1>1, <2>6, LocateDoes
    <2>7. CASE AllLocated
      BY <1>1, <2>7, AllLocatedDoes
    <2>8. CASE ReadTree
      BY <1>1, <2>8, ReadTreeDoes
    <2>9. CASE Collected
      BY <1>1, <2>9, CollectedDoes
    <2>10. CASE TellStatus
      BY <1>1, <2>10, TellStatusDoes
    <2>11. CASE TellRange
      BY <1>1, <2>11, TellRangeDoes
    <2>12. CASE Rank
      BY <1>1, <2>12, RankDoes
    <2>13. ~Finish
      BY <1>4 DEF Finish
    <2> QED
      BY <1>4, <2>1, <2>2, <2>3, <2>4, <2>5, <2>6, <2>7, <2>8, <2>9, <2>10, <2>11, <2>12,
         <2>13 DEF QueryStep
  <1> QED
    BY <1>2, <1>3, <1>4

\* What a query has found, is not changed by others.
LEMMA OthersStep ==
    ASSUME FoundInv, UNCHANGED library, UNCHANGED query \/ Disturbed
    PROVE  /\ FoundInv'
           /\ query'.pc = query.pc /\ query'.question = query.question
           /\ query'.snapshot = query.snapshot /\ query'.pages = query.pages
           /\ query'.top = query.top /\ query'.hits = query.hits /\ query'.nodes = query.nodes
           /\ query'.cands = query.cands /\ query'.answer = query.answer /\ Gathered' = Gathered
           /\ query'.quiet = query.quiet
              \/ (query'.quiet => query.quiet /\ job'.stage = "idle" /\ manifest' # Lost)
  <1>1. Shaped(query)
    BY DEF FoundInv
  <1>2. /\ Shaped(query')
        /\ query'.pc = query.pc /\ query'.question = query.question
        /\ query'.snapshot = query.snapshot /\ query'.pages = query.pages
        /\ query'.top = query.top /\ query'.hits = query.hits /\ query'.nodes = query.nodes
        /\ query'.cands = query.cands /\ query'.answer = query.answer
        /\ query'.quiet = query.quiet
           \/ (query'.quiet => query.quiet /\ job'.stage = "idle" /\ manifest' # Lost)
    BY <1>1 DEF Shaped, Disturbed
  <1>3. Gathered' = Gathered /\ Asked' = Asked /\ Seeks' = Seeks
    BY <1>2 DEF Gathered, Asked, Seeks
  <1>4. \A p \in query'.pages : MatchesIntent(PageMemory(p.of, p.text), Seeks)'
    <2>1. ASSUME NEW f, NEW c PROVE PageMemory(f, c)' = PageMemory(f, c)
      BY DEF PageMemory
    <2> QED
      BY <1>2, <1>3, <2>1 DEF FoundInv
  <1>5. TopFits => TopFits'
    <2>1. \A e : EdgeScore(e)' = EdgeScore(e)
      BY <1>3 DEF EdgeScore
    <2> QED
      BY <1>2, <2>1 DEF TopFits
  <1>6. AutoIsBacked' = AutoIsBacked /\ MemoryFits' = MemoryFits
    BY <1>2, <1>3 DEF AutoIsBacked, MemoryFits
  <1>7. FoundInv'
    BY <1>2, <1>3, <1>4, <1>5, <1>6 DEF FoundInv
  <1> QED
    BY <1>2, <1>3, <1>7

-----------------------------------------------------------------------------
(* Runs, enrichments and a query side by side *)

\* Initially nothing is enriched and nothing asked.
LEMMA QueryInitHas ==
    ASSUME QueryInit
    PROVE  TypeInv /\ LocalsInv /\ EnrichInv /\ FoundInv
  <1>1. TypeInv /\ LocalsInv /\ enrich = NoEnricher /\ query = NoQuery
        /\ \A c \in Contents : IsDocument(library[c])
    BY TypeInit DEF QueryInit
  <1>2. EnrichInv
    BY <1>1, NoEnricherIs DEF EnrichInv
  <1>3. Gathered = {}
    BY <1>1, NoQueryIs, EmptyList DEF Gathered
  <1>4. FoundInv
    BY <1>1, <1>3, NoQueryIs, EmptyList DEF FoundInv
  <1> QED
    BY <1>1, <1>2, <1>4

\* What a step of the enricher leaves as it is, and that it keeps the types.
LEMMA EnrichStep ==
    ASSUME TypeInv, LocalsInv, EnrichInv, EnrichNext
    PROVE  /\ TypeInv' /\ LocalsInv' /\ EnrichInv'
           /\ UNCHANGED <<source, again, mem, job, count, library>>
           /\ manifest' = manifest \/ (SaveRebuilt /\ manifest' = enrich.mem)
           /\ disk' = disk \/ SaveEnriched
  <1>1. CASE \E only \in Files \cup {None} : StartEnrich(only)
    <2>1. PICK only \in Files \cup {None} : StartEnrich(only)
      BY <1>1
    <2>2. /\ UNCHANGED <<vars, library>> /\ enrich' \in Enrichers
          /\ enrich'.pc \in {"rebuild", "load"}
      BY <2>1, StartEnrichDoes
    <2> QED
      BY <2>2 DEF vars, TypeInv, LocalsInv, EnrichInv
  <1>2. CASE SaveRebuilt
    <2>1. /\ manifest' = enrich.mem /\ enrich.mem \in Manifests
          /\ enrich' \in Enrichers /\ enrich'.pc = "load"
      <3>1. enrich \in Enrichers /\ Nothing \in Manifests
        BY NothingPartial DEF EnrichInv, Manifests
      <3> QED
        BY <1>2, <3>1 DEF SaveRebuilt, Enrichers
    <2>2. UNCHANGED <<source, again, disk, mem, job, count, library>>
      BY <1>2 DEF SaveRebuilt
    <2> QED
      BY <1>2, <2>1, <2>2 DEF TypeInv, LocalsInv, EnrichInv
  <1>3. CASE LoadTarget
    <2>1. /\ UNCHANGED <<vars, library>> /\ enrich' \in Enrichers
          /\ enrich' = NoEnricher
             \/ (enrich'.pc = "read" /\ enrich'.todo # <<>> /\ enrich'.tree \in Trees)
      BY <1>3, LoadTargetDoes
    <2> QED
      BY <2>1, NoEnricherIs DEF vars, TypeInv, LocalsInv, EnrichInv
  <1>4. CASE ReadRaw
    <2>1. /\ UNCHANGED <<vars, library>> /\ enrich' \in Enrichers /\ enrich.pc = "read"
          /\ \/ enrich'.pc = "load"
             \/ /\ enrich'.pc = "save" /\ enrich'.todo = enrich.todo
                /\ enrich'.tree = enrich.tree /\ enrich'.text \in Contents \cup {Gone}
      BY <1>4, ReadRawDoes
    <2> QED
      BY <2>1 DEF vars, TypeInv, LocalsInv, EnrichInv
  <1>5. CASE SaveEnriched
    <2>1. /\ UNCHANGED <<source, again, manifest, mem, job, count, library>>
          /\ enrich' \in Enrichers /\ enrich'.pc = "load"
          /\ disk' \in Layers /\ disk'.pages = disk.pages
      BY <1>5, SaveEnrichedDoes
    <2> QED
      BY <1>5, <2>1 DEF TypeInv, LocalsInv, EnrichInv
  <1>6. CASE EndEnrich
    <2>1. UNCHANGED <<vars, library>> /\ enrich' = NoEnricher
      BY <1>6 DEF EndEnrich
    <2> QED
      BY <2>1, NoEnricherIs DEF vars, TypeInv, LocalsInv, EnrichInv
  <1> QED
    BY <1>1, <1>2, <1>3, <1>4, <1>5, <1>6 DEF EnrichNext

\* The whole keeps its types, and what a query has found is sound.
SoundInv == TypeInv /\ LocalsInv /\ EnrichInv /\ FoundInv

\* No step of a query, an enricher or a run makes it unsound.
LEMMA SoundStep ==
    ASSUME SoundInv, [QueryNext]_queryVars
    PROVE  SoundInv'
  <1>1. CASE QueryStep /\ UNCHANGED <<indexVars, raced>>
    <2>1. FoundInv'
      BY <1>1, QueryStepDoes DEF SoundInv
    <2>2. UNCHANGED <<vars, library, enrich>>
      BY <1>1 DEF indexVars
    <2> QED
      BY <2>1, <2>2 DEF SoundInv, vars, TypeInv, LocalsInv, EnrichInv
  <1>2. CASE Next /\ Disturbed /\ UNCHANGED <<library, enrich>>
    <2>1. TypeInv' /\ LocalsInv'
      BY <1>2, TypeStep, LocalsStep DEF SoundInv
    <2>2. EnrichInv'
      BY <1>2 DEF SoundInv, EnrichInv
    <2>3. FoundInv'
      BY <1>2, OthersStep DEF SoundInv
    <2> QED
      BY <2>1, <2>2, <2>3 DEF SoundInv
  <1>3. CASE EnrichNext /\ UNCHANGED query
    <2>1. TypeInv' /\ LocalsInv' /\ EnrichInv' /\ UNCHANGED library
      BY <1>3, EnrichStep DEF SoundInv
    <2>2. FoundInv'
      BY <1>3, <2>1, OthersStep DEF SoundInv
    <2> QED
      BY <2>1, <2>2 DEF SoundInv
  <1>4. CASE UNCHANGED queryVars
    <2>1. UNCHANGED <<vars, library, enrich, query>>
      BY <1>4 DEF queryVars, indexVars
    <2>2. FoundInv'
      BY <2>1, OthersStep DEF SoundInv
    <2> QED
      BY <2>1, <2>2 DEF SoundInv, vars, TypeInv, LocalsInv, EnrichInv
  <1> QED
    BY <1>1, <1>2, <1>3, <1>4 DEF QueryNext

\* The candidate an answer is made of is the best of those found, whatever a model
\* answers that ranks them; what is written back unasked quotes a source; and what is
\* told of past sessions is of the days asked for, and of the workspace by what it
\* says of itself or by the entry line it is: whatever runs and enrichments do
\* meanwhile, whatever is cut short or lost.  What is not told but ranked is not bound to
\* the workspace (NothingOfOthers).
THEOREM AnswersAreFit == QuerySpec => []AnswersFit
  <1>1. QueryInit => SoundInv
    BY QueryInitHas DEF SoundInv
  <1>2. SoundInv /\ [QueryNext]_queryVars => SoundInv'
    BY SoundStep
  <1>3. SoundInv => AnswersFit
    <2> SUFFICES ASSUME SoundInv PROVE AnswersFit
      OBVIOUS
    <2>1. IsList(query.cands) /\ \A c \in ItemsOf(query.cands) : c.score \in Int
      BY DEF SoundInv, FoundInv, Gathered, CandFits
    <2>2. \A ranking \in Rankings \cup {None} : WinnerIsBest(query.cands, ranking)
      BY <2>1, BestWins
    <2> QED
      BY <2>2 DEF SoundInv, FoundInv, AnswersFit
  <1> QED
    BY <1>1, <1>2, <1>3, PTL DEF QuerySpec

-----------------------------------------------------------------------------
(* Summaries are those of the raw copies *)

\* Only a few steps of a run write trees or raw copies, or take a backup of them.
LEMMA TreesAndRaw ==
    ASSUME TypeInv, LocalsInv, [Next]_vars
    PROVE  \/ /\ disk'.trees = disk.trees /\ disk'.raw = disk.raw
              /\ job'.stage \in Transaction => job.stage \in Transaction /\ job'.before = job.before
           \/ Parse /\ disk' = disk /\ job'.before = disk /\ job'.stage = "tree"
           \/ SaveTree \/ (CopyRaw /\ job'.stage = "page") \/ Untree \/ Unraw
           \/ /\ job.stage \in Transaction /\ Rollback
              /\ Fail \/ CopyRaw \/ (RebuildIndex /\ ~Indexable)
  <1> USE DEF Transaction
  <1>0. EndRun => job'.stage \notin Transaction
    BY Ending, IdleIs
  <1>1. CASE \E prune \in BOOLEAN : Start(prune)
    BY <1>1, StartDoes
  <1>2. CASE Examine
    BY <1>0, <1>2, ExamineDoes
  <1>3. CASE Parse
    BY <1>0, <1>3, ParseDoes DEF Moved
  <1>4. CASE SaveTree
    BY <1>4
  <1>5. CASE CopyRaw
    BY <1>5, CopyRawDoes
  <1>6. CASE WritePage
    BY <1>6, WritePageDoes
  <1>7. CASE RebuildIndex
    BY <1>7, RebuildIndexDoes DEF LocalsKept
  <1>8. CASE ReplaceGraph
    BY <1>8, ReplaceGraphDoes DEF LocalsKept
  <1>9. CASE UpsertVectors
    BY <1>9, UpsertVectorsDoes DEF LocalsKept
  <1>10. CASE Commit
    BY <1>10, CommitDoes
  <1>11. CASE Sweep
    BY <1>11, SweepDoes DEF Moved
  <1>12. CASE Unlink
    BY <1>12, UnlinkDoes
  <1>13. CASE Reindex
    BY <1>0, <1>13, ReindexDoes
  <1>14. CASE Detach
    BY <1>14, DetachDoes
  <1>15. CASE Unembed
    BY <1>15, UnembedDoes
  <1>16. CASE Forget
    BY <1>16, ForgetDoes DEF Moved
  <1>17. CASE AllFilesDone
    BY <1>0, <1>17, AllFilesDoneDoes
  <1>18. CASE Prune
    BY <1>18, PruneDoes
  <1>19. CASE Pruned
    BY <1>0, <1>19, PrunedDoes
  <1>20. CASE Fail
    BY <1>20, FailDoes
  <1>21. ASSUME NEW f \in Files, NEW c \in Contents \cup {Gone}, Edit(f, c)
         PROVE  disk' = disk /\ job' = job
    BY <1>21, EditDoes
  <1>22. CASE CutShort
    BY <1>0, <1>22, CutShortDoes
  <1>23. CASE LoseManifest
    BY <1>23, LoseManifestDoes
  <1>24. CASE UNCHANGED vars
    BY <1>24 DEF vars
  <1> QED
    BY <1>1, <1>2, <1>3, <1>4, <1>5, <1>6, <1>7, <1>8, <1>9, <1>10, <1>11, <1>12, <1>13, <1>14,
       <1>15, <1>16, <1>17, <1>18, <1>19, <1>20, <1>21, <1>22, <1>23, <1>24
       DEF Next, Ingest, DeleteArtifacts

\* The summaries of the trees are of the raw copies that there are.
FromIn(d) ==
    \A s \in DOMAIN d.trees : d.trees[s].by # "rule" =>
        d.trees[s].of \in DOMAIN d.raw /\ d.trees[s].from = d.raw[d.trees[s].of]

FromInv == FromIn(disk) /\ (job.stage \in Transaction => FromIn(job.before))

\* In layers that agree a tree is found under the name of its source.
LEMMA TreeOfAgreed ==
    ASSUME NEW m \in Manifests, NEW d, NEW R, Agreed(R, m, d), StemsApart, NEW s \in DOMAIN d.trees
    PROVE  d.trees[s].of \in DOMAIN m /\ s = StemOf[d.trees[s].of]
  <1>1. PICK g \in DOMAIN m : s = StemOf[g]
    BY DEF Agreed, StemsOf
  <1>2. d.trees[StemOf[g]].of = g
    BY DEF Agreed, AllBacked, BackedIn
  <1> QED
    BY <1>1, <1>2

\* A run keeps the summaries and the raw copies together.
LEMMA FromStep ==
    ASSUME TypeInv, LocalsInv, MemInv, BeforeInv, AgreeInv, FromInv, StemsApart,
           [Next]_vars, Undisturbed'
    PROVE  FromInv'
  <1>0. Undisturbed /\ ~CutShort /\ ~LoseManifest /\ ~(Fail /\ job.stage = "index")
    BY NotDisturbed
  <1>1. CASE /\ disk'.trees = disk.trees /\ disk'.raw = disk.raw
             /\ job'.stage \in Transaction => job.stage \in Transaction /\ job'.before = job.before
    BY <1>1 DEF FromInv, FromIn
  <1>2. CASE disk' = disk /\ job'.before = disk
    BY <1>2 DEF FromInv, FromIn
  <1>3. CASE SaveTree
    <2>1. /\ disk'.trees = Put(disk.trees, StemOf[job.file], Tree(job.file, job.sha, job.text))
          /\ disk'.raw = disk.raw /\ job'.before = job.before /\ job.stage \in Transaction
      BY <1>3, SaveTreeDoes DEF LocalsKept, Transaction
    <2>2. Tree(job.file, job.sha, job.text).by = "rule"
      BY DEF Tree
    <2> QED
      BY <2>1, <2>2 DEF FromInv, FromIn, Put
  <1>4. CASE CopyRaw /\ job'.stage = "page"
    <2>1. /\ job.stage = "copy" /\ job.stage \in Transaction /\ job'.before = job.before
          /\ disk'.raw = Put(disk.raw, job.file, source[job.file]) /\ disk'.trees = disk.trees
      BY <1>4, CopyRawDoes, Ending, IdleIs DEF LocalsKept, Transaction, Rollback
    <2>2. /\ disk.trees = Put(job.before.trees, StemOf[job.file],
                              Tree(job.file, job.sha, job.text))
          /\ Agreed(again, mem, job.before) /\ mem \in Manifests
      BY <1>0, <2>1, PreviousIs DEF BeforeInv, AgreeInv, PastTree, TypeInv
    <2>3. Tree(job.file, job.sha, job.text).by = "rule"
      BY DEF Tree
    <2>4. ASSUME NEW s \in DOMAIN disk.trees, disk.trees[s].by # "rule"
          PROVE  disk.trees[s].of # job.file
      <3>1. s # StemOf[job.file]
        BY <2>2, <2>3, <2>4 DEF Put
      <3>2. s \in DOMAIN job.before.trees /\ disk.trees[s] = job.before.trees[s]
        BY <2>2, <2>4, <3>1 DEF Put
      <3> QED
        BY <2>2, <3>1, <3>2, TreeOfAgreed
    <2>5. FromIn(disk)'
      BY <2>1, <2>4 DEF FromInv, FromIn, Put
    <2> QED
      BY <2>1, <2>5 DEF FromInv, FromIn
  <1>5. CASE Untree
    <2>1. /\ disk'.trees = disk.trees \/ disk'.trees = Drop(disk.trees, {StemOf[job.file]})
          /\ disk'.raw = disk.raw /\ job'.stage \notin Transaction
      BY <1>5, UntreeDoes DEF Transaction
    <2> QED
      BY <2>1 DEF FromInv, FromIn, Drop
  <1>6. CASE Unraw
    <2>1. /\ job.stage = "unraw" /\ disk'.trees = disk.trees
          /\ disk'.raw = Drop(disk.raw, {job.file}) /\ job'.stage \notin Transaction
      BY <1>6, UnrawDoes DEF Transaction
    <2>2. RemovalInv
      BY <1>0, <2>1 DEF AgreeInv, Removal
    <2>3. ASSUME NEW s \in DOMAIN disk.trees PROVE disk.trees[s].of # job.file
      <3>1. PICK g \in DOMAIN Rest : s = StemOf[g]
        BY <2>1, <2>2, <2>3 DEF RemovalInv, Until, StemsOf
      <3>2. disk.trees[StemOf[g]].of = g
        BY <2>2 DEF RemovalInv, AllBacked, BackedIn
      <3> QED
        BY <3>1, <3>2 DEF Rest, Drop
    <2> QED
      BY <2>1, <2>3 DEF FromInv, FromIn, Drop
  <1>7. CASE /\ job.stage \in Transaction /\ Rollback
             /\ Fail \/ CopyRaw \/ (RebuildIndex /\ ~Indexable)
    <2>1. /\ Agreed(again, mem, job.before) /\ mem \in Manifests
          /\ job.sha \notin again => job.sha \notin DOMAIN job.before.vectors
      BY <1>0, <1>7, PreviousIs DEF AgreeInv, TypeInv
    <2>2. job.stage # "index"
      <3>1. job.stage = "index" => Indexable
        BY <2>1, TransactionIndexable
      <3> QED
        BY <1>0, <1>7, <3>1 DEF CopyRaw, RebuildIndex
    <2>3. /\ disk'.trees = job.before.trees /\ disk'.raw = job.before.raw
          /\ job'.stage \notin Transaction
      BY <1>7, <2>1, <2>2, RestoredIsBefore, Ending, IdleIs DEF Rollback, Transaction
    <2> QED
      BY <1>7, <2>3 DEF FromInv, FromIn
  <1> QED
    BY <1>1, <1>2, <1>3, <1>4, <1>5, <1>6, <1>7, TreesAndRaw

-----------------------------------------------------------------------------
(* Runs that no enrichment meets *)

\* Only these steps of a run write the manifest.
LEMMA ManifestSteps ==
    ASSUME TypeInv, LocalsInv, [Next]_vars
    PROVE  \/ manifest' = manifest
           \/ (\E prune \in BOOLEAN : Start(prune)) /\ manifest' = Resumed
           \/ Commit \/ Forget \/ Pruned \/ LoseManifest
  <1>1. CASE \E prune \in BOOLEAN : Start(prune)
    BY <1>1, StartDoes
  <1>2. CASE Ingest
    BY <1>2, ExamineDoes, ParseDoes, SaveTreeDoes, CopyRawDoes, WritePageDoes, RebuildIndexDoes,
       ReplaceGraphDoes, UpsertVectorsDoes, SweepDoes DEF Ingest
  <1>3. CASE DeleteArtifacts
    BY <1>3, UnlinkDoes, ReindexDoes, DetachDoes, UnembedDoes, UntreeDoes, UnrawDoes DEF DeleteArtifacts
  <1>4. CASE AllFilesDone \/ Prune
    BY <1>4, AllFilesDoneDoes, PruneDoes
  <1>5. CASE Fail \/ CutShort
    <2>1. CASE Fail
      BY <2>1, FailDoes DEF Rollback
    <2> QED
      BY <1>5, <2>1, CutShortDoes
  <1>6. CASE \E f \in Files, c \in Contents \cup {Gone} : Edit(f, c)
    BY <1>6, EditDoes
  <1> QED
    BY <1>1, <1>2, <1>3, <1>4, <1>5, <1>6 DEF Next, vars

\* What was not lost, is not.
LEMMA NotLost ==
    ASSUME TypeInv, LocalsInv, [Next]_vars, count'.losses = 0
    PROVE  /\ count.losses = 0 /\ ~LoseManifest
           /\ manifest # Lost => manifest' # Lost
  <1>1. ~LoseManifest
    BY LoseManifestDoes
  <1>2. count.losses = 0
    <2>1. CASE CutShort \/ Fail
      BY <2>1, FailDoes DEF CutShort, TypeInv, Counts
    <2> QED
      BY <1>1, <2>1, CountsKept
  <1>3. ASSUME manifest # Lost PROVE manifest' # Lost
    <2>1. CASE Commit \/ Forget
      BY <2>1, CommitDoes, ForgetDoes, ManifestIsNotLost
    <2>2. CASE Pruned
      BY <2>2, PrunedDoes, ManifestIsNotLost DEF TypeInv
    <2>3. Resumed # Lost
      BY ResumedIs, ManifestIsNotLost
    <2> QED
      BY <1>1, <1>3, <2>1, <2>2, <2>3, ManifestSteps
  <1> QED
    BY <1>1, <1>2, <1>3

\* As long as they have not met, a run or the enricher is idle.
RacedInv == ~raced => enrich.pc = "idle" \/ job.stage = "idle"

\* Where they have not met, a step is of one of them, while the other is idle.
LEMMA NotRaced ==
    ASSUME RacedInv, [QueryNext]_queryVars, ~raced'
    PROVE  /\ ~raced /\ RacedInv'
           /\ \/ UNCHANGED indexVars
              \/ /\ Next /\ Disturbed /\ UNCHANGED <<library, enrich>>
                 /\ enrich.pc = "idle" \/ (job.stage = "idle" /\ job'.stage = "idle")
              \/ EnrichNext /\ UNCHANGED query /\ job.stage = "idle" /\ job' = job
  <1>1. CASE UNCHANGED <<indexVars, raced>>
    BY <1>1 DEF RacedInv, indexVars, vars
  <1>2. CASE /\ Next /\ Disturbed /\ UNCHANGED <<library, enrich>>
             /\ raced' = (raced \/ (enrich.pc # "idle" /\ job'.stage # "idle"))
    BY <1>2 DEF RacedInv
  <1>3. CASE /\ EnrichNext /\ UNCHANGED query
             /\ raced' = (raced \/ (enrich'.pc # "idle" /\ job.stage # "idle"))
    <2>1. job' = job
      BY <1>3 DEF EnrichNext, StartEnrich, SaveRebuilt, LoadTarget, ReadRaw, SaveEnriched, EndEnrich,
                  vars
    <2>2. enrich.pc # "idle" \/ \E only \in Files \cup {None} : StartEnrich(only)
      BY <1>3 DEF EnrichNext, SaveRebuilt, LoadTarget, ReadRaw, SaveEnriched, EndEnrich
    <2>3. (\E only \in Files \cup {None} : StartEnrich(only)) => enrich'.pc # "idle"
      BY DEF StartEnrich, NoEnricher
    <2> QED
      BY <1>3, <2>1, <2>2, <2>3 DEF RacedInv
  <1> QED
    BY <1>1, <1>2, <1>3 DEF QueryNext, queryVars

\* What holds while no manifest is lost.
KnownInv ==
    count.losses = 0 =>
        /\ manifest # Lost /\ enrich.pc # "rebuild"
        /\ ClaimsInv /\ MemInv
        /\ ~raced => BeforeInv

\* The enricher makes no manifest then.
LEMMA NotRebuilt ==
    ASSUME SoundInv, manifest # Lost, enrich.pc # "rebuild", EnrichNext
    PROVE  manifest' = manifest /\ enrich'.pc # "rebuild"
  <1>1. manifest' = manifest
    BY EnrichStep DEF SoundInv, SaveRebuilt
  <1>2. CASE \E only \in Files \cup {None} : StartEnrich(only)
    BY <1>1, <1>2, StartEnrichDoes DEF SoundInv
  <1>3. CASE LoadTarget
    BY <1>1, <1>3, LoadTargetDoes, NoEnricherIs DEF SoundInv
  <1>4. CASE ReadRaw
    BY <1>1, <1>4, ReadRawDoes DEF SoundInv
  <1>5. CASE SaveEnriched
    BY <1>1, <1>5, SaveEnrichedDoes DEF SoundInv
  <1>6. CASE EndEnrich
    BY <1>1, <1>6, NoEnricherIs DEF EndEnrich
  <1> QED
    BY <1>2, <1>3, <1>4, <1>5, <1>6 DEF EnrichNext, SaveRebuilt

\* What is known of a run is known whatever the enricher does,
LEMMA KnownStep ==
    ASSUME SoundInv, RacedInv, KnownInv, [QueryNext]_queryVars
    PROVE  KnownInv'
  <1> SUFFICES ASSUME count'.losses = 0 PROVE KnownInv'
    BY DEF KnownInv
  <1>1. CASE UNCHANGED indexVars
    <2>1. UNCHANGED <<vars, enrich>> /\ count.losses = 0
      BY <1>1 DEF indexVars, vars
    <2>2. manifest # Lost /\ enrich.pc # "rebuild" /\ ClaimsInv /\ MemInv
      BY <2>1 DEF KnownInv
    <2>3. ClaimsInv' /\ MemInv'
      BY <2>1, <2>2, ClaimsStep, MemStep DEF SoundInv
    <2>4. ASSUME ~raced' PROVE BeforeInv'
      <3>1. BeforeInv
        BY <2>1, <2>4, NotRaced DEF KnownInv
      <3> QED
        BY <2>1, <3>1, BeforeStep DEF SoundInv
    <2> QED
      BY <2>1, <2>2, <2>3, <2>4 DEF KnownInv, vars
  <1>2. CASE Next /\ UNCHANGED enrich
    <2>1. count.losses = 0 /\ (manifest # Lost => manifest' # Lost)
      BY <1>2, NotLost DEF SoundInv
    <2>2. manifest # Lost /\ enrich.pc # "rebuild" /\ ClaimsInv /\ MemInv
      BY <2>1 DEF KnownInv
    <2>3. ClaimsInv' /\ MemInv'
      BY <1>2, <2>2, ClaimsStep, MemStep DEF SoundInv
    <2>4. ASSUME ~raced' PROVE BeforeInv'
      <3>1. BeforeInv
        BY <2>1, <2>4, NotRaced DEF KnownInv
      <3> QED
        BY <1>2, <3>1, BeforeStep DEF SoundInv
    <2> QED
      BY <1>2, <2>1, <2>2, <2>3, <2>4 DEF KnownInv
  <1>3. CASE EnrichNext
    <2>1. UNCHANGED <<source, again, mem, job, count>> /\ (disk' = disk \/ SaveEnriched)
      BY <1>3, EnrichStep DEF SoundInv
    <2>2. manifest # Lost /\ enrich.pc # "rebuild" /\ ClaimsInv /\ MemInv
      BY <2>1 DEF KnownInv
    <2>3. manifest' = manifest /\ enrich'.pc # "rebuild"
      BY <1>3, <2>2, NotRebuilt
    <2>4. disk'.raw = disk.raw
      BY <2>1, SaveEnrichedDoes DEF SoundInv
    <2>5. ClaimsInv'
      <3>1. \A f, c : Owns(f, c)' <=> Owns(f, c)
        BY <2>1, <2>3, <2>4 DEF Owns
      <3> QED
        BY <2>1, <2>2, <3>1 DEF ClaimsInv
    <2>6. MemInv'
      BY <2>1, <2>2, <2>3 DEF MemInv
    <2>7. ASSUME ~raced' PROVE BeforeInv'
      <3>1. BeforeInv /\ (job.stage = "idle" \/ UNCHANGED indexVars \/ Next)
        BY <2>1, <2>7, NotRaced DEF KnownInv
      <3>2. CASE job.stage = "idle"
        BY <2>1, <3>2 DEF BeforeInv, Transaction
      <3>3. CASE UNCHANGED indexVars \/ Next
        BY <3>1, <3>3, BeforeStep DEF SoundInv, indexVars
      <3> QED
        BY <3>1, <3>2, <3>3
    <2> QED
      BY <2>1, <2>2, <2>3, <2>5, <2>6, <2>7 DEF KnownInv
  <1> QED
    BY <1>1, <1>2, <1>3 DEF QueryNext, queryVars

\* The enricher has read the tree that is there, and the raw copy of its source.
EnrichHas ==
    enrich.pc \in {"read", "save"} =>
        LET f == Head(enrich.todo) IN
        /\ StemOf[f] \in DOMAIN disk.trees
        /\ LET tree == disk.trees[StemOf[f]] IN
           enrich.tree.of = tree.of /\ enrich.tree.sha = tree.sha /\ enrich.tree.text = tree.text
        /\ enrich.pc = "save" => f \in DOMAIN disk.raw /\ enrich.text = disk.raw[f]

CalmInv == Undisturbed /\ ~raced => AgreeInv /\ FromInv /\ EnrichHas


\* Between runs only the sources change, and the manifest if it is lost.
LEMMA StaysIdle ==
    ASSUME TypeInv, LocalsInv, [Next]_vars, job.stage = "idle", job'.stage = "idle"
    PROVE  disk' = disk /\ (manifest' = manifest \/ LoseManifest)
  <1>1. ~\E prune \in BOOLEAN : Start(prune)
    BY StartDoes
  <1>2. ~Ingest
    BY ExamineDoes, ParseDoes, SaveTreeDoes, CopyRawDoes, WritePageDoes, RebuildIndexDoes,
       ReplaceGraphDoes, UpsertVectorsDoes, CommitDoes, SweepDoes DEF Ingest
  <1>3. ~DeleteArtifacts
    BY UnlinkDoes, ReindexDoes, DetachDoes, UnembedDoes, UntreeDoes, UnrawDoes, ForgetDoes
       DEF DeleteArtifacts
  <1>4. ~AllFilesDone /\ ~Prune /\ ~Pruned /\ ~CutShort /\ ~Fail
    BY AllFilesDoneDoes, PruneDoes, PrunedDoes, CutShortDoes, FailDoes DEF Transaction
  <1>5. CASE \E f \in Files, c \in Contents \cup {Gone} : Edit(f, c)
    BY <1>5, EditDoes
  <1> QED
    BY <1>1, <1>2, <1>3, <1>4, <1>5, LoseManifestDoes DEF Next, vars

\* What the enricher has read is what is there, as long as no run comes in between.
LEMMA EnrichHasStep ==
    ASSUME SoundInv, RacedInv, EnrichHas, StemsApart, job.stage = "idle",
           manifest \in Manifests, Agreed(again, manifest, disk), EnrichNext
    PROVE  EnrichHas'
  <1>1. CASE \E only \in Files \cup {None} : StartEnrich(only)
    BY <1>1 DEF StartEnrich, NoEnricher, EnrichHas
  <1>2. CASE SaveRebuilt
    <2>1. enrich'.pc = "load"
      BY <1>2 DEF SaveRebuilt, SoundInv, EnrichInv, Enrichers
    <2> QED
      BY <2>1 DEF EnrichHas
  <1>3. CASE LoadTarget
    <2>1. UNCHANGED disk
      BY <1>3 DEF LoadTarget, vars
    <2> QED
      BY <1>3, <2>1, LoadTargetDoes, NoEnricherIs DEF SoundInv, EnrichHas
  <1>4. CASE ReadRaw
    <2>1. UNCHANGED disk /\ enrich.pc = "read" /\ enrich.todo \in Seq(Files) /\ enrich.todo # <<>>
      BY <1>4 DEF ReadRaw, vars, SoundInv, EnrichInv, Enrichers
    <2> DEFINE f == Head(enrich.todo)
    <2>2. f \in Files /\ StemOf[f] \in DOMAIN disk.trees
      BY <2>1 DEF EnrichHas
    <2>3. f \in DOMAIN disk.raw
      <3>1. disk.trees[StemOf[f]].of \in DOMAIN manifest
            /\ StemOf[f] = StemOf[disk.trees[StemOf[f]].of]
        BY <2>2, TreeOfAgreed
      <3>2. f \in DOMAIN manifest
        BY <2>2, <3>1, EntryOf DEF StemsApart
      <3> QED
        BY <3>2 DEF Agreed
    <2> HIDE DEF f
    <2>4. \/ enrich'.pc = "load"
          \/ /\ enrich'.todo = enrich.todo /\ enrich'.tree = enrich.tree
             /\ enrich'.text = IF f \in DOMAIN disk.raw THEN disk.raw[f] ELSE Gone
      BY <1>4, ReadRawDoes DEF SoundInv, f
    <2> QED
      BY <2>1, <2>3, <2>4 DEF EnrichHas, f
  <1>5. CASE SaveEnriched
    <2>1. enrich'.pc = "load"
      BY <1>5, SaveEnrichedDoes DEF SoundInv
    <2> QED
      BY <2>1 DEF EnrichHas
  <1>6. CASE EndEnrich
    BY <1>6, NoEnricherIs DEF EndEnrich, EnrichHas
  <1> QED
    BY <1>1, <1>2, <1>3, <1>4, <1>5, <1>6 DEF EnrichNext

\* What is saved is of the same source and text, with the summary of its raw copy.
LEMMA SavedAgrees ==
    ASSUME SoundInv, EnrichHas, FromIn(disk), StemsApart,
           manifest \in Manifests, Agreed(again, manifest, disk), SaveEnriched
    PROVE  Agreed(again, manifest, disk') /\ FromIn(disk')
  <1>1. CASE UNCHANGED disk
    BY <1>1
  <1>2. CASE disk' # disk
    <2> DEFINE f == Head(enrich.todo)
    <2>1. /\ disk'.raw = disk.raw /\ disk'.pages = disk.pages /\ disk'.index = disk.index
          /\ disk'.graph = disk.graph /\ disk'.vectors = disk.vectors /\ enrich.pc = "save"
      BY <1>2, SaveEnrichedDoes DEF SoundInv
    <2>2. PICK tree \in Trees :
             /\ tree.of = enrich.tree.of /\ tree.sha = enrich.tree.sha
             /\ tree.text = enrich.tree.text /\ tree.from = enrich.text
             /\ f \in Files
             /\ disk'.trees = Put(disk.trees, StemOf[f], tree)
      BY <1>2, SaveEnrichedDoes DEF SoundInv
    <2>3. /\ StemOf[f] \in DOMAIN disk.trees
          /\ tree.of = disk.trees[StemOf[f]].of /\ tree.sha = disk.trees[StemOf[f]].sha
          /\ tree.text = disk.trees[StemOf[f]].text
          /\ f \in DOMAIN disk.raw /\ tree.from = disk.raw[f]
      BY <2>1, <2>2 DEF EnrichHas
    <2>4. tree.of = f
      <3>1. tree.of \in DOMAIN manifest /\ StemOf[f] = StemOf[tree.of]
        BY <2>3, TreeOfAgreed
      <3> QED
        BY <2>2, <3>1, EntryOf DEF StemsApart
    <2> HIDE DEF f
    <2>5. /\ DOMAIN disk'.trees = DOMAIN disk.trees
          /\ disk'.trees[StemOf[f]] = tree
          /\ \A s \in DOMAIN disk.trees : s # StemOf[f] => disk'.trees[s] = disk.trees[s]
      BY <2>2, <2>3 DEF Put
    <2>6. ASSUME NEW g \in DOMAIN manifest, NEW text, BackedIn(again, disk, g, manifest[g], text)
          PROVE  BackedIn(again, disk', g, manifest[g], text)
      BY <2>1, <2>3, <2>5, <2>6 DEF BackedIn
    <2>7. Agreed(again, manifest, disk')
      BY <2>1, <2>5, <2>6 DEF Agreed, AllBacked, OwnedBy
    <2>8. FromIn(disk')
      BY <2>1, <2>3, <2>4, <2>5 DEF FromIn
    <2> QED
      BY <2>7, <2>8
  <1> QED
    BY <1>1, <1>2

\* As long as no enrichment meets a run and none is cut short, the layers agree, and
\* summaries are of the raw copies.
LEMMA CalmStep ==
    ASSUME SoundInv, RacedInv, KnownInv, CalmInv, StemsApart, [QueryNext]_queryVars
    PROVE  CalmInv'
  <1> SUFFICES ASSUME Undisturbed', ~raced' PROVE AgreeInv' /\ FromInv' /\ EnrichHas'
    BY DEF CalmInv
  <1>1. ~raced
    BY NotRaced
  <1>2. CASE UNCHANGED indexVars
    <2>1. UNCHANGED <<vars, enrich>> /\ Undisturbed
      BY <1>2 DEF indexVars, vars, Undisturbed
    <2>2. AgreeInv /\ FromInv /\ EnrichHas
      BY <1>1, <2>1 DEF CalmInv
    <2>3. EnrichHas' /\ FromInv'
      BY <2>1, <2>2 DEF EnrichHas, FromInv, FromIn, vars
    <2>4. AgreeInv'
      <3>1. ClaimsInv /\ MemInv /\ BeforeInv
        BY <1>1, <2>1 DEF KnownInv, Undisturbed
      <3> QED
        BY <2>1, <2>2, <3>1, AgreeStep DEF SoundInv
    <2> QED
      BY <2>3, <2>4
  <1>3. CASE /\ Next /\ Disturbed /\ UNCHANGED <<library, enrich>>
             /\ enrich.pc = "idle" \/ (job.stage = "idle" /\ job'.stage = "idle")
    <2>1. Undisturbed /\ ~LoseManifest
      BY <1>3, NotDisturbed DEF SoundInv
    <2>2. AgreeInv /\ FromInv /\ EnrichHas
      BY <1>1, <2>1 DEF CalmInv
    <2>3. ClaimsInv /\ MemInv /\ BeforeInv
      BY <1>1, <2>1 DEF KnownInv, Undisturbed
    <2>4. AgreeInv' /\ FromInv'
      BY <1>3, <2>2, <2>3, AgreeStep, FromStep DEF SoundInv
    <2>5. CASE enrich.pc = "idle"
      BY <1>3, <2>4, <2>5 DEF EnrichHas
    <2>6. CASE job.stage = "idle" /\ job'.stage = "idle"
      <3>1. disk' = disk
        BY <1>3, <2>6, StaysIdle DEF SoundInv
      <3> QED
        BY <1>3, <2>2, <2>4, <3>1 DEF EnrichHas
    <2> QED
      BY <1>3, <2>5, <2>6
  <1>4. CASE EnrichNext /\ UNCHANGED query /\ job.stage = "idle" /\ job' = job
    <2>1. /\ UNCHANGED <<count, again>> /\ Undisturbed /\ (disk' = disk \/ SaveEnriched)
          /\ manifest # Lost /\ enrich.pc # "rebuild"
      BY <1>4, EnrichStep DEF SoundInv, KnownInv, Undisturbed
    <2>2. AgreeInv /\ FromInv /\ EnrichHas
      BY <1>1, <2>1 DEF CalmInv
    <2>3. manifest' = manifest /\ manifest \in Manifests /\ Agreed(again, manifest, disk)
      BY <1>4, <2>1, <2>2, NotRebuilt DEF AgreeInv, SoundInv, TypeInv
    <2>4. Agreed(again, manifest, disk') /\ FromIn(disk')
      BY <2>1, <2>2, <2>3, SavedAgrees DEF FromInv
    <2>5. AgreeInv'
      BY <1>4, <2>1, <2>3, <2>4 DEF AgreeInv, Transaction, Removal
    <2>6. FromInv'
      BY <1>4, <2>4 DEF FromInv, FromIn, Transaction
    <2>7. EnrichHas'
      BY <1>4, <2>2, <2>3, EnrichHasStep
    <2> QED
      BY <2>5, <2>6, <2>7
  <1> QED
    BY <1>2, <1>3, <1>4, NotRaced

-----------------------------------------------------------------------------
(* What is said while no run is under way *)

\* Of a source of the manifest, what the layers have: the graph, and with it the others,
\* or for the summaries of a tree the raw copy.  Of contents that came again nothing is
\* said.
Fresh(e) ==
    /\ e.of \in DOMAIN manifest
    /\ IF e.route = "page_tree" THEN e.text = disk.raw[e.of]
       ELSE manifest[e.of].sha \notin again => e.text = disk.graph[e.of]

\* What is found and said while no run is under way.
FreshInv ==
    query.quiet /\ query.pc # "idle" =>
        /\ job.stage = "idle"
        /\ Undisturbed /\ ~raced =>
              /\ query.pages \subseteq Pages /\ query.top \subseteq Edges
              /\ ItemsOf(query.hits) \subseteq Hits
              /\ \A c \in Gathered : \A e \in c.evidence : Fresh(e)
              /\ \A e \in query.answer.evidence : Fresh(e)

\* Where the layers agree, all of them say the same of a source.
LEMMA AgreedSay ==
    ASSUME TypeInv, manifest \in Manifests, Agreed(again, manifest, disk)
    PROVE  /\ \A p \in Pages : p.of \in DOMAIN manifest /\ p.text = disk.graph[p.of]
           /\ \A h \in Hits : /\ h.of \in DOMAIN manifest
                              /\ manifest[h.of].sha \notin again => h.text = disk.graph[h.of]
           /\ DOMAIN disk.graph = DOMAIN manifest
           /\ \A f \in DOMAIN manifest :
                 manifest[f].sha \notin again => Backed(f, manifest[f], disk.graph[f])
  <1>1. ASSUME NEW f \in DOMAIN manifest
        PROVE  /\ disk.pages[manifest[f].page] = Artifact(f, disk.graph[f])
               /\ manifest[f].sha \notin again =>
                     /\ disk.vectors[manifest[f].sha] = Artifact(f, disk.graph[f])
                     /\ Backed(f, manifest[f], disk.graph[f])
    <2>1. PICK text \in Textual : BackedIn(again, disk, f, manifest[f], text)
      BY <1>1 DEF Agreed, AllBacked
    <2> QED
      BY <2>1 DEF BackedIn, Backed, BackedButVectors
  <1>2. ASSUME NEW p \in Pages PROVE p.of \in DOMAIN manifest /\ p.text = disk.graph[p.of]
    <2>1. PICK f \in DOMAIN manifest : p = disk.pages[manifest[f].page]
      BY DEF Pages, Agreed, PagesOf
    <2>2. p = Artifact(f, disk.graph[f])
      BY <1>1, <2>1
    <2> QED
      BY <2>2 DEF Artifact
  <1>3. ASSUME NEW h \in Hits
        PROVE  h.of \in DOMAIN manifest /\ (manifest[h.of].sha \notin again => h.text = disk.graph[h.of])
    <2>1. /\ h.sha \in DOMAIN disk.vectors
          /\ h.of = disk.vectors[h.sha].of /\ h.text = disk.vectors[h.sha].text
      BY HitsAre
    <2>2. h.of \in DOMAIN manifest /\ manifest[h.of].sha = h.sha
      BY <2>1 DEF Agreed, OwnedBy
    <2>3. h.sha \notin again => disk.vectors[h.sha] = Artifact(h.of, disk.graph[h.of])
      BY <1>1, <2>2
    <2> QED
      BY <2>1, <2>2, <2>3 DEF Artifact
  <1> QED
    BY <1>1, <1>2, <1>3 DEF Agreed

\* An edge is of a source that the graph has.
LEMMA EdgeOf ==
    ASSUME NEW t \in Edges
    PROVE  t.of \in DOMAIN disk.graph
  BY DEF Edges

\* What a candidate may quote then is what the layers have.
LEMMA QuotedIsFresh ==
    ASSUME TypeInv, manifest \in Manifests, Agreed(again, manifest, disk), FromIn(disk), StemsApart,
           query.top \subseteq Edges, ItemsOf(query.hits) \subseteq Hits, NEW e, QuotedNow(e)
    PROVE  Fresh(e)
  <1>1. CASE e.route = "wiki" /\ \E p \in Pages : e.of = p.of /\ e.text = p.text
    BY <1>1, AgreedSay DEF Fresh
  <1>2. CASE /\ e.route = "graph"
             /\ \E t \in query.top : e.of = t.of /\ (t \in Edges => e.text = disk.graph[t.of])
    <2>1. PICK t \in query.top : e.of = t.of /\ (t \in Edges => e.text = disk.graph[t.of])
      BY <1>2
    <2>2. t \in Edges /\ t.of \in DOMAIN disk.graph
      BY EdgeOf
    <2> QED
      BY <1>2, <2>1, <2>2, AgreedSay DEF Fresh
  <1>3. CASE e.route = "vector" /\ \E h \in ItemsOf(query.hits) : e.of = h.of /\ e.text = h.text
    BY <1>3, AgreedSay DEF Fresh
  <1>4. CASE /\ e.route = "page_tree"
             /\ \E s \in DOMAIN disk.trees : /\ disk.trees[s].by # "rule"
                                             /\ e.of = disk.trees[s].of
                                             /\ e.text = disk.trees[s].from
    <2>1. PICK s \in DOMAIN disk.trees : /\ disk.trees[s].by # "rule"
                                         /\ e.of = disk.trees[s].of
                                         /\ e.text = disk.trees[s].from
      BY <1>4
    <2>2. e.of \in DOMAIN manifest /\ e.text = disk.raw[e.of]
      BY <2>1, TreeOfAgreed DEF FromIn
    <2> QED
      BY <1>4, <2>2 DEF Fresh
  <1> QED
    BY <1>1, <1>2, <1>3, <1>4 DEF QuotedNow

\* Everything found while no run is under way is fresh, and stays so.
LEMMA FreshStep ==
    ASSUME SoundInv, RacedInv, KnownInv, CalmInv, FreshInv, StemsApart, [QueryNext]_queryVars
    PROVE  FreshInv'
  <1> SUFFICES ASSUME query'.quiet, query'.pc # "idle" PROVE FreshInv'
    BY DEF FreshInv
  <1>1. CASE QueryStep /\ UNCHANGED <<indexVars, raced>>
    <2>1. query' = NoQuery \/ Asks \/ Goes
      BY <1>1, QueryStepDoes DEF SoundInv
    <2>2. query' # NoQuery
      BY NoQueryIs
    <2>3. UNCHANGED <<again, disk, manifest, job, count>> /\ Pages' = Pages /\ Edges' = Edges
          /\ Hits' = Hits /\ \A e : Fresh(e)' <=> Fresh(e)
      <3>1. UNCHANGED <<again, disk, manifest, job, count, library>>
        BY <1>1 DEF indexVars, vars
      <3> QED
        BY <3>1 DEF Pages, Edges, Hits, Fresh
    <2>4. CASE Asks
      BY <2>3, <2>4, EmptyList DEF Asks, FreshInv
    <2>5. CASE Goes
      <3>1. query.quiet /\ query.pc # "idle" /\ job'.stage = "idle" /\ job.stage = "idle"
        BY <2>3, <2>5 DEF Goes, FreshInv
      <3>2. SUFFICES ASSUME Undisturbed, ~raced
                     PROVE  /\ query'.pages \subseteq Pages /\ query'.top \subseteq Edges
                            /\ ItemsOf(query'.hits) \subseteq Hits
                            /\ \A c \in Gathered' : \A e \in c.evidence : Fresh(e)
                            /\ \A e \in query'.answer.evidence : Fresh(e)
        BY <1>1, <2>3, <3>1 DEF FreshInv, Undisturbed
      <3>3. /\ query.pages \subseteq Pages /\ query.top \subseteq Edges
            /\ ItemsOf(query.hits) \subseteq Hits
            /\ \A c \in Gathered : \A e \in c.evidence : Fresh(e)
            /\ \A e \in query.answer.evidence : Fresh(e)
        BY <3>1, <3>2 DEF FreshInv
      <3>4. /\ TypeInv /\ manifest \in Manifests /\ Agreed(again, manifest, disk) /\ FromIn(disk)
        BY <3>1, <3>2 DEF CalmInv, AgreeInv, FromInv, SoundInv, TypeInv
      <3>5. \A e : QuotedNow(e) => Fresh(e)
        BY <3>3, <3>4, QuotedIsFresh
      <3>6. \A e : AnsweredNow(e) => Fresh(e)
        <4>1. ASSUME NEW e, e.route = "vector" \/ e.route = "wiki",
                     \E x \in Hits \cup Pages : e.of = x.of /\ e.text = x.text
              PROVE  Fresh(e)
          BY <3>4, <4>1, AgreedSay DEF Fresh
        <4> QED
          BY <3>3, <4>1 DEF AnsweredNow
      <3>7. \A c \in Gathered' : \A e \in c.evidence : Fresh(e)
        BY <2>5, <3>3, <3>5 DEF Goes
      <3>8. \A e \in query'.answer.evidence : Fresh(e)
        BY <2>5, <3>3, <3>6 DEF Goes
      <3> QED
        BY <2>5, <3>3, <3>7, <3>8 DEF Goes
    <2> QED
      BY <2>1, <2>2, <2>4, <2>5
  <1>2. ASSUME UNCHANGED library, UNCHANGED query \/ Disturbed
        PROVE  /\ query'.pages = query.pages /\ query'.top = query.top /\ query'.hits = query.hits
               /\ Gathered' = Gathered /\ query'.answer = query.answer /\ query.pc # "idle"
               /\ query.quiet /\ job.stage = "idle"
               /\ query'.quiet = query.quiet \/ job'.stage = "idle"
    BY <1>2, OthersStep DEF SoundInv, FreshInv
  <1>3. ASSUME disk'.graph = disk.graph, disk'.raw = disk.raw, disk'.pages = disk.pages,
               disk'.vectors = disk.vectors, manifest' = manifest, UNCHANGED library,
               again \subseteq again'
        PROVE  /\ Pages' = Pages /\ Edges' = Edges /\ Hits' = Hits
               /\ \A e : Fresh(e) => Fresh(e)'
    BY <1>3 DEF Pages, Edges, Hits, Fresh
  <1>4. CASE Next /\ Disturbed /\ UNCHANGED <<library, enrich>>
    <2>1. job'.stage = "idle" /\ query.quiet
      <3>1. Shaped(query)
        BY DEF SoundInv, FoundInv
      <3> QED
        BY <1>4, <3>1 DEF Disturbed, Shaped
    <2>2. SUFFICES ASSUME Undisturbed', ~raced' PROVE FreshInv'
      BY <2>1 DEF FreshInv
    <2>3. Undisturbed /\ ~LoseManifest /\ ~raced
      BY <1>4, <2>2, NotDisturbed, NotRaced DEF SoundInv
    <2>4. disk' = disk /\ manifest' = manifest /\ again \subseteq again'
      BY <1>2, <1>4, <2>1, <2>3, StaysIdle, AgainGrows DEF SoundInv
    <2> QED
      BY <1>2, <1>3, <1>4, <2>1, <2>3, <2>4 DEF FreshInv
  <1>5. CASE EnrichNext /\ UNCHANGED query
    <2>1. UNCHANGED <<again, job, count, library>> /\ (disk' = disk \/ SaveEnriched)
      BY <1>5, EnrichStep DEF SoundInv
    <2>2. SUFFICES ASSUME Undisturbed, ~raced' PROVE FreshInv'
      BY <1>2, <1>5, <2>1 DEF FreshInv, Undisturbed
    <2>3. ~raced
      BY <2>2, NotRaced
    <2>4. manifest' = manifest
      BY <1>5, <2>2, NotRebuilt DEF KnownInv, Undisturbed
    <2>5. disk'.graph = disk.graph /\ disk'.raw = disk.raw /\ disk'.pages = disk.pages
          /\ disk'.vectors = disk.vectors
      BY <2>1, SaveEnrichedDoes DEF SoundInv
    <2> QED
      BY <1>2, <1>3, <1>5, <2>1, <2>2, <2>3, <2>4, <2>5 DEF FreshInv, Undisturbed
  <1>6. CASE UNCHANGED queryVars
    <2>1. UNCHANGED <<again, disk, manifest, job, count, library, query, raced>>
      BY <1>6 DEF queryVars, indexVars, vars
    <2> QED
      BY <1>2, <1>3, <2>1 DEF FreshInv, Undisturbed
  <1> QED
    BY <1>1, <1>4, <1>5, <1>6 DEF QueryNext

\* An answer given while no run was under way, quotes sources of the manifest with the
\* text that all layers have, or the raw copy if it is a summary: if no run was cut short,
\* no manifest lost and no enrichment met a run, whatever steps of a transaction raised and
\* whatever was edited; of contents that came again only that the source is an entry.
THEOREM AnswersAreFresh ==
    ASSUME StemsApart
    PROVE  QuerySpec => []FreshWhenQuiet
  <1> DEFINE Inv == SoundInv /\ RacedInv /\ KnownInv /\ CalmInv /\ FreshInv
  <1>1. QueryInit => Inv
    <2> SUFFICES ASSUME QueryInit PROVE Inv
      OBVIOUS
    <2>1. Init /\ enrich = NoEnricher /\ query = NoQuery
      BY DEF QueryInit
    <2>2. SoundInv
      BY QueryInitHas DEF SoundInv
    <2>3. RacedInv
      BY <2>1, NoEnricherIs DEF RacedInv
    <2>4. KnownInv
      <3>1. manifest # Lost
        BY <2>1, ManifestIsNotLost, NothingPartial DEF Init, Manifests
      <3> QED
        BY <2>1, <3>1, ClaimsInit, MemInit, BeforeInit, NoEnricherIs DEF KnownInv
    <2>5. CalmInv
      <3>1. FromInv
        BY <2>1, IdleIs, NothingPartial DEF Init, FromInv, FromIn, EmptyDisk, Transaction
      <3> QED
        BY <2>1, <3>1, AgreeInit, NoEnricherIs DEF CalmInv, EnrichHas
    <2>6. FreshInv
      BY <2>1, NoQueryIs DEF FreshInv
    <2> QED
      BY <2>2, <2>3, <2>4, <2>5, <2>6
  <1>2. Inv /\ [QueryNext]_queryVars => Inv'
    <2> SUFFICES ASSUME Inv, [QueryNext]_queryVars PROVE Inv'
      OBVIOUS
    <2>1. SoundInv'
      BY SoundStep
    <2>2. RacedInv'
      BY NotRaced DEF RacedInv
    <2>3. KnownInv'
      BY KnownStep
    <2>4. CalmInv'
      BY CalmStep
    <2>5. FreshInv'
      BY FreshStep
    <2> QED
      BY <2>1, <2>2, <2>3, <2>4, <2>5
  <1>3. Inv => FreshWhenQuiet
    <2> SUFFICES ASSUME Inv, query.pc = "done", query.quiet, Undisturbed, ~raced,
                        NEW e \in query.answer.evidence
                 PROVE  /\ e.of \in DOMAIN manifest
                        /\ IF e.route = "page_tree" THEN e.text = disk.raw[e.of]
                           ELSE manifest[e.of].sha \notin again =>
                                   Backed(e.of, manifest[e.of], e.text)
      BY DEF FreshWhenQuiet
    <2>1. Fresh(e) /\ job.stage = "idle"
      BY DEF FreshInv
    <2>2. TypeInv /\ manifest \in Manifests /\ Agreed(again, manifest, disk)
      BY <2>1 DEF CalmInv, AgreeInv, SoundInv, TypeInv
    <2>3. \A f \in DOMAIN manifest :
             manifest[f].sha \notin again => Backed(f, manifest[f], disk.graph[f])
      BY <2>2, AgreedSay
    <2> QED
      BY <2>1, <2>3 DEF Fresh
  <1> QED
    BY <1>1, <1>2, <1>3, PTL DEF QuerySpec

-----------------------------------------------------------------------------
(* The text of a content that the manifest names *)

\* Faults, runs cut short and losses are counted.
LEMMA CountsGrow ==
    ASSUME TypeInv, LocalsInv, [Next]_vars
    PROVE  /\ count'.faults = 0 => count.faults = 0 /\ ~Fail
           /\ count'.cuts = 0 => count.cuts = 0 /\ ~CutShort
           /\ count'.losses = 0 => count.losses = 0 /\ ~LoseManifest
  <1>0. /\ count.faults \in Nat /\ count.cuts \in Nat /\ count.losses \in Nat
        /\ count = [edits |-> count.edits, faults |-> count.faults, cuts |-> count.cuts,
                    losses |-> count.losses]
    BY DEF TypeInv, Counts
  <1>1. CASE \E prune \in BOOLEAN : Start(prune)
    BY <1>0, <1>1, StartDoes, FailDoes, CutShortDoes, LoseManifestDoes DEF Transaction
  <1>2. CASE UNCHANGED count /\ ~Fail /\ ~CutShort /\ ~LoseManifest
    BY <1>2
  <1>3. CASE Fail \/ CutShort \/ LoseManifest
    <2>1. CASE Fail
      <3>1. PICK cuts : count' = [count EXCEPT !.faults = @ + 1, !.cuts = cuts]
        BY <2>1 DEF Fail
      <3>2. count'.faults > 0 /\ count'.losses = count.losses
            /\ count'.cuts \in {count.cuts, count.cuts + 1}
        BY <1>0, <2>1, <3>1, FailDoes
      <3> QED
        BY <1>0, <2>1, <3>2, FailDoes, CutShortDoes, LoseManifestDoes DEF Transaction
    <2>2. CASE CutShort
      <3>1. count'.cuts > 0 /\ count'.faults = count.faults /\ count'.losses = count.losses
        BY <1>0, <2>2, CutShortDoes DEF CutShort
      <3>2. job.stage # "idle"
        BY <2>2, CutShortDoes
      <3>3. count'.faults = 0 => ~Fail
        <4> SUFFICES ASSUME Fail PROVE count'.faults > 0
          BY <1>0, <3>1
        <4> QED
          BY <1>0 DEF Fail
      <3> QED
        BY <1>0, <3>1, <3>2, <3>3, LoseManifestDoes
    <2>3. CASE LoseManifest
      <3>1. /\ count'.losses > 0 /\ count'.faults = count.faults /\ count'.cuts = count.cuts
            /\ job.stage = "idle"
        BY <1>0, <2>3 DEF LoseManifest
      <3> QED
        BY <1>0, <3>1, FailDoes, CutShortDoes DEF Transaction
    <2> QED
      BY <1>3, <2>1, <2>2, <2>3
  <1>4. CASE Ingest \/ DeleteArtifacts
    <2>1. UNCHANGED count
      BY <1>4, ExamineDoes, ParseDoes, SaveTreeDoes, CopyRawDoes, WritePageDoes,
         RebuildIndexDoes, ReplaceGraphDoes, UpsertVectorsDoes, CommitDoes, SweepDoes,
         UnlinkDoes, ReindexDoes, DetachDoes, UnembedDoes, UntreeDoes, UnrawDoes,
         ForgetDoes DEF Ingest, DeleteArtifacts
    <2> QED
      BY <1>2, <1>3, <2>1
  <1>5. CASE AllFilesDone \/ Prune \/ Pruned
    <2>1. UNCHANGED count
      BY <1>5, AllFilesDoneDoes, PruneDoes, PrunedDoes
    <2> QED
      BY <1>2, <1>3, <2>1
  <1>6. CASE \E f \in Files, c \in Contents \cup {Gone} : Edit(f, c)
    <2>1. count'.faults = count.faults /\ count'.cuts = count.cuts
          /\ count'.losses = count.losses
      BY <1>0, <1>6 DEF Edit
    <2> QED
      BY <1>3, <2>1
  <1>7. CASE UNCHANGED vars
    BY <1>2, <1>3, <1>7 DEF vars
  <1> QED
    BY <1>1, <1>3, <1>4, <1>5, <1>6, <1>7 DEF Next

\* A tree is found under the name of its source.
StemmedIn(d) == \A s \in DOMAIN d.trees : s = StemOf[d.trees[s].of]

StemmedInv ==
    /\ StemmedIn(disk) /\ (job.stage \in Transaction => StemmedIn(job.before))
    /\ enrich.pc \in {"read", "save"} => StemOf[enrich.tree.of] = StemOf[Head(enrich.todo)]

\* What a rollback makes of the trees.
LEMMA RestoredTrees ==
    ASSUME TypeInv, LocalsInv, job.stage \in Transaction, Rollback
    PROVE  /\ \A s \in DOMAIN disk'.trees :
                 \/ s \in DOMAIN disk.trees /\ disk'.trees[s] = disk.trees[s]
                 \/ s \in DOMAIN job.before.trees /\ disk'.trees[s] = job.before.trees[s]
           /\ job'.stage = "idle"
  <1>1. disk' = Restored /\ job'.stage = "idle"
    BY RollbackDoes, Ending, IdleIs
  <1>2. CASE disk'.trees = disk.trees
    BY <1>1, <1>2
  <1>3. CASE /\ StemOf[job.file] \in DOMAIN job.before.trees
             /\ disk'.trees = Put(disk.trees, StemOf[job.file], job.before.trees[StemOf[job.file]])
    BY <1>1, <1>3 DEF Put
  <1>4. CASE disk'.trees = Drop(disk.trees, {StemOf[job.file]})
    BY <1>1, <1>4 DEF Drop
  <1>5. disk'.trees = IF job.stage = "tree" THEN disk.trees
                      ELSE IF HasEntry(job.existing) /\ StemOf[job.file] \in DOMAIN job.before.trees
                           THEN Put(disk.trees, StemOf[job.file], job.before.trees[StemOf[job.file]])
                           ELSE Drop(disk.trees, {StemOf[job.file]})
    BY <1>1, RestoredIs
  <1> QED
    BY <1>2, <1>3, <1>4, <1>5

\* Runs keep the trees under their names,
LEMMA StemmedStep ==
    ASSUME TypeInv, LocalsInv, StemmedInv, [Next]_vars, UNCHANGED enrich
    PROVE  StemmedInv'
  <1>1. CASE /\ disk'.trees = disk.trees
             /\ job'.stage \in Transaction => job.stage \in Transaction /\ job'.before = job.before
    BY <1>1 DEF StemmedInv, StemmedIn
  <1>2. CASE disk' = disk /\ job'.before = disk
    BY <1>2 DEF StemmedInv, StemmedIn
  <1>3. CASE SaveTree
    <2>1. /\ disk'.trees = Put(disk.trees, StemOf[job.file], Tree(job.file, job.sha, job.text))
          /\ job'.before = job.before /\ job.stage \in Transaction
      BY <1>3, SaveTreeDoes DEF LocalsKept, Transaction
    <2>2. Tree(job.file, job.sha, job.text).of = job.file
      BY DEF Tree
    <2>3. StemmedIn(disk)'
      BY <2>1, <2>2 DEF StemmedInv, StemmedIn, Put
    <2> QED
      BY <2>1, <2>3 DEF StemmedInv, StemmedIn
  <1>4. CASE CopyRaw /\ job'.stage = "page"
    <2>1. /\ job.stage \in Transaction /\ job'.before = job.before /\ disk'.trees = disk.trees
      BY <1>4, CopyRawDoes, Ending, IdleIs DEF LocalsKept, Transaction, Rollback
    <2> QED
      BY <2>1 DEF StemmedInv, StemmedIn
  <1>5. CASE Untree \/ Unraw
    <2>1. /\ disk'.trees = disk.trees \/ disk'.trees = Drop(disk.trees, {StemOf[job.file]})
          /\ job'.stage \notin Transaction
      BY <1>5, UntreeDoes, UnrawDoes DEF Transaction
    <2> QED
      BY <2>1 DEF StemmedInv, StemmedIn, Drop
  <1>6. CASE job.stage \in Transaction /\ Rollback
    <2>1. job'.stage \notin Transaction
      BY <1>6, RestoredTrees DEF Transaction
    <2> QED
      BY <1>6, <2>1, RestoredTrees DEF StemmedInv, StemmedIn
  <1> QED
    BY <1>1, <1>2, <1>3, <1>4, <1>5, <1>6, TreesAndRaw

\* and so does the enricher.
LEMMA StemmedEnriched ==
    ASSUME SoundInv, StemmedInv, EnrichNext
    PROVE  StemmedInv'
  <1>0. UNCHANGED job /\ (disk' = disk \/ SaveEnriched)
    BY EnrichStep DEF SoundInv
  <1>1. CASE enrich'.pc \notin {"read", "save"} /\ disk' = disk
    BY <1>0, <1>1 DEF StemmedInv, StemmedIn
  <1>2. CASE LoadTarget
    BY <1>0, <1>1, <1>2, LoadTargetDoes, NoEnricherIs DEF SoundInv, StemmedInv, StemmedIn, LoadTarget, vars
  <1>3. CASE ReadRaw
    <2>1. /\ UNCHANGED disk /\ enrich.pc = "read"
          /\ enrich'.pc = "load" \/ (enrich'.tree = enrich.tree /\ enrich'.todo = enrich.todo)
      BY <1>3, ReadRawDoes DEF SoundInv, vars
    <2> QED
      BY <1>0, <2>1 DEF StemmedInv, StemmedIn
  <1>4. CASE SaveEnriched
    <2>1. /\ enrich.pc = "save" /\ enrich'.pc = "load"
          /\ \/ UNCHANGED disk
             \/ \E tree \in Trees : /\ tree.of = enrich.tree.of
                                    /\ disk'.trees = Put(disk.trees, StemOf[Head(enrich.todo)], tree)
      BY <1>4, SaveEnrichedDoes DEF SoundInv
    <2>2. ASSUME UNCHANGED disk PROVE StemmedIn(disk)'
      BY <2>2 DEF StemmedInv, StemmedIn
    <2>3. ASSUME NEW tree \in Trees, tree.of = enrich.tree.of,
                 disk'.trees = Put(disk.trees, StemOf[Head(enrich.todo)], tree)
          PROVE  StemmedIn(disk)'
      <3>1. /\ StemOf[tree.of] = StemOf[Head(enrich.todo)]
            /\ \A s \in DOMAIN disk.trees : s = StemOf[disk.trees[s].of]
        BY <2>1, <2>3 DEF StemmedInv, StemmedIn
      <3> QED
        BY <2>3, <3>1 DEF StemmedIn, Put
    <2> QED
      BY <1>0, <2>1, <2>2, <2>3 DEF StemmedInv
  <1>5. CASE (\E only \in Files \cup {None} : StartEnrich(only)) \/ SaveRebuilt \/ EndEnrich
    <2>1. enrich'.pc \notin {"read", "save"} /\ disk' = disk
      BY <1>5, NoEnricherIs
         DEF StartEnrich, SaveRebuilt, EndEnrich, vars, NoEnricher, SoundInv, EnrichInv, Enrichers
    <2> QED
      BY <1>1, <2>1
  <1> QED
    BY <1>2, <1>3, <1>4, <1>5 DEF EnrichNext

\* Where no run is cut short no page is torn.
WholeIn(d) == \A s \in DOMAIN d.pages : d.pages[s] # Torn
WholeInv   == WholeIn(disk) /\ (job.stage \in Transaction => WholeIn(job.before))

\* Only a run that is cut short tears a page.
LEMMA WholeStep ==
    ASSUME TypeInv, LocalsInv, WholeInv, [Next]_vars, ~CutShort
    PROVE  WholeInv'
  <1> USE DEF Transaction
  <1>0. EndRun => job'.stage \notin Transaction
    BY Ending, IdleIs
  <1>a. CASE /\ disk'.pages = disk.pages
             /\ job'.stage \in Transaction => job.stage \in Transaction /\ job'.before = job.before
    BY <1>a DEF WholeInv, WholeIn
  <1>b. ASSUME job.stage \in Transaction, Rollback PROVE WholeInv'
    <2>1. disk' = Restored /\ job'.stage \notin Transaction
      BY <1>0, <1>b, RollbackDoes
    <2>2. \/ Restored.pages = disk.pages
          \/ /\ job.slug \in DOMAIN job.before.pages
             /\ Restored.pages = Put(disk.pages, job.slug, job.before.pages[job.slug])
          \/ Restored.pages = Drop(disk.pages, {job.slug})
      BY <1>b, RestoredIs
    <2>3. WholeIn(Restored)
      BY <1>b, <2>2 DEF WholeInv, WholeIn, Put, Drop
    <2> QED
      BY <2>1, <2>3 DEF WholeInv, WholeIn
  <1>1. CASE \E prune \in BOOLEAN : Start(prune)
    BY <1>a, <1>1, StartDoes
  <1>2. CASE Examine
    BY <1>0, <1>a, <1>2, ExamineDoes
  <1>3. CASE Parse
    <2>1. disk' = disk /\ (job'.stage \in Transaction => job'.before = disk)
      BY <1>0, <1>3, ParseDoes DEF Moved
    <2> QED
      BY <2>1 DEF WholeInv, WholeIn
  <1>4. CASE SaveTree
    BY <1>a, <1>4, SaveTreeDoes DEF LocalsKept
  <1>5. CASE CopyRaw
    BY <1>a, <1>b, <1>5, CopyRawDoes DEF LocalsKept
  <1>6. CASE WritePage
    <2>1. /\ disk'.pages = Put(disk.pages, PageSlug, Artifact(job.file, job.text))
          /\ job.stage \in Transaction /\ job'.before = job.before
          /\ job.file \in Files /\ job.text \in Contents
      BY <1>6, WritePageDoes, TextualIsContent DEF LocalsInv
    <2>2. Artifact(job.file, job.text) # Torn
      BY <2>1, ArtifactType
    <2>3. WholeIn(disk)'
      BY <2>1, <2>2 DEF WholeInv, WholeIn, Put
    <2> QED
      BY <2>1, <2>3 DEF WholeInv, WholeIn
  <1>7. CASE RebuildIndex
    BY <1>a, <1>b, <1>7, RebuildIndexDoes DEF LocalsKept
  <1>8. CASE ReplaceGraph
    BY <1>a, <1>8, ReplaceGraphDoes DEF LocalsKept
  <1>9. CASE UpsertVectors
    BY <1>a, <1>9, UpsertVectorsDoes DEF LocalsKept
  <1>10. CASE Commit
    BY <1>a, <1>10, CommitDoes
  <1>11. CASE Sweep
    <2>1. disk'.pages = Drop(disk.pages, StalePages) /\ job'.stage \notin Transaction
      BY <1>11, SweepDoes DEF Moved
    <2> QED
      BY <2>1 DEF WholeInv, WholeIn, Drop
  <1>12. CASE Unlink
    <2>1. disk'.pages = Drop(disk.pages, {job.existing.page}) /\ job'.stage \notin Transaction
      BY <1>12, UnlinkDoes
    <2> QED
      BY <2>1 DEF WholeInv, WholeIn, Drop
  <1>13. CASE Reindex
    BY <1>0, <1>a, <1>13, ReindexDoes
  <1>14. CASE Detach \/ Unembed \/ Untree \/ Unraw
    BY <1>a, <1>14, DetachDoes, UnembedDoes, UntreeDoes, UnrawDoes
  <1>15. CASE Forget
    BY <1>a, <1>15, ForgetDoes DEF Moved
  <1>16. CASE AllFilesDone \/ Prune \/ Pruned
    BY <1>0, <1>a, <1>16, AllFilesDoneDoes, PruneDoes, PrunedDoes
  <1>17. CASE Fail
    BY <1>b, <1>17, FailDoes
  <1>18. CASE \E f \in Files, c \in Contents \cup {Gone} : Edit(f, c)
    BY <1>a, <1>18, EditDoes
  <1>19. CASE LoseManifest
    BY <1>a, <1>19, LoseManifestDoes
  <1>20. CASE UNCHANGED vars
    BY <1>a, <1>20 DEF vars
  <1> QED
    BY <1>1, <1>2, <1>3, <1>4, <1>5, <1>6, <1>7, <1>8, <1>9, <1>10, <1>11, <1>12, <1>13, <1>14,
       <1>15, <1>16, <1>17, <1>18, <1>19, <1>20 DEF Next, Ingest, DeleteArtifacts

\* The stages at which a source is worked on with its hash.
AtWork == {"parse"} \cup Transaction

\* Every entry has artifacts, and if its source is unchanged, its vectors, unless the
\* content came again.
EntriesFit ==
    /\ \A f \in DOMAIN manifest : Derived(manifest[f])
    /\ \A f \in DOMAIN manifest :
          manifest[f].sha = source[f] /\ manifest[f].sha \notin again =>
             manifest[f].sha \in DOMAIN disk.vectors

\* What a run works on or removes has changed, since its entry was made.
WorkFits ==
    (job.stage \in AtWork \cup Removal \cup {"forget"} /\ job.existing # None
     /\ job.existing.sha \notin again) =>
        /\ source[job.file] # job.existing.sha
        /\ job.stage \in AtWork => job.sha # job.existing.sha

\* The vectors of a source are written before its entry.
VectorsDone ==
    job.stage \in PastVector =>
        /\ job.sha \in DOMAIN disk.vectors
        /\ disk.vectors[job.sha] = Artifact(job.file, job.text)

\* What a run has not come across, is not there; and only this is pruned.
PrunedFits ==
    /\ job.stage \notin {"idle", "fix"} =>
          \A f \in DOMAIN manifest \ job.listed :
              manifest[f].sha \notin again => manifest[f].sha # source[f]
    /\ job.stage \in {"prune"} \cup Removal => (DOMAIN manifest \ DOMAIN mem) \cap job.listed = {}

WorkInv == EntriesFit /\ WorkFits /\ VectorsDone /\ PrunedFits

\* What the entries and the source in work name, is of no other source, unless
\* it came again.
LEMMA NamesApart ==
    ASSUME TypeInv, ClaimsInv, manifest # Lost, NEW f \in DOMAIN manifest
    PROVE  /\ f \in Files /\ manifest[f] \in Entries /\ manifest[f].sha \in Contents
           /\ manifest[f].sha \notin again /\ job.file \in Files /\ job.sha = manifest[f].sha
                 => job.file = f
           /\ manifest[f].sha \notin again /\ job.file \in Files /\ job.existing # None /\ job.existing.sha = manifest[f].sha
                 => job.file = f
  <1>1. f \in Files /\ manifest[f] \in Entries /\ manifest[f].sha \in Contents
    BY EntryOf, EntryHas DEF TypeInv
  <1>2. Owns(f, manifest[f].sha)
    BY DEF Owns
  <1>3. /\ job.file \in Files /\ job.sha = manifest[f].sha => Owns(job.file, manifest[f].sha)
        /\ job.file \in Files /\ job.existing # None /\ job.existing.sha = manifest[f].sha
              => Owns(job.file, manifest[f].sha)
    BY DEF Owns
  <1> QED
    BY <1>1, <1>2, <1>3 DEF ClaimsInv

\* Every step of a run keeps this, as long as no manifest is lost.
LEMMA WorkStep ==
    ASSUME TypeInv, LocalsInv, ClaimsInv, MemInv, WorkInv, manifest # Lost, [Next]_vars,
           ~LoseManifest
    PROVE  WorkInv'
  <1> USE DEF AtWork, Transaction, Removal, PastVector
  <1>0. /\ EntriesFit /\ WorkFits /\ VectorsDone /\ PrunedFits
        /\ manifest \in Manifests /\ mem \in Manifests
    BY DEF WorkInv, TypeInv
  <1>a. ASSUME EndRun, EntriesFit' PROVE WorkInv'
    BY <1>a, Ending, IdleIs DEF WorkInv, WorkFits, VectorsDone, PrunedFits
  <1>b. ASSUME manifest' = manifest, UNCHANGED <<source, again>>,
               DOMAIN disk.vectors \subseteq DOMAIN disk'.vectors
        PROVE  EntriesFit'
    BY <1>0, <1>b DEF EntriesFit
  <1>c. ASSUME EntriesFit', job'.stage = "pick", job'.listed = job.listed, UNCHANGED <<source, again>>,
               job.stage \notin {"idle", "fix"},
               \A f \in DOMAIN manifest' : f \in DOMAIN manifest /\ manifest'[f] = manifest[f]
        PROVE  WorkInv'
    BY <1>0, <1>c DEF WorkInv, WorkFits, VectorsDone, PrunedFits
  \* Within a transaction or a removal.
  <1>d. ASSUME LocalsKept \/ (job'.file = job.file /\ job'.sha = job.sha /\ job'.text = job.text
                              /\ job'.existing = job.existing /\ job'.listed = job.listed),
               UNCHANGED <<source, again, manifest, mem>>, EntriesFit', VectorsDone',
               \/ job.stage \in AtWork /\ job'.stage \in Transaction
               \/ job.stage \in Removal /\ job'.stage \in Removal \cup {"forget", "prune"}
        PROVE  WorkInv'
    <2>1. job'.file = job.file /\ job'.sha = job.sha /\ job'.existing = job.existing
          /\ job'.listed = job.listed
      BY <1>d DEF LocalsKept
    <2> QED
      BY <1>0, <1>d, <2>1 DEF WorkInv, WorkFits, PrunedFits
  <1>e. ASSUME Rollback, job.stage \in Transaction PROVE WorkInv'
    <2>1. /\ EndRun /\ UNCHANGED <<source, again, manifest>>
          /\ disk'.vectors = IF job.stage = "commit" THEN Drop(disk.vectors, {job.sha})
                             ELSE disk.vectors
      BY <1>e, RollbackDoes, RestoredIs
    <2>2. ASSUME NEW f \in DOMAIN manifest, manifest[f].sha \notin again
          PROVE  manifest[f].sha # job.sha
      <3>1. job.file \in Files /\ mem = manifest
            /\ job.existing = IF job.file \in DOMAIN mem THEN mem[job.file] ELSE None
        BY <1>e DEF LocalsInv, MemInv
      <3>2. manifest[f].sha = job.sha => job.file = f
        BY <2>2, <3>1, NamesApart
      <3>3. manifest[f] # None
        BY NamesApart, EntryHas
      <3> QED
        BY <1>0, <1>e, <2>2, <3>1, <3>2, <3>3 DEF WorkFits
    <2>3. EntriesFit'
      BY <1>0, <2>1, <2>2 DEF EntriesFit, Drop
    <2> QED
      BY <1>a, <2>1, <2>3
  <1>1. ASSUME NEW prune \in BOOLEAN, Start(prune) PROVE WorkInv'
    <2>1. /\ manifest' = manifest /\ UNCHANGED <<source, again, disk>> /\ job'.stage = "pick"
          /\ job'.listed = {f \in Files : source[f] # Gone}
      BY <1>1, StartDoes DEF Resumed
    <2>2. EntriesFit'
      BY <1>b, <2>1
    <2>3. ASSUME NEW f \in DOMAIN manifest \ job'.listed PROVE manifest[f].sha # source[f]
      BY <2>1, <2>3, NamesApart, IngestAssumption
    <2> QED
      BY <2>1, <2>2, <2>3 DEF WorkInv, WorkFits, VectorsDone, PrunedFits
  <1>2. CASE Examine
    <2>1. job.stage = "pick" /\ UNCHANGED <<source, again, disk, manifest>> /\ mem = manifest
      BY <1>2, ExamineDoes DEF MemInv
    <2>2. EntriesFit'
      BY <1>b, <2>1
    <2>3. CASE job'.stage = "pick" /\ job'.listed = job.listed
      BY <1>c, <2>1, <2>2, <2>3
    <2>4. ASSUME NEW f \in job.todo, ~(f \in DOMAIN mem /\ CanSkip(mem[f], source[f])),
                 job'.stage = "parse", job'.listed = job.listed, job'.file = f,
                 job'.sha = source[f],
                 job'.existing = IF f \in DOMAIN mem THEN mem[f] ELSE None
          PROVE  WorkInv'
      <3>1. f \in DOMAIN mem /\ mem[f].sha \notin again => source[f] # mem[f].sha
        BY <1>0, <2>1, <2>4 DEF CanSkip, EntriesFit
      <3>2. WorkFits'
        BY <2>1, <2>4, <3>1 DEF WorkFits
      <3> QED
        BY <1>0, <2>1, <2>2, <2>4, <3>2 DEF WorkInv, VectorsDone, PrunedFits
    <2>5. CASE EndRun
      BY <1>a, <2>2, <2>5
    <2> QED
      BY <1>2, <2>3, <2>4, <2>5, ExamineDoes
  <1>3. CASE Parse
    <2>1. job.stage = "parse" /\ UNCHANGED <<source, again, disk, manifest>> /\ mem = manifest
      BY <1>3, ParseDoes DEF MemInv
    <2>2. EntriesFit'
      BY <1>b, <2>1
    <2>3. CASE EndRun
      BY <1>a, <2>2, <2>3
    <2>4. CASE Moved /\ UNCHANGED mem
      BY <1>c, <2>1, <2>2, <2>4 DEF Moved
    <2>5. CASE job'.stage = "unlink" /\ LocalsKept /\ UNCHANGED mem
      <3>1. job'.file = job.file /\ job'.existing = job.existing /\ job'.listed = job.listed
        BY <2>5 DEF LocalsKept
      <3> QED
        BY <1>0, <2>1, <2>2, <2>5, <3>1 DEF WorkInv, WorkFits, VectorsDone, PrunedFits
    <2>6. CASE /\ job'.stage = "tree" /\ job'.listed = job.listed /\ job'.file = job.file
               /\ job'.sha = job.sha /\ job'.existing = job.existing
      BY <1>0, <2>1, <2>2, <2>6 DEF WorkInv, WorkFits, VectorsDone, PrunedFits
    <2> QED
      BY <1>3, <2>3, <2>4, <2>5, <2>6, ParseDoes
  <1>4. CASE SaveTree
    <2>1. /\ job.stage = "tree" /\ job'.stage = "copy" /\ LocalsKept
          /\ UNCHANGED <<source, again, manifest, mem>> /\ disk'.vectors = disk.vectors
      BY <1>4, SaveTreeDoes
    <2>2. EntriesFit' /\ VectorsDone'
      BY <1>b, <2>1 DEF VectorsDone
    <2> QED
      BY <1>d, <2>1, <2>2
  <1>5. CASE CopyRaw
    <2>1. CASE job'.stage = "page" /\ LocalsKept /\ disk'.vectors = disk.vectors /\ UNCHANGED mem
      <3>1. job.stage = "copy" /\ UNCHANGED <<source, again, manifest>>
        BY <1>5, CopyRawDoes
      <3>2. EntriesFit' /\ VectorsDone'
        BY <1>b, <2>1, <3>1 DEF VectorsDone
      <3> QED
        BY <1>d, <2>1, <3>1, <3>2
    <2> QED
      BY <1>5, <1>e, <2>1, CopyRawDoes
  <1>6. CASE WritePage
    <2>1. /\ job.stage = "page" /\ job'.stage = "index"
          /\ job'.file = job.file /\ job'.sha = job.sha /\ job'.text = job.text
          /\ job'.existing = job.existing /\ job'.listed = job.listed
          /\ UNCHANGED <<source, again, manifest, mem>> /\ disk'.vectors = disk.vectors
      BY <1>6, WritePageDoes
    <2>2. EntriesFit' /\ VectorsDone'
      BY <1>b, <2>1 DEF VectorsDone
    <2> QED
      BY <1>d, <2>1, <2>2
  <1>7. CASE RebuildIndex
    <2>1. CASE job'.stage = "graph" /\ LocalsKept /\ disk'.vectors = disk.vectors /\ UNCHANGED mem
      <3>1. job.stage = "index" /\ UNCHANGED <<source, again, manifest>>
        BY <1>7, RebuildIndexDoes
      <3>2. EntriesFit' /\ VectorsDone'
        BY <1>b, <2>1, <3>1 DEF VectorsDone
      <3> QED
        BY <1>d, <2>1, <3>1, <3>2
    <2> QED
      BY <1>7, <1>e, <2>1, RebuildIndexDoes
  <1>8. CASE ReplaceGraph
    <2>1. /\ job.stage = "graph" /\ job'.stage = "vector" /\ LocalsKept
          /\ UNCHANGED <<source, again, manifest, mem>> /\ disk'.vectors = disk.vectors
      BY <1>8, ReplaceGraphDoes
    <2>2. EntriesFit' /\ VectorsDone'
      BY <1>b, <2>1 DEF VectorsDone
    <2> QED
      BY <1>d, <2>1, <2>2
  <1>9. CASE UpsertVectors
    <2>1. /\ job.stage = "vector" /\ job'.stage = "commit" /\ LocalsKept
          /\ UNCHANGED <<source, again, manifest, mem>>
          /\ disk'.vectors = Put(disk.vectors, job.sha, Artifact(job.file, job.text))
      BY <1>9, UpsertVectorsDoes
    <2>2. EntriesFit' /\ VectorsDone'
      BY <1>b, <2>1 DEF VectorsDone, LocalsKept, Put
    <2> QED
      BY <1>d, <2>1, <2>2
  <1>10. CASE Commit
    <2>1. /\ job.stage = "commit" /\ job'.stage = "sweep" /\ LocalsKept
          /\ mem' = Put(mem, job.file, Entry(job.sha, job.slug)) /\ manifest' = mem'
          /\ UNCHANGED <<source, again, disk>> /\ mem = manifest
      BY <1>10, CommitDoes DEF MemInv
    <2>2. /\ job.slug \in Slugs /\ job.sha \in Contents
          /\ job.file \in job.todo /\ job.todo \subseteq job.listed
      BY <2>1 DEF LocalsInv, PastPage, PastIndex, PastGraph
    <2>3. Derived(Entry(job.sha, job.slug)) /\ Entry(job.sha, job.slug).sha = job.sha
      BY <2>2, EntryType, EntryHas
    <2>4. EntriesFit'
      BY <1>0, <2>1, <2>3 DEF EntriesFit, VectorsDone, Put
    <2>5. VectorsDone'
      BY <1>0, <2>1 DEF VectorsDone, LocalsKept
    <2>6. PrunedFits'
      BY <1>0, <2>1, <2>2 DEF PrunedFits, LocalsKept, Put
    <2> QED
      BY <2>1, <2>4, <2>5, <2>6 DEF WorkInv, WorkFits
  <1>11. CASE Sweep
    <2>1. /\ job.stage = "sweep" /\ Moved /\ UNCHANGED <<source, again, manifest>>
          /\ disk'.vectors = Drop(disk.vectors, StaleVectors)
          /\ job.file \in DOMAIN mem /\ mem[job.file] = Entry(job.sha, job.slug) /\ mem = manifest
      BY <1>11, SweepDoes DEF MemInv
    <2>2. ASSUME NEW f \in DOMAIN manifest, manifest[f].sha \notin again
          PROVE  manifest[f].sha \notin StaleVectors
      <3>1. manifest[f].sha \in StaleVectors =>
               job.existing # None /\ manifest[f].sha = job.existing.sha /\ manifest[f].sha # job.sha
        BY DEF StaleVectors, HasEntry
      <3>2. manifest[job.file].sha = job.sha
        BY <2>1 DEF Entry
      <3>3. job.file \in Files
        BY <2>1 DEF LocalsInv
      <3> QED
        BY <2>2, <3>1, <3>2, <3>3, NamesApart
    <2>3. EntriesFit'
      BY <1>0, <2>1, <2>2 DEF EntriesFit, Drop
    <2> QED
      BY <1>c, <2>1, <2>3 DEF Moved
  <1>12. CASE Unlink \/ Detach \/ Untree \/ Unraw
    <2>1. /\ LocalsKept /\ UNCHANGED <<source, again, manifest, mem>> /\ disk'.vectors = disk.vectors
          /\ job.stage \in Removal /\ job'.stage \in Removal \cup {"forget", "prune"}
      BY <1>12, UnlinkDoes, DetachDoes, UntreeDoes, UnrawDoes
    <2>2. EntriesFit' /\ VectorsDone'
      BY <1>b, <2>1 DEF VectorsDone
    <2> QED
      BY <1>d, <2>1, <2>2
  <1>13. CASE Reindex
    <2>1. job.stage = "reindex" /\ UNCHANGED <<source, again, manifest>>
      BY <1>13, ReindexDoes
    <2>2. CASE EndRun /\ UNCHANGED disk
      BY <1>a, <1>b, <2>1, <2>2
    <2>3. CASE job'.stage = "detach" /\ LocalsKept /\ disk'.vectors = disk.vectors /\ UNCHANGED mem
      <3>1. EntriesFit' /\ VectorsDone'
        BY <1>b, <2>1, <2>3 DEF VectorsDone
      <3> QED
        BY <1>d, <2>1, <2>3, <3>1
    <2> QED
      BY <1>13, <2>2, <2>3, ReindexDoes
  <1>14. CASE Unembed
    <2>1. /\ job.stage = "unembed" /\ job'.stage = "untree" /\ LocalsKept
          /\ UNCHANGED <<source, again, manifest, mem>>
          /\ disk'.vectors = disk.vectors \/ disk'.vectors = Drop(disk.vectors, {job.existing.sha})
      BY <1>14, UnembedDoes
    <2>2. ASSUME NEW f \in DOMAIN manifest, manifest[f].sha = source[f],
               manifest[f].sha \notin again
          PROVE  manifest[f].sha # job.existing.sha
      <3>1. job.file \in Files /\ job.existing # None
        BY <2>1, EntryHas DEF LocalsInv
      <3> QED
        BY <1>0, <2>1, <2>2, <3>1, NamesApart DEF WorkFits
    <2>3. EntriesFit'
      BY <1>0, <2>1, <2>2 DEF EntriesFit, Drop
    <2> QED
      BY <1>d, <2>1, <2>3 DEF VectorsDone
  <1>15. CASE Forget
    <2>1. /\ job.stage = "forget" /\ Moved /\ mem' = Drop(mem, {job.file}) /\ manifest' = mem'
          /\ UNCHANGED <<source, again, disk>> /\ mem = manifest
      BY <1>15, ForgetDoes DEF MemInv
    <2>2. \A f \in DOMAIN manifest' : f \in DOMAIN manifest /\ manifest'[f] = manifest[f]
      BY <2>1 DEF Drop
    <2>3. EntriesFit'
      BY <1>0, <2>1, <2>2 DEF EntriesFit
    <2> QED
      BY <1>c, <2>1, <2>2, <2>3 DEF Moved
  <1>16. CASE AllFilesDone
    <2>1. job.stage = "pick" /\ UNCHANGED <<source, again, disk, manifest>> /\ mem = manifest
      BY <1>16, AllFilesDoneDoes DEF MemInv
    <2>2. EntriesFit'
      BY <1>b, <2>1
    <2>3. CASE EndRun
      BY <1>a, <2>2, <2>3
    <2>4. CASE job'.stage = "prune" /\ LocalsKept /\ UNCHANGED mem
      BY <1>0, <2>1, <2>2, <2>4 DEF WorkInv, WorkFits, VectorsDone, PrunedFits, LocalsKept
    <2> QED
      BY <1>16, <2>3, <2>4, AllFilesDoneDoes
  <1>17. CASE Prune
    <2>1. job.stage = "prune" /\ UNCHANGED <<source, again, disk, manifest>>
      BY <1>17, PruneDoes
    <2>2. PICK f \in DOMAIN mem \ job.listed :
             /\ mem' = Drop(mem, {f}) /\ job'.stage = "unlink" /\ job'.listed = job.listed
             /\ job'.file = f /\ job'.existing = mem[f]
      BY <1>17, PruneDoes
    <2>3. f \in DOMAIN manifest /\ manifest[f] = mem[f]
      BY <2>1, <2>2 DEF MemInv
    <2>4. EntriesFit'
      BY <1>b, <2>1
    <2>5. WorkFits'
      BY <1>0, <2>1, <2>2, <2>3 DEF WorkFits, PrunedFits
    <2>6. PrunedFits'
      BY <1>0, <2>1, <2>2 DEF PrunedFits, Drop
    <2> QED
      BY <2>2, <2>4, <2>5, <2>6 DEF WorkInv, VectorsDone
  <1>18. CASE Pruned
    <2>1. /\ job.stage = "prune" /\ manifest' = mem /\ EndRun /\ UNCHANGED <<source, again, disk>>
      BY <1>18, PrunedDoes
    <2>2. \A f \in DOMAIN mem : f \in DOMAIN manifest /\ manifest[f] = mem[f]
      BY <2>1 DEF MemInv
    <2>3. EntriesFit'
      BY <1>0, <2>1, <2>2 DEF EntriesFit
    <2> QED
      BY <1>a, <2>1, <2>3
  <1>19. CASE Fail
    BY <1>e, <1>19, FailDoes
  <1>20. ASSUME NEW f \in Files, NEW c \in Contents \cup {Gone}, Edit(f, c) PROVE WorkInv'
    <2>1. /\ source'[f] = c /\ \A g \in Files \ {f} : source'[g] = source[g]
          /\ again \subseteq again' /\ (c \in Contents \ again' => ~ComesAgain(f, c))
          /\ UNCHANGED <<disk, manifest, mem, job>>
      BY <1>20, EditDoes
    <2>2. ASSUME NEW g \in DOMAIN manifest, manifest[g].sha = source'[g],
                 manifest[g].sha \notin again'
          PROVE  /\ job.stage # "idle" => manifest[g].sha = source[g]
                 /\ manifest[g].sha \in DOMAIN disk.vectors
      <3>1. g \in Files /\ manifest[g].sha \in Contents \ again' /\ Owns(g, manifest[g].sha)
        BY <2>2, NamesApart DEF Owns
      <3>2. CASE manifest[g].sha = source[g]
        BY <1>0, <2>1, <2>2, <3>2 DEF EntriesFit
      <3>3. CASE manifest[g].sha # source[g]
        <4>1. g = f /\ manifest[g].sha = c
          BY <2>1, <2>2, <3>1, <3>3
        <4>2. ~ComesAgain(f, c) /\ c # Gone
          BY <2>1, <3>1, <4>1, IngestAssumption
        <4>3. Owns(f, c)
          BY <3>1, <4>1
        <4> HIDE DEF Owns
        <4>4. job.stage = "idle" /\ Backed(f, manifest[f], c)
          BY <4>2, <4>3 DEF ComesAgain
        <4> QED
          BY <4>1, <4>4 DEF Backed
      <3> QED
        BY <3>2, <3>3
    <2>4. WorkFits'
      <3> SUFFICES ASSUME job.stage \in AtWork \cup Removal \cup {"forget"}, job.existing # None,
                          job.existing.sha \notin again'
                   PROVE  /\ source'[job.file] # job.existing.sha
                          /\ job.stage \in AtWork => job.sha # job.existing.sha
        BY <2>1 DEF WorkFits
      <3>1. job.file \in Files /\ job.existing.sha \in Contents
        BY JobHas, EntryHas DEF LocalsInv, TypeInv
      <3>2. Owns(job.file, job.existing.sha) /\ job.stage # "idle"
        BY DEF Owns
      <3>3. source[job.file] # job.existing.sha
            /\ (job.stage \in AtWork => job.sha # job.existing.sha)
        BY <1>0, <2>1 DEF WorkFits
      <3> HIDE DEF Owns
      <3>4. source'[job.file] # job.existing.sha
        BY <1>20, <3>1, <3>2, <3>3, EditKeeps
      <3> QED
        BY <3>3, <3>4
    <2>5. EntriesFit' /\ PrunedFits'
      BY <1>0, <2>1, <2>2 DEF EntriesFit, PrunedFits
    <2>6. VectorsDone'
      BY <1>0, <2>1 DEF VectorsDone
    <2> QED
      BY <2>4, <2>5, <2>6 DEF WorkInv
  <1>21. CASE CutShort
    <2>1. EndRun /\ UNCHANGED <<source, again, manifest>> /\ disk'.vectors = disk.vectors
      BY <1>21, CutShortDoes
    <2> QED
      BY <1>a, <1>b, <2>1
  <1>22. CASE UNCHANGED vars
    BY <1>0, <1>22 DEF vars, WorkInv, EntriesFit, WorkFits, VectorsDone, PrunedFits
  <1> QED
    BY <1>1, <1>2, <1>3, <1>4, <1>5, <1>6, <1>7, <1>8, <1>9, <1>10, <1>11, <1>12, <1>13, <1>14,
       <1>15, <1>16, <1>17, <1>18, <1>19, <1>20, <1>21, <1>22 DEF Next, Ingest, DeleteArtifacts

-----------------------------------------------------------------------------
(* One text of a content that the manifest names *)

\* What the run writes of a source.
Written == <<job.file, job.sha, job.text>>

\* A source comes into work when it is examined, and leaves it as a whole.
LEMMA WorkGoes ==
    ASSUME TypeInv, LocalsInv, [Next]_vars
    PROVE  /\ job'.stage \in AtWork =>
                 \/ /\ Examine /\ job'.file \in Files /\ job'.sha = source[job'.file]
                    /\ job'.stage \notin Transaction
                    /\ ~(job'.file \in DOMAIN mem /\ CanSkip(mem[job'.file], source[job'.file]))
                 \/ job.stage \in AtWork /\ job'.file = job.file /\ job'.sha = job.sha
           /\ job.stage \in Transaction =>
                 \/ job'.stage \in Transaction /\ Written' = Written
                 \/ Commit \/ Fail \/ CutShort
                 \/ CopyRaw /\ source[job.file] = Gone
                 \/ RebuildIndex /\ ~Indexable
  <1> USE DEF AtWork, Transaction, Removal, Written
  <1>0. EndRun => job'.stage \notin AtWork
    BY Ending, IdleIs
  <1>1. CASE \E prune \in BOOLEAN : Start(prune)
    BY <1>1, StartDoes
  <1>2. CASE Examine
    <2>1. /\ job.stage = "pick"
          /\ \/ job'.stage \notin AtWork
             \/ \E f \in job.todo :
                   /\ ~(f \in DOMAIN mem /\ CanSkip(mem[f], source[f]))
                   /\ job'.stage = "parse" /\ job'.file = f /\ job'.sha = source[f]
      BY <1>0, <1>2, ExamineDoes
    <2>2. job.todo \subseteq Files
      BY JobHas DEF TypeInv
    <2> QED
      BY <1>2, <2>1, <2>2
  <1>3. CASE Parse
    BY <1>0, <1>3, ParseDoes DEF Moved, LocalsKept
  <1>4. CASE SaveTree \/ ReplaceGraph \/ UpsertVectors
    BY <1>4, SaveTreeDoes, ReplaceGraphDoes, UpsertVectorsDoes DEF LocalsKept
  <1>5. CASE CopyRaw
    BY <1>0, <1>5, CopyRawDoes DEF LocalsKept, Rollback
  <1>6. CASE WritePage
    BY <1>6, WritePageDoes
  <1>7. CASE RebuildIndex
    BY <1>0, <1>7, RebuildIndexDoes DEF LocalsKept, Rollback
  <1>8. CASE Commit
    BY <1>8, CommitDoes
  <1>9. CASE Sweep \/ Forget
    BY <1>9, SweepDoes, ForgetDoes DEF Moved
  <1>10. CASE Unlink \/ Detach \/ Unembed \/ Untree \/ Unraw
    BY <1>10, UnlinkDoes, DetachDoes, UnembedDoes, UntreeDoes, UnrawDoes
  <1>11. CASE Reindex
    BY <1>0, <1>11, ReindexDoes
  <1>12. CASE AllFilesDone \/ Prune \/ Pruned
    BY <1>0, <1>12, AllFilesDoneDoes, PruneDoes, PrunedDoes
  <1>13. CASE Fail
    BY <1>0, <1>13, FailDoes DEF Rollback
  <1>14. CASE CutShort
    BY <1>0, <1>14, CutShortDoes
  <1>15. CASE \E f \in Files, c \in Contents \cup {Gone} : Edit(f, c)
    BY <1>15, EditDoes
  <1>16. CASE LoseManifest
    BY <1>16, LoseManifestDoes
  <1>17. CASE UNCHANGED vars
    BY <1>17 DEF vars
  <1> QED
    BY <1>1, <1>2, <1>3, <1>4, <1>5, <1>6, <1>7, <1>8, <1>9, <1>10, <1>11, <1>12, <1>13, <1>14,
       <1>15, <1>16, <1>17 DEF Next, Ingest, DeleteArtifacts

\* Where sources change nothing else does.
LEMMA SourcesGo ==
    ASSUME TypeInv, [Next]_vars
    PROVE  UNCHANGED source \/ UNCHANGED <<disk, manifest, mem, job>>
  <1>1. CASE \A f \in Files, c \in Contents \cup {Gone} : ~Edit(f, c)
    BY <1>1, SourceKept
  <1>2. ASSUME NEW f \in Files, NEW c \in Contents \cup {Gone}, Edit(f, c)
        PROVE  UNCHANGED <<disk, manifest, mem, job>>
    BY <1>2, EditDoes
  <1> QED
    BY <1>1, <1>2

\* An entry comes with a commit, and goes when its source has changed, unless its content
\* came again.
LEMMA EntriesGo ==
    ASSUME TypeInv, LocalsInv, MemInv, WorkInv, manifest # Lost, [Next]_vars, ~LoseManifest
    PROVE  /\ \A f \in DOMAIN manifest' :
                 \/ f \in DOMAIN manifest /\ manifest'[f] = manifest[f]
                 \/ Commit /\ f = job.file /\ manifest'[f].sha = job.sha
           /\ \A f \in DOMAIN manifest : manifest[f].sha \notin again =>
                 \/ f \in DOMAIN manifest' /\ manifest'[f] = manifest[f]
                 \/ /\ manifest[f].sha # source[f]
                    /\ UNCHANGED source /\ job'.stage \notin AtWork
  <1> USE DEF AtWork, Transaction, Removal
  <1>1. CASE manifest' = manifest
    BY <1>1
  <1>2. CASE (\E prune \in BOOLEAN : Start(prune)) /\ manifest' = Resumed
    BY <1>2 DEF Resumed
  <1>3. CASE Commit
    <2>1. /\ job.stage = "commit" /\ job'.stage = "sweep" /\ mem = manifest /\ UNCHANGED source
          /\ manifest' = Put(mem, job.file, Entry(job.sha, job.slug)) /\ job.file \in Files
          /\ job.existing = IF job.file \in DOMAIN mem THEN mem[job.file] ELSE None
      BY <1>3, CommitDoes DEF MemInv, LocalsInv
    <2>2. Entry(job.sha, job.slug).sha = job.sha
      BY DEF Entry
    <2>3. job.file \in DOMAIN manifest /\ manifest[job.file].sha \notin again =>
             manifest[job.file].sha # source[job.file]
      <3>1. job.file \in DOMAIN manifest => manifest[job.file] # None
        BY EntryOf, EntryHas DEF TypeInv
      <3> QED
        BY <2>1, <3>1 DEF WorkInv, WorkFits
    <2> QED
      BY <1>3, <2>1, <2>2, <2>3 DEF Put
  <1>4. CASE Forget
    <2>1. /\ job.stage = "forget" /\ job'.stage = "pick" /\ mem = manifest /\ UNCHANGED source
          /\ manifest' = Drop(mem, {job.file}) /\ job.existing \in Entries
          /\ mem[job.file] = job.existing
      BY <1>4, ForgetDoes DEF MemInv, LocalsInv, Moved
    <2>2. job.existing.sha \notin again => source[job.file] # job.existing.sha
      BY <2>1, EntryHas DEF WorkInv, WorkFits
    <2> QED
      BY <2>1, <2>2 DEF Drop
  <1>5. CASE Pruned
    <2>1. /\ job.stage = "prune" /\ manifest' = mem /\ job'.stage = "idle" /\ UNCHANGED source
      BY <1>5, PrunedDoes, Ending, IdleIs
    <2>2. \A f \in DOMAIN mem : f \in DOMAIN manifest /\ manifest[f] = mem[f]
      BY <2>1 DEF MemInv
    <2>3. ASSUME NEW f \in DOMAIN manifest \ DOMAIN mem, manifest[f].sha \notin again
          PROVE  manifest[f].sha # source[f]
      BY <2>1, <2>3 DEF WorkInv, PrunedFits
    <2> QED
      BY <2>1, <2>2, <2>3
  <1> QED
    BY <1>1, <1>2, <1>3, <1>4, <1>5, ManifestSteps

\* What a tree, or a hit, says a text is of.
Text(x) == <<x.of, x.sha, x.text>>

\* The texts of the trees there are, or may come back.
TreeTexts ==
    {Text(disk.trees[s]) : s \in DOMAIN disk.trees}
    \cup (IF job.stage \in Transaction
          THEN {Text(job.before.trees[s]) : s \in DOMAIN job.before.trees} ELSE {})
    \cup (IF enrich.pc \in {"read", "save"} THEN {Text(enrich.tree)} ELSE {})

VectorTexts ==
    {<<disk.vectors[sha].of, sha, disk.vectors[sha].text>> : sha \in DOMAIN disk.vectors}

Texts == TreeTexts \cup VectorTexts

\* A run adds no text of a tree, but when it saves one.
LEMMA TreeTextsGo ==
    ASSUME TypeInv, LocalsInv, [Next]_vars, UNCHANGED enrich, NEW x \in TreeTexts'
    PROVE  x \in TreeTexts \/ (SaveTree /\ job.stage \in Transaction /\ x = Written)
  <1> DEFINE Of(d) == {Text(d.trees[s]) : s \in DOMAIN d.trees}
  <1>0. /\ TreeTexts = Of(disk) \cup (IF job.stage \in Transaction THEN Of(job.before) ELSE {})
                       \cup (IF enrich.pc \in {"read", "save"} THEN {Text(enrich.tree)} ELSE {})
        /\ TreeTexts' = Of(disk') \cup (IF job'.stage \in Transaction THEN Of(job'.before) ELSE {})
                        \cup (IF enrich.pc \in {"read", "save"} THEN {Text(enrich.tree)} ELSE {})
    BY DEF TreeTexts, Text
  <1>1. CASE /\ disk'.trees = disk.trees
             /\ job'.stage \in Transaction => job.stage \in Transaction /\ job'.before = job.before
    BY <1>0, <1>1
  <1>2. CASE disk' = disk /\ job'.before = disk
    BY <1>0, <1>2
  <1>3. CASE SaveTree
    <2>1. /\ disk'.trees = Put(disk.trees, StemOf[job.file], Tree(job.file, job.sha, job.text))
          /\ job'.before = job.before /\ job.stage \in Transaction
      BY <1>3, SaveTreeDoes DEF LocalsKept, Transaction
    <2>2. Text(Tree(job.file, job.sha, job.text)) = Written
      BY DEF Tree, Text, Written
    <2>3. \A y \in Of(disk') : y \in Of(disk) \/ y = Written
      BY <2>1, <2>2 DEF Put
    <2> HIDE DEF Of
    <2> QED
      BY <1>0, <1>3, <2>1, <2>3
  <1>4. CASE CopyRaw /\ job'.stage = "page"
    <2>1. /\ job.stage \in Transaction /\ job'.before = job.before /\ disk'.trees = disk.trees
      BY <1>4, CopyRawDoes, Ending, IdleIs DEF LocalsKept, Transaction, Rollback
    <2> QED
      BY <1>0, <2>1
  <1>5. CASE Untree \/ Unraw
    <2>1. /\ disk'.trees = disk.trees \/ disk'.trees = Drop(disk.trees, {StemOf[job.file]})
          /\ job'.stage \notin Transaction
      BY <1>5, UntreeDoes, UnrawDoes DEF Transaction
    <2>2. Of(disk') \subseteq Of(disk)
      BY <2>1 DEF Drop
    <2> HIDE DEF Of
    <2> QED
      BY <1>0, <2>1, <2>2
  <1>6. CASE job.stage \in Transaction /\ Rollback
    <2>1. job'.stage \notin Transaction
      BY <1>6, RestoredTrees DEF Transaction
    <2>2. Of(disk') \subseteq Of(disk) \cup Of(job.before)
      BY <1>6, RestoredTrees
    <2> HIDE DEF Of
    <2> QED
      BY <1>0, <1>6, <2>1, <2>2
  <1> QED
    BY <1>1, <1>2, <1>3, <1>4, <1>5, <1>6, TreesAndRaw

\* The enricher adds none.
LEMMA TreeTextsEnriched ==
    ASSUME SoundInv, EnrichNext, NEW x \in TreeTexts'
    PROVE  x \in TreeTexts
  <1> DEFINE Of(d) == {Text(d.trees[s]) : s \in DOMAIN d.trees}
             Rest_ == IF job.stage \in Transaction THEN Of(job.before) ELSE {}
  <1>0. UNCHANGED job /\ (disk' = disk \/ SaveEnriched)
    BY EnrichStep DEF SoundInv
  <1>1. /\ TreeTexts = Of(disk) \cup Rest_
                       \cup (IF enrich.pc \in {"read", "save"} THEN {Text(enrich.tree)} ELSE {})
        /\ TreeTexts' = Of(disk') \cup Rest_
                        \cup (IF enrich'.pc \in {"read", "save"} THEN {Text(enrich'.tree)} ELSE {})
    BY <1>0 DEF TreeTexts, Text
  <1> HIDE DEF Rest_
  <1>2. CASE enrich'.pc \notin {"read", "save"} /\ disk' = disk
    BY <1>1, <1>2
  <1>3. CASE LoadTarget
    <2>1. /\ disk' = disk
          /\ \/ enrich'.pc \notin {"read", "save"}
             \/ \E s \in DOMAIN disk.trees : enrich'.tree = disk.trees[s]
      BY <1>3, LoadTargetDoes, NoEnricherIs DEF SoundInv, vars
    <2> QED
      BY <1>1, <2>1
  <1>4. CASE ReadRaw
    <2>1. /\ disk' = disk /\ enrich.pc = "read"
          /\ enrich'.pc = "load" \/ enrich'.tree = enrich.tree
      BY <1>4, ReadRawDoes DEF SoundInv, vars
    <2> QED
      BY <1>1, <2>1
  <1>5. CASE SaveEnriched
    <2>1. /\ enrich.pc = "save" /\ enrich'.pc = "load"
          /\ \/ disk' = disk
             \/ \E tree \in Trees : /\ Text(tree) = Text(enrich.tree)
                                    /\ disk'.trees = Put(disk.trees, StemOf[Head(enrich.todo)], tree)
      BY <1>5, SaveEnrichedDoes DEF SoundInv, Text
    <2>2. Of(disk') \subseteq Of(disk) \cup {Text(enrich.tree)}
      BY <2>1 DEF Put
    <2> HIDE DEF Of
    <2> QED
      BY <1>1, <2>1, <2>2
  <1>6. CASE (\E only \in Files \cup {None} : StartEnrich(only)) \/ SaveRebuilt \/ EndEnrich
    <2>1. enrich'.pc \notin {"read", "save"} /\ disk' = disk
      BY <1>6, NoEnricherIs
         DEF StartEnrich, SaveRebuilt, EndEnrich, vars, NoEnricher, SoundInv, EnrichInv, Enrichers
    <2> QED
      BY <1>2, <2>1
  <1> QED
    BY <1>3, <1>4, <1>5, <1>6 DEF EnrichNext

\* A run adds no text of vectors, but when it writes some.
LEMMA VectorTextsGo ==
    ASSUME TypeInv, LocalsInv, [Next]_vars, NEW x \in VectorTexts'
    PROVE  x \in VectorTexts \/ (UpsertVectors /\ job.stage \in Transaction /\ x = Written)
  <1>1. ASSUME NEW K, disk'.vectors = Drop(disk.vectors, K)
        PROVE  x \in VectorTexts
    BY <1>1 DEF VectorTexts, Drop
  <1>2. ASSUME disk'.vectors = disk.vectors PROVE x \in VectorTexts
    BY <1>2 DEF VectorTexts
  <1>3. ASSUME job.stage \in Transaction, Rollback PROVE x \in VectorTexts
    <2>1. disk'.vectors = IF job.stage = "commit" THEN Drop(disk.vectors, {job.sha})
                          ELSE disk.vectors
      BY <1>3, RollbackDoes, RestoredIs
    <2> QED
      BY <1>1, <1>2, <2>1
  <1>4. CASE UpsertVectors
    <2>1. /\ disk'.vectors = Put(disk.vectors, job.sha, Artifact(job.file, job.text))
          /\ job.stage \in Transaction
      BY <1>4, UpsertVectorsDoes DEF Transaction
    <2>2. PICK sha \in DOMAIN disk'.vectors : x = <<disk'.vectors[sha].of, sha, disk'.vectors[sha].text>>
      BY DEF VectorTexts
    <2>3. CASE sha = job.sha
      BY <1>4, <2>1, <2>2, <2>3 DEF Artifact, Written, Put
    <2>4. CASE sha # job.sha
      <3>1. sha \in DOMAIN disk.vectors /\ disk'.vectors[sha] = disk.vectors[sha]
        BY <2>1, <2>2, <2>4 DEF Put
      <3> QED
        BY <2>2, <3>1 DEF VectorTexts
    <2> QED
      BY <2>3, <2>4
  <1>5. CASE Sweep \/ Unembed
    BY <1>1, <1>2, <1>5, SweepDoes, UnembedDoes
  <1>6. CASE CopyRaw \/ RebuildIndex \/ Fail
    <2>1. disk'.vectors = disk.vectors \/ (job.stage \in Transaction /\ Rollback)
      BY <1>6, CopyRawDoes, RebuildIndexDoes, FailDoes DEF Transaction
    <2> QED
      BY <1>2, <1>3, <2>1
  <1>7. CASE \E prune \in BOOLEAN : Start(prune)
    BY <1>2, <1>7, StartDoes
  <1>8. CASE Ingest
    BY <1>2, <1>4, <1>5, <1>6, <1>8, ExamineDoes, ParseDoes, SaveTreeDoes, WritePageDoes,
       ReplaceGraphDoes, CommitDoes DEF Ingest
  <1>9. CASE DeleteArtifacts
    BY <1>2, <1>5, <1>9, UnlinkDoes, ReindexDoes, DetachDoes, UntreeDoes, UnrawDoes, ForgetDoes
       DEF DeleteArtifacts
  <1>10. CASE AllFilesDone \/ Prune \/ Pruned
    BY <1>2, <1>10, AllFilesDoneDoes, PruneDoes, PrunedDoes
  <1>11. CASE CutShort
    BY <1>2, <1>11, CutShortDoes
  <1>12. CASE \E f \in Files, c \in Contents \cup {Gone} : Edit(f, c)
    BY <1>2, <1>12, EditDoes
  <1>13. CASE LoseManifest
    BY <1>2, <1>13 DEF LoseManifest
  <1>14. CASE UNCHANGED vars
    BY <1>2, <1>14 DEF vars
  <1> QED
    BY <1>4, <1>5, <1>6, <1>7, <1>8, <1>9, <1>10, <1>11, <1>12, <1>13, <1>14 DEF Next

\* What came again, or back to a source.
Barred == again \cup back

\* What comes back to a source is remembered.
Returning == back \subseteq back' /\ ComingBack \subseteq back'

\* What comes back to a source while there is a tree of it, or the query knows of it, is
\* what the manifest names, or barred.
LEMMA ComesBack ==
    ASSUME manifest # Lost, Returning, NEW f \in Files, NEW sha, NEW text,
           <<f, sha, text>> \in TreeTexts
           \/ (f \in DOMAIN query.snapshot /\ query.snapshot[f].sha = sha),
           source'[f] = sha, source[f] # sha
    PROVE  sha \in back' \/ (f \in DOMAIN manifest /\ manifest[f].sha = sha)
  <1> SUFFICES ASSUME ~(f \in DOMAIN manifest /\ manifest[f].sha = sha) PROVE sha \in Known(f)
    BY DEF Returning, ComingBack
  <1>1. sha \notin {manifest[g].sha : g \in DOMAIN manifest \cap {f}}
    OBVIOUS
  <1>2. CASE f \in DOMAIN query.snapshot /\ query.snapshot[f].sha = sha
    BY <1>1, <1>2 DEF Known
  <1>3. CASE <<f, sha, text>> \in TreeTexts
    <2>1. PICK tree \in TreesAbout : <<f, sha, text>> = Text(tree)
      <3>1. ASSUME NEW d \in {disk, job.before}, NEW s \in DOMAIN d.trees
            PROVE  d.trees[s] \in TreesAbout
        BY <3>1, Zenon DEF TreesAbout
      <3>2. enrich.pc \in {"read", "save"} => enrich.tree \in TreesAbout
        BY Zenon DEF TreesAbout
      <3> QED
        BY <1>3, <3>1, <3>2 DEF TreeTexts
    <2>2. tree \in {t \in TreesAbout : t.of = f} /\ tree.sha = sha
      BY <2>1 DEF Text
    <2> QED
      BY <1>1, <2>2 DEF Known
  <1> QED
    BY <1>2, <1>3

\* While no step raises and no run is cut short, a tree is of the content that the manifest
\* names, or of the text in work, or of a content that its source has not, unless that
\* came again or back.
Kept(f, sha, text) ==
    \/ f \in DOMAIN manifest /\ manifest[f].sha = sha
    \/ job.stage \in Transaction /\ Written = <<f, sha, text>>
    \/ /\ source[f] # sha
       /\ ~(job.stage \in AtWork /\ job.file = f /\ job.sha = sha)

KeptInv ==
    \A f \in Files, sha \in Contents \ Barred, text \in Contents :
        <<f, sha, text>> \in TreeTexts => Kept(f, sha, text)

\* A tree that is kept for one of these reasons, is so after a step of a run, unless its
\* content comes back.
LEMMA KeptOn ==
    ASSUME TypeInv, LocalsInv, MemInv, WorkInv, WholeInv, manifest # Lost,
           [Next]_vars, ~Fail, ~CutShort, ~LoseManifest,
           NEW f \in Files, NEW sha \in Contents \ again', NEW text, Kept(f, sha, text),
           \/ f \in DOMAIN manifest /\ manifest[f].sha = sha
           \/ source'[f] = sha => source[f] = sha
    PROVE  Kept(f, sha, text)'
  <1>0. sha \notin again
    BY AgainGrows
  <1>1. UNCHANGED source \/ UNCHANGED <<disk, manifest, mem, job>>
    BY SourcesGo
  <1>2. CASE f \in DOMAIN manifest /\ manifest[f].sha = sha
    <2>1. \/ f \in DOMAIN manifest' /\ manifest'[f].sha = sha
          \/ source'[f] # sha /\ job'.stage \notin AtWork
      BY <1>0, <1>2, EntriesGo
    <2> QED
      BY <2>1 DEF Kept
  <1>3. CASE job.stage \in Transaction /\ Written = <<f, sha, text>>
    <2>1. job.file = f /\ job.sha = sha
      BY <1>3 DEF Written
    <2>2. CASE job'.stage \in Transaction /\ Written' = Written
      BY <1>3, <2>2 DEF Kept
    <2>3. CASE Commit
      <3>1. manifest' = Put(mem, job.file, Entry(job.sha, job.slug))
        BY <2>3, CommitDoes
      <3>2. f \in DOMAIN manifest' /\ manifest'[f].sha = sha
        BY <2>1, <3>1 DEF Entry, Put
      <3> QED
        BY <3>2 DEF Kept
    <2>4. CASE CopyRaw /\ source[job.file] = Gone
      <3>1. EndRun /\ UNCHANGED source
        BY <2>4, CopyRawDoes DEF Rollback
      <3>2. job'.stage \notin AtWork /\ source'[f] # sha
        BY <2>1, <2>4, <3>1, Ending, IdleIs, IngestAssumption DEF AtWork, Transaction
      <3> QED
        BY <3>2 DEF Kept
    <2>5. Indexable
      BY DEF WholeInv, WholeIn, Indexable
    <2> QED
      BY <1>3, <2>2, <2>3, <2>4, <2>5, WorkGoes
  <1>4. CASE /\ source[f] # sha /\ source'[f] # sha
             /\ ~(job.stage \in AtWork /\ job.file = f /\ job.sha = sha)
    <2>1. ~(job'.stage \in AtWork /\ job'.file = f /\ job'.sha = sha)
      BY <1>4, WorkGoes
    <2> QED
      BY <1>4, <2>1 DEF Kept
  <1> QED
    BY <1>2, <1>3, <1>4 DEF Kept

\* So no tree is kept for none.
LEMMA KeptStep ==
    ASSUME TypeInv, LocalsInv, MemInv, WorkInv, WholeInv, KeptInv, manifest # Lost,
           [Next]_vars, ~Fail, ~CutShort, ~LoseManifest, UNCHANGED enrich, Returning
    PROVE  KeptInv'
  <1> SUFFICES ASSUME NEW f \in Files, NEW sha \in Contents \ Barred', NEW text \in Contents,
                      <<f, sha, text>> \in TreeTexts'
               PROVE  Kept(f, sha, text)'
    BY DEF KeptInv
  <1>0. sha \notin Barred /\ sha \notin again' /\ sha \notin back'
    BY AgainGrows DEF Barred, Returning
  <1>1. CASE <<f, sha, text>> \in TreeTexts
    <2>1. Kept(f, sha, text)
      BY <1>0, <1>1 DEF KeptInv
    <2>2. \/ f \in DOMAIN manifest /\ manifest[f].sha = sha
          \/ source'[f] = sha => source[f] = sha
      BY <1>0, <1>1, ComesBack
    <2> QED
      BY <1>0, <2>1, <2>2, KeptOn
  <1>2. CASE SaveTree /\ job.stage \in Transaction /\ <<f, sha, text>> = Written
    <2>1. UNCHANGED source
      BY <1>2, SaveTreeDoes
    <2>2. Kept(f, sha, text)
      BY <1>2 DEF Kept
    <2> QED
      BY <1>0, <2>1, <2>2, KeptOn
  <1> QED
    BY <1>1, <1>2, TreeTextsGo

\* There is one text of each content that the manifest m names, but for those of R.
OneText(R, m, texts) ==
    \A f \in DOMAIN m, t, u \in Contents :
        m[f].sha \notin R /\ <<f, m[f].sha, t>> \in texts /\ <<f, m[f].sha, u>> \in texts
            => t = u

\* The manifest does not name what is in work yet, unless that came again.
LEMMA NotYetNamed ==
    ASSUME TypeInv, LocalsInv, MemInv, WorkInv, job.stage \in AtWork, job.file \in DOMAIN manifest,
           job.sha \notin again
    PROVE  manifest[job.file].sha # job.sha
  <1>1. /\ mem = manifest
        /\ job.existing = IF job.file \in DOMAIN mem THEN mem[job.file] ELSE None
        /\ manifest \in Manifests
    BY DEF MemInv, AtWork, TypeInv, Transaction
  <1>2. job.existing = manifest[job.file] /\ job.existing # None
    BY <1>1, EntryOf, EntryHas
  <1> QED
    BY <1>2 DEF WorkInv, WorkFits

\* Whether no step raised and no run was cut short, or the enricher met none: when an entry
\* is made, there is no other text of its content than that in work.
NoneLeft == KeptInv \/ (BeforeInv /\ StemmedInv /\ enrich.pc = "idle")

\* When an entry is made, what the layers hold of its content is of the text in work.
LEMMA CommittedText ==
    ASSUME TypeInv, LocalsInv, MemInv, WorkInv, NoneLeft, manifest # Lost, Commit, UNCHANGED enrich,
           job.sha \notin Barred, NEW t \in Contents, <<job.file, job.sha, t>> \in Texts'
    PROVE  t = job.text
  <1>1. /\ job.stage = "commit" /\ job'.stage = "sweep" /\ UNCHANGED disk
        /\ job.file \in Files /\ job.sha \in Contents /\ job.text \in Contents
    BY CommitDoes, TextualIsContent DEF LocalsInv, Transaction
  <1>2. CASE <<job.file, job.sha, t>> \in VectorTexts'
    <2>1. PICK sha \in DOMAIN disk.vectors :
             <<job.file, job.sha, t>> = <<disk.vectors[sha].of, sha, disk.vectors[sha].text>>
      BY <1>1, <1>2 DEF VectorTexts
    <2>2. disk.vectors[job.sha] = Artifact(job.file, job.text)
      BY <1>1 DEF WorkInv, VectorsDone, PastVector
    <2> QED
      BY <2>1, <2>2 DEF Artifact
  <1>3. CASE <<job.file, job.sha, t>> \in TreeTexts' /\ KeptInv
    <2>1. <<job.file, job.sha, t>> \in TreeTexts
      BY <1>1, <1>3 DEF TreeTexts, Transaction
    <2>2. Kept(job.file, job.sha, t)
      BY <1>1, <1>3, <2>1 DEF KeptInv
    <2>3. job.stage \in AtWork
      BY <1>1 DEF AtWork, Transaction
    <2>4. ~(job.file \in DOMAIN manifest /\ manifest[job.file].sha = job.sha)
      BY <2>3, NotYetNamed DEF Barred
    <2> QED
      BY <2>2, <2>3, <2>4 DEF Kept, Written
  <1>4. CASE /\ <<job.file, job.sha, t>> \in TreeTexts'
             /\ BeforeInv /\ StemmedInv /\ enrich.pc = "idle"
    <2>1. PICK s \in DOMAIN disk.trees : <<job.file, job.sha, t>> = Text(disk.trees[s])
      BY <1>1, <1>4 DEF TreeTexts, Transaction
    <2>2. disk.trees[s].of = job.file /\ disk.trees[s].text = t
      BY <2>1 DEF Text
    <2>3. s = StemOf[job.file]
      BY <1>4, <2>2 DEF StemmedInv, StemmedIn
    <2>4. disk.trees = Put(job.before.trees, StemOf[job.file],
                           Tree(job.file, job.sha, job.text))
      BY <1>1, <1>4 DEF BeforeInv, PastTree, PastCopy, PastPage, PastIndex, PastGraph, PastVector,
                        Transaction
    <2>5. disk.trees[s] = Tree(job.file, job.sha, job.text)
      BY <2>3, <2>4 DEF Put
    <2> QED
      BY <2>2, <2>5 DEF Tree
  <1> QED
    BY <1>2, <1>3, <1>4 DEF Texts, NoneLeft

\* What a run writes is of no content that the manifest names.
LEMMA TextsGo ==
    ASSUME TypeInv, LocalsInv, MemInv, WorkInv, [Next]_vars, UNCHANGED enrich,
           NEW f \in DOMAIN manifest, manifest[f].sha \notin again, NEW t, <<f, manifest[f].sha, t>> \in Texts'
    PROVE  <<f, manifest[f].sha, t>> \in Texts
  <1>1. \/ <<f, manifest[f].sha, t>> \in Texts
        \/ job.stage \in Transaction /\ <<f, manifest[f].sha, t>> = Written
    BY TreeTextsGo, VectorTextsGo DEF Texts
  <1>2. ~(job.stage \in Transaction /\ <<f, manifest[f].sha, t>> = Written)
    BY NotYetNamed DEF Written, AtWork
  <1> QED
    BY <1>1, <1>2

\* So there stays one text of each content that the manifest names.
LEMMA OneTextStep ==
    ASSUME TypeInv, LocalsInv, MemInv, WorkInv, Commit => NoneLeft, manifest # Lost,
           OneText(Barred, manifest, Texts), [Next]_vars, ~LoseManifest, UNCHANGED enrich, Returning
    PROVE  OneText(Barred', manifest', Texts')
  <1> SUFFICES ASSUME NEW f \in DOMAIN manifest', NEW t \in Contents, NEW u \in Contents,
                      manifest'[f].sha \notin Barred',
                      <<f, manifest'[f].sha, t>> \in Texts', <<f, manifest'[f].sha, u>> \in Texts'
               PROVE  t = u
    BY DEF OneText
  <1>0. manifest'[f].sha \notin Barred /\ manifest'[f].sha \notin again
    BY AgainGrows DEF Barred, Returning
  <1>1. CASE f \in DOMAIN manifest /\ manifest'[f] = manifest[f]
    BY <1>0, <1>1, TextsGo DEF OneText
  <1>2. CASE Commit /\ f = job.file /\ manifest'[f].sha = job.sha
    BY <1>0, <1>2, CommittedText
  <1> QED
    BY <1>1, <1>2, EntriesGo

-----------------------------------------------------------------------------
(* The sections that a query has found *)

\* The texts of the hits that were found.
HitTexts == {Text(h) : h \in ItemsOf(query.hits)}

Asking == query.pc \notin {"idle", "done"}

\* What the manifest named when the query read it, is named still, or its source has it not:
\* it is not in work, and there is one text of it, unless it came again or back.
Snapped(f) ==
    LET sha == query.snapshot[f].sha IN
    /\ sha = source[f] => f \in DOMAIN manifest /\ manifest[f].sha = sha
    /\ job.stage \in AtWork /\ job.file = f => job.sha # sha

AskedInv ==
    Asking => /\ query.snapshot \in Manifests
              /\ \A f \in DOMAIN query.snapshot :
                    query.snapshot[f].sha \notin Barred => Snapped(f)
              /\ OneText(Barred, query.snapshot, Texts \cup HitTexts)

\* A section is one of the text that was found, if that is of the content named.
SectionIsOf(e) ==
    e.route = "vector" /\ e.section # None /\ e.section.hit = query.snapshot[e.of].sha
        => e.section.of = e.text \/ e.section.hit \in Barred

LocatedInv == \A c \in Gathered : \A e \in c.evidence : SectionIsOf(e)

\* A section that a query finds now is one of the text that was found.
LEMMA LocatedNow ==
    ASSUME SoundInv, Asking, AskedInv, NEW e, QuotedNow(e)
    PROVE  SectionIsOf(e)
  <1> SUFFICES ASSUME e.route = "vector", e.section # None,
                      e.section.hit = query.snapshot[e.of].sha, e.section.hit \notin Barred
               PROVE  e.section.of = e.text
    BY DEF SectionIsOf
  <1>1. PICK h \in ItemsOf(query.hits) :
           /\ e.of = h.of /\ e.text = h.text /\ HasSection(h) /\ e.section.hit = h.sha
           /\ e.section.of = disk.trees[StemOf[h.of]].text
    BY DEF QuotedNow
  <1> DEFINE f    == h.of
             sha  == query.snapshot[f].sha
             tree == disk.trees[StemOf[f]]
  <1>2. /\ f \in DOMAIN query.snapshot /\ StemOf[f] \in DOMAIN disk.trees
        /\ tree.of = f /\ tree.sha = sha /\ h.sha = sha /\ sha \notin Barred
    BY <1>1 DEF HasSection, IsTreeOf
  <1>3. tree.text \in Contents /\ h.text \in Contents
    <2>1. disk.trees \in Partial(Stems, Trees)
      BY LayersHave DEF SoundInv, TypeInv
    <2>2. tree \in Trees
      BY <1>2, <2>1, PartialFacts
    <2> QED
      BY <1>1, <2>2 DEF Trees, SoundInv, FoundInv, HitFits
  <1>4. <<f, sha, tree.text>> \in TreeTexts /\ <<f, sha, h.text>> \in HitTexts
    BY <1>1, <1>2 DEF TreeTexts, HitTexts, Text
  <1> HIDE DEF sha, tree
  <1>5. tree.text = h.text
    <2>1. OneText(Barred, query.snapshot, Texts \cup HitTexts)
      BY DEF AskedInv
    <2>2. <<f, query.snapshot[f].sha, tree.text>> \in Texts \cup HitTexts
          /\ <<f, query.snapshot[f].sha, h.text>> \in Texts \cup HitTexts
      BY <1>4 DEF Texts, sha
    <2> QED
      BY <1>2, <1>3, <2>1, <2>2 DEF OneText, sha
  <1> QED
    BY <1>1, <1>5 DEF tree

\* The hits that a query finds are texts there are.
LEMMA HitTextsAre ==
    ASSUME NEW h \in Hits
    PROVE  Text(h) \in Texts
  <1>1. PICK sha \in DOMAIN disk.vectors :
           \E k : h = [of |-> disk.vectors[sha].of, sha |-> sha,
                       text |-> disk.vectors[sha].text, k |-> k]
    BY DEF Hits
  <1> QED
    BY <1>1 DEF Text, Texts, VectorTexts

\* What the manifest names now, it may be asked for.
LEMMA SnappedNow ==
    ASSUME TypeInv, LocalsInv, ClaimsInv, MemInv, WorkInv, manifest # Lost, NEW f \in DOMAIN manifest,
           manifest[f].sha \notin again
    PROVE  job.stage \in AtWork /\ job.file = f => job.sha # manifest[f].sha
    BY NotYetNamed

\* A step of a query keeps this.
LEMMA AskedByQuery ==
    ASSUME SoundInv, ClaimsInv, MemInv, WorkInv, manifest # Lost, OneText(Barred, manifest, Texts),
           AskedInv, LocatedInv, QueryStep, UNCHANGED <<indexVars, raced, back>>
    PROVE  AskedInv' /\ LocatedInv'
  <1>1. query' = NoQuery \/ Asks \/ Goes
    BY QueryStepDoes DEF SoundInv
  <1>2. /\ UNCHANGED <<disk, manifest, job, source>> /\ Texts' = Texts /\ Barred' = Barred
    <2>1. UNCHANGED <<disk, manifest, job, source, again, back, enrich>>
      BY DEF indexVars, vars
    <2> QED
      BY <2>1 DEF Texts, TreeTexts, VectorTexts, Text, Barred
  <1>3. CASE query' = NoQuery
    <2>1. query'.pc = "idle" /\ query'.cands = <<>> /\ query'.nodes = <<>>
      BY <1>3, NoQueryIs
    <2> QED
      BY <2>1, EmptyList DEF AskedInv, LocatedInv, Gathered, Asking
  <1>4. CASE Asks
    <2>1. query'.snapshot = manifest /\ query'.hits = <<>> /\ Gathered' = {}
      BY <1>4 DEF Asks
    <2>2. HitTexts' = {}
      BY <2>1, EmptyList DEF HitTexts
    <2>3. \A f \in DOMAIN query'.snapshot : query'.snapshot[f].sha \notin Barred' => Snapped(f)'
      BY <1>2, <2>1, SnappedNow DEF Snapped, SoundInv, Barred
    <2>4. OneText(Barred, query.snapshot, Texts \cup HitTexts)'
      BY <1>2, <2>1, <2>2 DEF OneText
    <2>5. query'.snapshot \in Manifests
      BY <2>1 DEF SoundInv, TypeInv
    <2> QED
      BY <1>2, <2>1, <2>3, <2>4, <2>5 DEF AskedInv, LocatedInv, Manifests, Partial, Entries
  <1>5. CASE Goes
    <2>1. Asking /\ (query'.pc # "done" => query'.snapshot = query.snapshot)
          /\ (query'.pc = "done" => Gathered' = {})
          /\ ItemsOf(query'.hits) \subseteq ItemsOf(query.hits) \cup Hits
          /\ \A c \in Gathered' : c \in Gathered \/ \A e \in c.evidence : QuotedNow(e)
      BY <1>5 DEF Goes, Asking
    <2>2. \A e : QuotedNow(e) => SectionIsOf(e)
      BY <2>1, LocatedNow
    <2>3. CASE query'.pc = "done"
      BY <2>1, <2>3 DEF AskedInv, Asking, LocatedInv
    <2>4. CASE query'.pc # "done"
      <3>1. query'.snapshot = query.snapshot
        BY <2>1, <2>4
      <3>2. \A e : SectionIsOf(e)' <=> SectionIsOf(e)
        BY <1>2, <3>1 DEF SectionIsOf
      <3>3. LocatedInv'
        BY <2>1, <2>2, <3>2 DEF LocatedInv
      <3>4. HitTexts' \subseteq HitTexts \cup Texts
        BY <2>1, HitTextsAre DEF HitTexts, Text
      <3>5. OneText(Barred, query.snapshot, Texts \cup HitTexts)'
        BY <1>2, <2>1, <3>1, <3>4 DEF OneText, AskedInv
      <3>6. \A f \in DOMAIN query'.snapshot : query'.snapshot[f].sha \notin Barred' => Snapped(f)'
        BY <1>2, <2>1, <3>1 DEF Snapped, AskedInv
      <3>7. query'.snapshot \in Manifests
        BY <2>1, <3>1 DEF AskedInv
      <3> QED
        BY <1>2, <3>3, <3>5, <3>6, <3>7 DEF AskedInv, Manifests, Partial, Entries
    <2> QED
      BY <2>3, <2>4
  <1> QED
    BY <1>1, <1>3, <1>4, <1>5

\* and so does a step of a run,
LEMMA AskedByRun ==
    ASSUME SoundInv, MemInv, WorkInv, manifest # Lost, AskedInv, [Next]_vars, Returning,
           ~LoseManifest, UNCHANGED enrich, query'.pc = query.pc, query'.snapshot = query.snapshot,
           query'.hits = query.hits
    PROVE  AskedInv'
  <1> SUFFICES ASSUME Asking
               PROVE  /\ \A f \in DOMAIN query.snapshot :
                            query.snapshot[f].sha \notin Barred' => Snapped(f)'
                      /\ OneText(Barred', query.snapshot, Texts' \cup HitTexts')
    BY DEF AskedInv, Asking
  <1>0. TypeInv /\ LocalsInv /\ query.snapshot \in Manifests
        /\ Barred \subseteq Barred' /\ again \subseteq again'
        /\ \A f \in DOMAIN query.snapshot : query.snapshot[f].sha \notin Barred => Snapped(f)
    BY AgainGrows DEF SoundInv, AskedInv, Barred, Returning
  <1>1. ASSUME NEW f \in DOMAIN query.snapshot, query.snapshot[f].sha \notin Barred'
        PROVE  Snapped(f)'
    <2> DEFINE sha == query.snapshot[f].sha
    <2>1. /\ f \in Files /\ sha \in Contents /\ sha \notin Barred' /\ sha \notin again
          /\ sha = source[f] => f \in DOMAIN manifest /\ manifest[f].sha = sha
          /\ job.stage \in AtWork /\ job.file = f => job.sha # sha
      BY <1>0, <1>1, EntryOf, EntryHas DEF Snapped, Barred
    <2>2. sha = source'[f] => f \in DOMAIN manifest /\ manifest[f].sha = sha
      BY <1>1, <2>1, ComesBack DEF Barred
    <2> HIDE DEF sha
    <2>a. UNCHANGED source \/ UNCHANGED <<disk, manifest, mem, job>>
      BY <1>0, SourcesGo
    <2>3. sha = source'[f] => f \in DOMAIN manifest' /\ manifest'[f].sha = sha
      <3>1. CASE sha = source[f]
        <4>1. \/ f \in DOMAIN manifest' /\ manifest'[f].sha = sha
              \/ manifest[f].sha # source[f]
          BY <1>0, <2>1, <3>1, EntriesGo
        <4> QED
          BY <2>1, <3>1, <4>1
      <3>2. CASE sha # source[f]
        BY <2>2, <2>a, <3>2
      <3> QED
        BY <3>1, <3>2
    <2>4. ASSUME job'.stage \in AtWork, job'.file = f PROVE job'.sha # sha
      <3>1. CASE job.stage \in AtWork /\ job'.file = job.file /\ job'.sha = job.sha
        BY <2>1, <2>4, <3>1
      <3>2. CASE /\ Examine /\ job'.sha = source[job'.file]
                 /\ ~(job'.file \in DOMAIN mem /\ CanSkip(mem[job'.file], source[job'.file]))
        <4>1. mem = manifest
          BY <1>0, <3>2, ExamineDoes DEF MemInv
        <4>2. f \in DOMAIN manifest /\ manifest[f].sha \notin again => manifest[f].sha # source[f]
          BY <2>4, <3>2, <4>1 DEF CanSkip, WorkInv, EntriesFit
        <4> QED
          BY <2>1, <2>4, <3>2, <4>2
      <3> QED
        BY <1>0, <2>4, <3>1, <3>2, WorkGoes
    <2> QED
      BY <2>3, <2>4 DEF Snapped, sha
  <1>2. HitTexts' = HitTexts
    BY DEF HitTexts, Text
  <1>3. ASSUME NEW f \in DOMAIN query.snapshot, NEW t, <<f, query.snapshot[f].sha, t>> \in Texts',
               query.snapshot[f].sha \notin Barred'
        PROVE  <<f, query.snapshot[f].sha, t>> \in Texts
    <2>1. \/ <<f, query.snapshot[f].sha, t>> \in Texts
          \/ job.stage \in Transaction /\ <<f, query.snapshot[f].sha, t>> = Written
      BY <1>0, <1>3, TreeTextsGo, VectorTextsGo DEF Texts
    <2>2. job.stage \in Transaction /\ job.file = f => job.sha # query.snapshot[f].sha
      BY <1>0, <1>3 DEF Snapped, AtWork
    <2> QED
      BY <2>1, <2>2 DEF Written
  <1>4. OneText(Barred, query.snapshot, Texts \cup HitTexts)
    BY DEF AskedInv
  <1>5. OneText(Barred', query.snapshot, Texts' \cup HitTexts')
    BY <1>0, <1>2, <1>3, <1>4 DEF OneText
  <1> QED
    BY <1>1, <1>5

\* and one of the enricher.
LEMMA AskedByEnricher ==
    ASSUME SoundInv, AskedInv, EnrichNext, UNCHANGED <<query, back>>, manifest' = manifest
    PROVE  /\ AskedInv'
           /\ OneText(Barred, manifest, Texts) => OneText(Barred', manifest', Texts')
  <1>1. UNCHANGED <<source, again, job>> /\ disk'.vectors = disk.vectors
    BY EnrichStep, SaveEnrichedDoes DEF SoundInv
  <1>2. Texts' \subseteq Texts /\ HitTexts' = HitTexts
    <2>1. TreeTexts' \subseteq TreeTexts
      BY TreeTextsEnriched
    <2> QED
      BY <1>1, <2>1 DEF Texts, VectorTexts, HitTexts, Text
  <1>3. Barred' = Barred /\ \A f : Snapped(f)' <=> Snapped(f)
    BY <1>1 DEF Snapped, Barred
  <1>4. AskedInv'
    <2> SUFFICES ASSUME Asking
                 PROVE  /\ \A f \in DOMAIN query.snapshot :
                              query.snapshot[f].sha \notin Barred' => Snapped(f)'
                        /\ OneText(Barred', query.snapshot, Texts' \cup HitTexts')
      BY DEF AskedInv, Asking
    <2> QED
      BY <1>2, <1>3 DEF AskedInv, OneText
  <1> QED
    BY <1>2, <1>3, <1>4 DEF OneText

\* While no manifest is lost, and nothing that is left by a run that raised or was cut short
\* can be saved again by an enricher that it met.
Certain == count.losses = 0 /\ (raced => count.cuts = 0 /\ count.faults = 0)

\* What sections rest on.
TextsInv ==
    /\ StemmedInv
    /\ count.cuts = 0 => WholeInv
    /\ count.losses = 0 => WorkInv
    /\ count.losses = 0 /\ count.cuts = 0 /\ count.faults = 0 => KeptInv
    /\ Certain => OneText(Barred, manifest, Texts)

SectionInv == TextsInv /\ (Certain => AskedInv /\ LocatedInv)

\* Every step of a run keeps the texts.
LEMMA TextsStep ==
    ASSUME SoundInv, RacedInv, KnownInv, TextsInv, [Next]_vars, UNCHANGED enrich, Returning,
           raced => raced'
    PROVE  TextsInv' /\ (Certain' => Certain)
  <1>1. /\ count'.faults = 0 => count.faults = 0 /\ ~Fail
        /\ count'.cuts = 0 => count.cuts = 0 /\ ~CutShort
        /\ count'.losses = 0 => count.losses = 0 /\ ~LoseManifest
    BY CountsGrow DEF SoundInv
  <1>2. Certain' => Certain
    BY <1>1 DEF Certain
  <1>3. count.losses = 0 => manifest # Lost /\ ClaimsInv /\ MemInv
    BY DEF KnownInv
  <1>4. StemmedInv'
    BY StemmedStep DEF SoundInv, TextsInv
  <1>5. count'.cuts = 0 => WholeInv'
    BY <1>1, WholeStep DEF SoundInv, TextsInv
  <1>6. count'.losses = 0 => WorkInv'
    BY <1>1, <1>3, WorkStep DEF SoundInv, TextsInv
  <1>7. count'.losses = 0 /\ count'.cuts = 0 /\ count'.faults = 0 => KeptInv'
    BY <1>1, <1>3, KeptStep DEF SoundInv, TextsInv
  <1>8. ASSUME Certain' PROVE OneText(Barred', manifest', Texts')
    <2>1. Certain /\ count.losses = 0 /\ ~LoseManifest
      BY <1>1, <1>2, <1>8 DEF Certain
    <2>2. Commit => NoneLeft
      <3>1. CASE count.cuts = 0 /\ count.faults = 0
        BY <2>1, <3>1 DEF TextsInv, NoneLeft
      <3>2. CASE ~raced
        <4>1. BeforeInv /\ (Commit => enrich.pc = "idle")
          BY <2>1, <3>2 DEF KnownInv, RacedInv, Commit
        <4> QED
          BY <4>1 DEF TextsInv, NoneLeft
      <3> QED
        BY <2>1, <3>1, <3>2 DEF Certain
    <2> QED
      BY <1>3, <2>1, <2>2, OneTextStep DEF SoundInv, TextsInv
  <1>9. OneText(Barred', manifest', Texts') <=> OneText(Barred, manifest, Texts)'
    BY DEF OneText
  <1> QED
    BY <1>2, <1>4, <1>5, <1>6, <1>7, <1>8, <1>9 DEF TextsInv

\* So does one of the enricher.
LEMMA TextsEnriched ==
    ASSUME SoundInv, KnownInv, TextsInv, EnrichNext, raced => raced',
           Certain => AskedInv, UNCHANGED <<query, back>>
    PROVE  TextsInv' /\ (Certain' => Certain) /\ (Certain' => AskedInv')
  <1>1. UNCHANGED <<source, again, mem, job, count, library>>
        /\ disk'.pages = disk.pages /\ disk'.vectors = disk.vectors
    BY EnrichStep, SaveEnrichedDoes DEF SoundInv
  <1>2. Certain' => Certain
    BY <1>1 DEF Certain
  <1>3. count.losses = 0 => manifest' = manifest
    BY NotRebuilt DEF KnownInv
  <1>4. StemmedInv'
    BY StemmedEnriched DEF TextsInv
  <1>5. WholeInv => WholeInv'
    BY <1>1 DEF WholeInv, WholeIn
  <1>6. count.losses = 0 /\ WorkInv => WorkInv'
    BY <1>1, <1>3 DEF WorkInv, EntriesFit, WorkFits, VectorsDone, PrunedFits
  <1>7. count.losses = 0 /\ KeptInv => KeptInv'
    <2> SUFFICES ASSUME count.losses = 0, KeptInv,
                        NEW f \in Files, NEW sha \in Contents \ Barred', NEW text \in Contents,
                        <<f, sha, text>> \in TreeTexts'
                 PROVE  Kept(f, sha, text)'
      BY DEF KeptInv
    <2>1. Kept(f, sha, text)
      BY <1>1, TreeTextsEnriched DEF KeptInv, Barred
    <2> QED
      BY <1>1, <1>3, <2>1 DEF Kept, Written
  <1>8. ASSUME Certain' PROVE OneText(Barred', manifest', Texts') /\ AskedInv'
    BY <1>2, <1>3, <1>8, AskedByEnricher DEF TextsInv, Certain
  <1>9. OneText(Barred', manifest', Texts') <=> OneText(Barred, manifest, Texts)'
    BY DEF OneText
  <1> QED
    BY <1>1, <1>2, <1>4, <1>5, <1>6, <1>7, <1>8, <1>9 DEF TextsInv

\* Every step keeps what sections rest on.
LEMMA SectionStep ==
    ASSUME SoundInv, RacedInv, KnownInv, SectionInv, [QueryNext]_queryVars
    PROVE  SectionInv'
  <1>0. TextsInv /\ (Certain => AskedInv /\ LocatedInv) /\ TypeInv /\ LocalsInv
    BY DEF SectionInv, SoundInv
  <1>a. ASSUME UNCHANGED query \/ Disturbed, UNCHANGED library, Barred \subseteq Barred'
        PROVE  /\ query'.pc = query.pc /\ query'.snapshot = query.snapshot
               /\ query'.hits = query.hits /\ (LocatedInv => LocatedInv')
    <2>1. /\ query'.pc = query.pc /\ query'.snapshot = query.snapshot
          /\ query'.hits = query.hits /\ Gathered' = Gathered
      BY <1>a, OthersStep DEF SoundInv
    <2>2. \A e : SectionIsOf(e) => SectionIsOf(e)'
      BY <1>a, <2>1 DEF SectionIsOf
    <2> QED
      BY <2>1, <2>2 DEF LocatedInv
  <1>b. ASSUME [Next]_vars, UNCHANGED <<library, enrich>>, raced => raced',
               UNCHANGED query \/ Disturbed, Returning
        PROVE  SectionInv'
    <2>1. TextsInv' /\ (Certain' => Certain)
      BY <1>0, <1>b, TextsStep
    <2>a. Barred \subseteq Barred'
      BY <1>0, <1>b, AgainGrows DEF Barred, Returning
    <2>2. ASSUME Certain' PROVE AskedInv' /\ LocatedInv'
      <3>1. /\ count.losses = 0 /\ ~LoseManifest /\ AskedInv /\ LocatedInv
            /\ manifest # Lost /\ MemInv /\ WorkInv
        BY <1>0, <1>b, <2>1, <2>2, CountsGrow DEF Certain, KnownInv, TextsInv
      <3> QED
        BY <1>a, <1>b, <2>a, <3>1, AskedByRun
    <2> QED
      BY <2>1, <2>2 DEF SectionInv
  <1>c. ASSUME UNCHANGED <<source, back>> PROVE Returning
    BY <1>c DEF Returning, ComingBack
  <1>1. CASE QueryStep /\ UNCHANGED <<indexVars, raced, back>>
    <2>1. UNCHANGED <<vars, enrich, raced>> /\ Returning
      BY <1>1, <1>c DEF indexVars, vars
    <2>2. TextsInv' /\ (Certain' => Certain)
      BY <1>0, <2>1, TextsStep
    <2>3. ASSUME Certain' PROVE AskedInv' /\ LocatedInv'
      <3>1. /\ AskedInv /\ LocatedInv /\ OneText(Barred, manifest, Texts)
            /\ manifest # Lost /\ ClaimsInv /\ MemInv /\ WorkInv
        BY <1>0, <2>2, <2>3 DEF Certain, KnownInv, TextsInv
      <3> QED
        BY <1>1, <3>1, AskedByQuery
    <2> QED
      BY <2>2, <2>3 DEF SectionInv
  <1>2. CASE /\ Next /\ Disturbed /\ UNCHANGED <<library, enrich>>
             /\ raced' = (raced \/ (enrich.pc # "idle" /\ job'.stage # "idle"))
             /\ back' = back \cup ComingBack
    <2>1. Returning
      BY <1>2 DEF Returning
    <2> QED
      BY <1>b, <1>2, <2>1
  <1>3. CASE /\ EnrichNext /\ UNCHANGED <<query, back>>
             /\ raced' = (raced \/ (enrich'.pc # "idle" /\ job.stage # "idle"))
    <2>1. TextsInv' /\ (Certain' => Certain) /\ (Certain' => AskedInv')
          /\ UNCHANGED <<library, again>>
      BY <1>0, <1>3, TextsEnriched, EnrichStep DEF SoundInv
    <2>2. Barred' = Barred
      BY <1>3, <2>1 DEF Barred
    <2> QED
      BY <1>0, <1>3, <1>a, <2>1, <2>2 DEF SectionInv
  <1>4. CASE UNCHANGED queryVars
    BY <1>b, <1>c, <1>4 DEF queryVars, indexVars, vars
  <1> QED
    BY <1>1, <1>2, <1>3, <1>4 DEF QueryNext

\* A passage is given a section only of a tree of its own text, if it is of the content
\* that the manifest names: whatever is edited, ingested, removed and enriched after the
\* manifest was read, and whichever runs raised or were cut short before they had written,
\* if no manifest was lost and no enrichment met a run of those; of contents that came
\* again, or back to a source of which something was still about, nothing is said.
THEOREM SectionsFit == QuerySpec => []SectionFits
  <1> DEFINE Inv == SoundInv /\ RacedInv /\ KnownInv /\ SectionInv
  <1>1. QueryInit => Inv
    <2> SUFFICES ASSUME QueryInit PROVE Inv
      OBVIOUS
    <2>1. Init /\ enrich = NoEnricher /\ query = NoQuery /\ raced = FALSE
      BY DEF QueryInit
    <2>2. SoundInv
      BY QueryInitHas DEF SoundInv
    <2>3. RacedInv
      BY <2>1, NoEnricherIs DEF RacedInv
    <2>4. KnownInv
      <3>1. manifest # Lost
        BY <2>1, ManifestIsNotLost, NothingPartial DEF Init, Manifests
      <3> QED
        BY <2>1, <3>1, ClaimsInit, MemInit, BeforeInit, NoEnricherIs DEF KnownInv
    <2>5. /\ job.stage = "idle" /\ DOMAIN manifest = {} /\ DOMAIN disk.trees = {}
          /\ DOMAIN disk.pages = {} /\ DOMAIN disk.vectors = {} /\ enrich.pc = "idle"
      BY <2>1, IdleIs, NothingPartial, NoEnricherIs DEF Init, EmptyDisk
    <2>6. query.pc = "idle" /\ Gathered = {}
      BY <2>1, NoQueryIs, EmptyList DEF Gathered
    <2>7. StemmedInv /\ WholeInv
      BY <2>5 DEF StemmedInv, StemmedIn, WholeInv, WholeIn, Transaction
    <2>8. WorkInv
      BY <2>5 DEF WorkInv, EntriesFit, WorkFits, VectorsDone, PrunedFits, AtWork, Transaction,
                  Removal, PastVector
    <2>9. KeptInv
      <3>1. TreeTexts = {}
        BY <2>5 DEF TreeTexts, Transaction
      <3> QED
        BY <3>1 DEF KeptInv
    <2>10. OneText(Barred, manifest, Texts) /\ AskedInv /\ LocatedInv
      BY <2>5, <2>6 DEF OneText, AskedInv, Asking, LocatedInv
    <2> QED
      BY <2>2, <2>3, <2>4, <2>7, <2>8, <2>9, <2>10 DEF SectionInv, TextsInv
  <1>2. Inv /\ [QueryNext]_queryVars => Inv'
    <2> SUFFICES ASSUME Inv, [QueryNext]_queryVars PROVE Inv'
      OBVIOUS
    <2>1. SoundInv'
      BY SoundStep
    <2>2. RacedInv'
      BY NotRaced DEF RacedInv
    <2>3. KnownInv'
      BY KnownStep
    <2>4. SectionInv'
      BY SectionStep
    <2> QED
      BY <2>1, <2>2, <2>3, <2>4
  <1>3. Inv => SectionFits
    BY DEF SectionFits, SectionInv, Certain, LocatedInv, SectionIsOf, Gathered, ItemsOf, Barred
  <1> QED
    BY <1>1, <1>2, <1>3, PTL DEF QuerySpec
===============================================================================
