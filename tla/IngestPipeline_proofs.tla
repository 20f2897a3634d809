------------------------- MODULE IngestPipeline_proofs -------------------------
(***************************************************************************)
(* What the ingest pipeline guarantees, for any number of files, contents, *)
(* faults, losses and runs cut short: the invariant of a run, part by part, *)
(* and the theorems that follow from it.                                   *)
(***************************************************************************)
EXTENDS IngestPipeline, FiniteSetTheorems, WellFoundedInduction, TLAPS

-----------------------------------------------------------------------------
(* Sets in an order *)

\* The places 0, 1, ... of the elements of a finite set, each its own.
Placed(place) ==
    LET n == Cardinality(DOMAIN place) IN
    /\ n \in Nat
    /\ \A x \in DOMAIN place : place[x] \in 0 .. n - 1
    /\ \A x, y \in DOMAIN place : place[x] = place[y] => x = y
    /\ \A k \in 0 .. n - 1 : \E x \in DOMAIN place : place[x] = k

\* A strict order that is total on a set.
Orders(before, S) ==
    /\ \A x \in S : <<x, x>> \notin before
    /\ \A x, y, z \in S : <<x, y>> \in before /\ <<y, z>> \in before => <<x, z>> \in before
    /\ \A x, y \in S : x = y \/ <<x, y>> \in before \/ <<y, x>> \in before

\* Elements counted by those that come before them have such places.
LEMMA CountedApart ==
    ASSUME NEW S, IsFiniteSet(S), NEW before, Orders(before, S)
    PROVE  Placed([x \in S |-> Cardinality({y \in S : <<y, x>> \in before})])
  <1> DEFINE Lower(x) == {y \in S : <<y, x>> \in before}
             n     == Cardinality(S)
             place == [x \in S |-> Cardinality(Lower(x))]
  <1>0. /\ \A x \in S : <<x, x>> \notin before
        /\ \A x, y, z \in S : <<x, y>> \in before /\ <<y, z>> \in before => <<x, z>> \in before
        /\ \A x, y \in S : x = y \/ <<x, y>> \in before \/ <<y, x>> \in before
    BY DEF Orders
  <1>1. n \in Nat
    BY FS_CardinalityType
  <1>2. ASSUME NEW x \in S
        PROVE  /\ IsFiniteSet(Lower(x)) /\ Cardinality(Lower(x)) \in Nat
               /\ Cardinality(Lower(x)) < n
    <2>1. Lower(x) \in SUBSET S /\ x \notin Lower(x)
      BY <1>0
    <2>2. /\ IsFiniteSet(Lower(x)) /\ Cardinality(Lower(x)) <= n
          /\ n = Cardinality(Lower(x)) => S = Lower(x)
      BY <2>1, FS_Subset, Zenon
    <2>3. Cardinality(Lower(x)) \in Nat
      BY <2>2, FS_CardinalityType
    <2>4. n # Cardinality(Lower(x))
      BY <2>1, <2>2
    <2> HIDE DEF Lower, n
    <2> QED
      BY <1>1, <2>2, <2>3, <2>4
  <1>3. ASSUME NEW x \in S, NEW y \in S, <<x, y>> \in before
        PROVE  Cardinality(Lower(x)) # Cardinality(Lower(y))
    <2>1. Lower(x) \in SUBSET Lower(y)
      BY <1>0, <1>3
    <2>2. x \in Lower(y) /\ x \notin Lower(x)
      BY <1>0, <1>3
    <2>3. Cardinality(Lower(y)) = Cardinality(Lower(x)) => Lower(y) = Lower(x)
      BY <1>2, <2>1, FS_Subset, Zenon
    <2> QED
      BY <2>2, <2>3
  <1>4. \A x \in S : place[x] = Cardinality(Lower(x))
    OBVIOUS
  <1>5. \A x \in S : place[x] \in 0 .. n - 1
    <2> HIDE DEF Lower, n, place
    <2> QED
      BY <1>1, <1>2, <1>4
  <1>6. \A x, y \in S : place[x] = place[y] => x = y
    <2> HIDE DEF Lower, place
    <2> QED
      BY <1>0, <1>3, <1>4
  <1>7. place \in Injection(S, 0 .. n - 1)
    <2>1. place \in [S -> 0 .. n - 1]
      <3>1. place = [x \in S |-> place[x]]
        OBVIOUS
      <3> HIDE DEF place, n
      <3> QED
        BY <1>5, <3>1
    <2> HIDE DEF place, n
    <2> QED
      BY <1>6, <2>1 DEF Injection, IsInjective
  <1>8. IsFiniteSet(0 .. n - 1) /\ Cardinality(0 .. n - 1) = n
    <2> HIDE DEF n
    <2> QED
      BY <1>1, FS_Interval
  <1>9. place \in Surjection(S, 0 .. n - 1)
    <2> HIDE DEF place
    <2> QED
      BY <1>7, <1>8, FS_Injection
  <1>10. \A k \in 0 .. n - 1 : \E x \in S : place[x] = k
    BY <1>9 DEF Surjection
  <1>11. DOMAIN place = S
    OBVIOUS
  <1> HIDE DEF place
  <1>12. Placed(place)
    BY <1>1, <1>5, <1>6, <1>10, <1>11 DEF Placed
  <1> QED
    BY <1>12 DEF place

\* What can be told apart by the elements of a finite set has as many.
LEMMA MatchedCounts ==
    ASSUME NEW S, IsFiniteSet(S), NEW T, NEW f, DOMAIN f = S, f = [x \in S |-> f[x]],
           \A x \in S : f[x] \in T, \A x, y \in S : f[x] = f[y] => x = y,
           \A z \in T : \E x \in S : f[x] = z
    PROVE  Cardinality(T) = Cardinality(S)
  <1>1. f \in [S -> T]
    OBVIOUS
  <1>2. f \in Bijection(S, T)
    BY <1>1 DEF Bijection, Injection, Surjection, IsInjective
  <1>3. ExistsBijection(S, T)
    BY <1>2 DEF ExistsBijection
  <1> QED
    BY <1>3, FS_Bijection

\* There are finitely many values of a function on a finite set.
LEMMA FinitelyMany ==
    ASSUME NEW S, IsFiniteSet(S), NEW f, f = [x \in S |-> f[x]]
    PROVE  IsFiniteSet({f[x] : x \in S})
  <1> DEFINE T == {f[x] : x \in S}
  <1>1. f \in [S -> T]
    OBVIOUS
  <1>2. \A z \in T : \E x \in S : f[x] = z
    OBVIOUS
  <1> HIDE DEF T
  <1>3. f \in Surjection(S, T)
    BY <1>1, <1>2 DEF Surjection
  <1> QED
    BY <1>3, FS_Surjection DEF T

\* A set listed by such places: each of its elements stands at its own.
LEMMA ListedIs ==
    ASSUME NEW place, Placed(place)
    PROVE  LET n == Cardinality(DOMAIN place) IN
           /\ n \in Nat /\ Listed(place) \in Seq(DOMAIN place)
           /\ Len(Listed(place)) = n /\ DOMAIN Listed(place) = 1 .. n
           /\ \A k \in 1 .. n : Listed(place)[k] \in DOMAIN place /\ place[Listed(place)[k]] = k - 1
           /\ \A x \in DOMAIN place : place[x] + 1 \in 1 .. n /\ Listed(place)[place[x] + 1] = x
           /\ \A j, k \in 1 .. n : Listed(place)[j] = Listed(place)[k] => j = k
  <1> DEFINE n == Cardinality(DOMAIN place)
             D == DOMAIN place
             listed == Listed(place)
  <1>1. n \in Nat /\ \A x \in D : place[x] \in 0 .. n - 1
    BY DEF Placed
  <1>2. listed = [k \in 1 .. n |-> CHOOSE x \in D : place[x] = k - 1]
    BY DEF Listed
  <1>3. ASSUME NEW k \in 1 .. n PROVE listed[k] \in D /\ place[listed[k]] = k - 1
    <2>1. k - 1 \in 0 .. n - 1
      <3> HIDE DEF n
      <3> QED
        BY <1>1
    <2>2. \E x \in D : place[x] = k - 1
      BY <2>1 DEF Placed
    <2>3. listed[k] = CHOOSE x \in D : place[x] = k - 1
      BY <1>2
    <2> QED
      BY <2>2, <2>3
  <1>4. \A x, y \in D : place[x] = place[y] => x = y
    BY DEF Placed
  <1>5. DOMAIN listed = 1 .. n /\ listed \in [1 .. n -> D]
    <2> HIDE DEF n, D
    <2> QED
      BY <1>2, <1>3
  <1> HIDE DEF n, D, listed
  <1>6. listed \in Seq(D) /\ Len(listed) = n
    BY <1>1, <1>5
  <1>7. ASSUME NEW x \in D PROVE place[x] + 1 \in 1 .. n /\ listed[place[x] + 1] = x
    <2>1. place[x] \in 0 .. n - 1
      BY <1>1
    <2>2. PICK k \in 1 .. n : k = place[x] + 1 /\ k - 1 = place[x]
      BY <1>1, <2>1
    <2> QED
      BY <1>3, <1>4, <2>2
  <1>8. \A j, k \in 1 .. n : listed[j] = listed[k] => j = k
    <2> SUFFICES ASSUME NEW j \in 1 .. n, NEW k \in 1 .. n, listed[j] = listed[k] PROVE j = k
      OBVIOUS
    <2>1. j - 1 = k - 1
      BY <1>3
    <2> QED
      BY <1>1, <2>1
  <1> QED
    BY <1>1, <1>3, <1>5, <1>6, <1>7, <1>8 DEF n, D, listed

\* A set in the order of keys that no two of its elements share.
LEMMA InOrderIs ==
    ASSUME NEW key, IsFiniteSet(DOMAIN key), \A x \in DOMAIN key : key[x] \in Int,
           \A x, y \in DOMAIN key : key[x] = key[y] => x = y
    PROVE  LET n == Cardinality(DOMAIN key) IN
           /\ n \in Nat /\ InOrder(key) \in Seq(DOMAIN key)
           /\ Len(InOrder(key)) = n /\ DOMAIN InOrder(key) = 1 .. n
           /\ \A k \in 1 .. n : InOrder(key)[k] \in DOMAIN key
           /\ \A x \in DOMAIN key : \E k \in 1 .. n : InOrder(key)[k] = x
           /\ \A j, k \in 1 .. n : InOrder(key)[j] = InOrder(key)[k] => j = k
  <1> DEFINE S == DOMAIN key
             before == {p \in S \X S : key[p[1]] < key[p[2]]}
             place  == [x \in S |-> Below(key, x)]
  <1>1. \A x, y \in S : <<x, y>> \in before <=> key[x] < key[y]
    OBVIOUS
  <1>2. place = [x \in S |-> Cardinality({y \in S : <<y, x>> \in before})]
    <2>1. ASSUME NEW x \in S
          PROVE  {y \in S : key[y] < key[x]} = {y \in S : <<y, x>> \in before}
      BY <1>1
    <2> QED
      BY <2>1 DEF Below
  <1>3. Orders(before, S)
    <2> HIDE DEF before
    <2> QED
      BY <1>1 DEF Orders
  <1>4. Placed(place)
    <2>1. IsFiniteSet(S)
      OBVIOUS
    <2> HIDE DEF before, place, S
    <2> QED
      BY <1>2, <1>3, <2>1, CountedApart
  <1>5. DOMAIN place = S /\ InOrder(key) = Listed(place)
    BY DEF InOrder
  <1> HIDE DEF place
  <1>6. /\ Cardinality(S) \in Nat /\ InOrder(key) \in Seq(S)
        /\ Len(InOrder(key)) = Cardinality(S) /\ DOMAIN InOrder(key) = 1 .. Cardinality(S)
        /\ \A k \in 1 .. Cardinality(S) : InOrder(key)[k] \in S
        /\ \A x \in S : place[x] + 1 \in 1 .. Cardinality(S) /\ InOrder(key)[place[x] + 1] = x
        /\ \A j, k \in 1 .. Cardinality(S) : InOrder(key)[j] = InOrder(key)[k] => j = k
    <2>1. LET n == Cardinality(DOMAIN place) IN
          /\ n \in Nat /\ Listed(place) \in Seq(DOMAIN place)
          /\ Len(Listed(place)) = n /\ DOMAIN Listed(place) = 1 .. n
          /\ \A k \in 1 .. n : Listed(place)[k] \in DOMAIN place
          /\ \A x \in DOMAIN place : place[x] + 1 \in 1 .. n /\ Listed(place)[place[x] + 1] = x
          /\ \A j, k \in 1 .. n : Listed(place)[j] = Listed(place)[k] => j = k
      BY <1>4, ListedIs
    <2> HIDE DEF S
    <2> QED
      BY <1>5, <2>1
  <1> QED
    BY <1>6

\* The files are finitely many, and each has a place of its own.
LEMMA PlacesApart ==
    /\ IsFiniteSet(Files)
    /\ \A f \in Files : Place(f) \in Nat /\ FileOrder[Place(f)] = f
  <1>1. FileOrder \in Seq(Files) /\ Len(FileOrder) \in Nat
    BY FilesAssumption
  <1>2. ASSUME NEW f \in Files PROVE Place(f) \in Nat /\ FileOrder[Place(f)] = f
    <2>1. \E i \in 1 .. Len(FileOrder) : FileOrder[i] = f
      BY DEF Files
    <2>2. Place(f) \in 1 .. Len(FileOrder) /\ FileOrder[Place(f)] = f
      BY <2>1 DEF Place
    <2> QED
      BY <1>1, <2>2
  <1>3. IsFiniteSet(Files)
    <2>1. IsFiniteSet(1 .. Len(FileOrder))
      BY <1>1, FS_Interval
    <2>2. FileOrder \in Surjection(1 .. Len(FileOrder), Files)
      BY <1>1 DEF Surjection, Files
    <2> QED
      BY <2>1, <2>2, FS_Surjection
  <1> QED
    BY <1>2, <1>3

\* A sorted set holds each of its elements once, and nothing else.
LEMMA SortedIs ==
    ASSUME NEW S \in SUBSET Files
    PROVE  /\ Cardinality(S) \in Nat /\ DOMAIN Sorted(S) = 1 .. Cardinality(S)
           /\ Sorted(S) \in Seq(S)
           /\ \A i \in DOMAIN Sorted(S) : Sorted(S)[i] \in S
           /\ \A f \in S : \E i \in DOMAIN Sorted(S) :
                 \A j \in DOMAIN Sorted(S) : Sorted(S)[j] = f <=> j = i
  <1> DEFINE key == [f \in S |-> Place(f)]
  <1>1. IsFiniteSet(S)
    BY PlacesApart, FS_Subset
  <1>2. /\ DOMAIN key = S
        /\ \A f \in S : key[f] \in Int
        /\ \A f, g \in S : key[f] = key[g] => f = g
    BY PlacesApart
  <1>3. Sorted(S) = InOrder(key)
    BY DEF Sorted
  <1> HIDE DEF key
  <1>4. /\ Cardinality(S) \in Nat /\ InOrder(key) \in Seq(S)
        /\ DOMAIN InOrder(key) = 1 .. Cardinality(S)
        /\ \A k \in 1 .. Cardinality(S) : InOrder(key)[k] \in S
        /\ \A f \in S : \E k \in 1 .. Cardinality(S) : InOrder(key)[k] = f
        /\ \A j, k \in 1 .. Cardinality(S) : InOrder(key)[j] = InOrder(key)[k] => j = k
    BY <1>1, <1>2, InOrderIs
  <1> QED
    BY <1>3, <1>4

-----------------------------------------------------------------------------
(* Types *)

Partial(A, B) == UNION {[K -> B] : K \in SUBSET A}

Manifests == Partial(Files, Entries)

\* Trees made by rule, and those that an enrichment has made of them: these have
\* summaries, of some text.
Trees == {tree \in [of : Files, sha : Contents, text : Contents,
                    by : {"rule", "filled", "thirds", "sections"},
                    from : Contents \cup {None, Gone}] :
              tree.by = "rule" <=> tree.from = None}

Layers == [trees : Partial(Stems, Trees), raw : Partial(Files, Contents),
           pages : Partial(Slugs, Artifacts \cup {Torn}), index : SUBSET Slugs,
           graph : Partial(Files, Contents), vectors : Partial(Contents, Artifacts)]

\* "fix" is the one stage of lint.
Stages == {"idle", "pick", "parse", "sweep", "forget", "prune", "fix"}
          \cup Transaction \cup Removal

\* What lint can plan to fix.
FixNames == {"rebuild_index", "prune_orphan_vector_chunks", "prune_orphan_graph"}
Fixes == [name : FixNames, ids : SUBSET (Slugs \cup Contents \cup Files)]

Jobs == [stage : Stages, todo : SUBSET Files, listed : SUBSET Files, prune : BOOLEAN,
         file : Files \cup {None}, sha : Contents \cup {None},
         text : Contents \cup {None}, slug : Slugs \cup {None},
         existing : Entries \cup {None}, before : Layers, plan : SUBSET Fixes]

Counts == [edits : Nat, faults : Nat, cuts : Nat, losses : Nat]

TypeInv ==
    /\ source \in [Files -> Contents \cup {Gone}]
    /\ again \subseteq Contents
    /\ disk \in Layers /\ IsFiniteSet(DOMAIN disk.pages)
    /\ manifest \in Manifests \cup {Lost}
    /\ mem \in Manifests
    /\ job \in Jobs
    /\ count \in Counts

\* The stages past each step of the transaction.
PastVector == {"commit", "sweep"}
PastGraph  == {"vector"} \cup PastVector
PastIndex  == {"graph"} \cup PastGraph
PastPage   == {"index"} \cup PastIndex
PastCopy   == {"page"} \cup PastPage
PastTree   == {"copy"} \cup PastCopy

\* The locals that are set at a stage.
LocalsInv ==
    /\ job.stage \in {"parse", "sweep", "forget"} \cup Transaction \cup Removal
          => job.file \in Files
    /\ job.stage \in {"parse", "sweep"} \cup Transaction
          => job.sha \in Contents /\ job.file \in job.todo
    /\ job.stage \in {"sweep"} \cup Transaction => job.text \in Textual
    /\ job.stage \in PastPage => job.slug \in Slugs
    /\ job.stage \in {"forget"} \cup Removal =>
          /\ job.existing \in Entries
          /\ job.todo # {} => job.file \in job.todo
          /\ job.todo = {} => job.sha = None /\ job.stage # "forget"
    /\ job.stage \in {"pick", "prune"} => job.sha = None
    /\ job.stage = "prune" => job.todo = {}
    /\ job.todo \subseteq job.listed
    /\ job.stage = "idle" => job = Idle /\ mem = Nothing

-----------------------------------------------------------------------------
(* Contents belong to one file *)

\* What has not come again is known of one file only.
ClaimsInv ==
    \A f \in Files, c \in Contents \ again :
        Owns(f, c) => \A g \in Files : Owns(g, c) => g = f

-----------------------------------------------------------------------------
(* A run *)

\* The manifest of the run is the one on disk, until entries are pruned.
MemInv ==
    /\ job.stage # "idle" => manifest # Lost
    /\ job.stage # "idle" =>
          \A f \in DOMAIN mem : f \in DOMAIN manifest /\ manifest[f] = mem[f]
    /\ job.stage \in {"pick", "parse", "sweep", "forget"} \cup Transaction => mem = manifest
    /\ job.stage \in Removal /\ job.todo # {} => mem = manifest
    /\ job.stage \in {"parse"} \cup Transaction =>
          job.existing = IF job.file \in DOMAIN mem THEN mem[job.file] ELSE None
    /\ job.stage = "sweep" =>
          job.file \in DOMAIN mem /\ mem[job.file] = Entry(job.sha, job.slug)
    /\ job.stage \in PastPage /\ HasEntry(job.existing) => job.slug = job.existing.page
    /\ job.stage \in Removal \cup {"forget"} =>
          /\ job.todo # {} => job.file \in DOMAIN mem /\ mem[job.file] = job.existing
          /\ job.todo = {} => job.file \notin DOMAIN mem \cup job.listed

\* What a run has written of a source.
DoneInv ==
    /\ job.stage \in PastTree =>
          /\ StemOf[job.file] \in DOMAIN disk.trees
          /\ disk.trees[StemOf[job.file]] = Tree(job.file, job.sha, job.text)
    /\ job.stage \in PastCopy =>
          /\ job.file \in DOMAIN disk.raw
          /\ (source[job.file] = job.sha /\ job.sha \notin again
                => disk.raw[job.file] = job.sha)
    /\ job.stage \in PastPage =>
          /\ job.slug \in DOMAIN disk.pages
          /\ disk.pages[job.slug] = Artifact(job.file, job.text)
    /\ job.stage \in PastGraph =>
          job.file \in DOMAIN disk.graph /\ disk.graph[job.file] = job.text
    /\ job.stage \in PastVector =>
          /\ job.sha \in DOMAIN disk.vectors
          /\ disk.vectors[job.sha] = Artifact(job.file, job.text)

\* The layers of a transaction are those before it, with its writes so far.
BeforeInv ==
    job.stage \in {"sweep"} \cup Transaction =>
        LET before == job.before
            f      == job.file
        IN
        /\ disk.trees = IF job.stage \in PastTree
                        THEN Put(before.trees, StemOf[f], Tree(f, job.sha, job.text))
                        ELSE before.trees
        /\ disk.raw = IF job.stage \in PastCopy
                      THEN Put(before.raw, f, disk.raw[f]) ELSE before.raw
        /\ disk.pages = IF job.stage \in PastPage
                        THEN Put(before.pages, job.slug, Artifact(f, job.text))
                        ELSE before.pages
        /\ disk.index = IF job.stage \in PastIndex THEN DOMAIN disk.pages ELSE before.index
        /\ disk.graph = IF job.stage \in PastGraph THEN Put(before.graph, f, job.text)
                        ELSE before.graph
        /\ disk.vectors = IF job.stage \in PastVector
                          THEN Put(before.vectors, job.sha, Artifact(f, job.text))
                          ELSE before.vectors
        /\ job.stage \in PastPage =>
              /\ HasEntry(job.existing) => job.slug = job.existing.page
              /\ ~HasEntry(job.existing) => job.slug \notin DOMAIN before.pages

\* If the source is still as it was hashed, the text is that of the hash.
TextInv ==
    job.stage \in {"sweep"} \cup Transaction /\ source[job.file] = job.sha
    /\ job.sha \notin again
        => job.text = job.sha

\* A source in work does not look unchanged before its vectors are written.
NotYetInv ==
    /\ (job.stage \in {"parse"} \cup Transaction /\ HasEntry(job.existing)
         /\ job.existing.sha = source[job.file] /\ job.existing.sha \notin again) =>
          /\ job.existing.sha = job.sha
          /\ (job.stage # "commit") => job.existing.sha \notin DOMAIN disk.vectors
    /\ job.stage \in {"forget"} \cup Removal /\ source[job.file] \in Textual \ again =>
          job.existing.sha # source[job.file]
    /\ job.stage \notin {"idle", "fix"} =>
          \A f \in DOMAIN manifest \ job.listed :
              manifest[f].sha \notin again => manifest[f].sha # source[f]

\* No page that a run writes or removes for a source is that of the entry of
\* another.
Apart ==
    manifest # Lost =>
        \A g \in DOMAIN manifest \ {job.file} :
            manifest[g].page \in DOMAIN disk.pages =>
                /\ job.stage = "page" => PageSlug # manifest[g].page
                /\ job.stage \in PastPage => job.slug # manifest[g].page
                /\ job.stage \in {"forget"} \cup Removal =>
                      job.existing.page # manifest[g].page

\* What would be skipped as unchanged is what the layers hold.
SafeInv ==
    manifest # Lost =>
        \A f \in DOMAIN manifest :
            source[f] \in Textual \ again /\ CanSkip(manifest[f], source[f]) => Held(f, manifest[f])

\* No two files share the name of their tree.
StemsApart == \A f, g \in Files : StemOf[f] = StemOf[g] => f = g

\* The pages of a source carry its title.
TitleInv ==
    /\ manifest # Lost =>
          \A f \in DOMAIN manifest : Derived(manifest[f]) => manifest[f].page[1] = TitleOf[f]
    /\ \A f \in DOMAIN mem : Derived(mem[f]) => mem[f].page[1] = TitleOf[f]
    /\ job.stage \in PastPage => job.slug[1] = TitleOf[job.file]
    /\ HasEntry(job.existing) => job.existing.page[1] = TitleOf[job.file]
-----------------------------------------------------------------------------
(* Functions on what they hold *)

\* A partial function is a function on a subset.
LEMMA PartialFacts ==
    ASSUME NEW A, NEW B, NEW d \in Partial(A, B)
    PROVE  /\ DOMAIN d \subseteq A
           /\ d = [i \in DOMAIN d |-> d[i]]
           /\ \A i \in DOMAIN d : d[i] \in B
    BY DEF Partial

\* A function on some keys is a partial one.
LEMMA PartialIs ==
    ASSUME NEW A, NEW B, NEW d,
           DOMAIN d \subseteq A, d = [i \in DOMAIN d |-> d[i]],
           \A i \in DOMAIN d : d[i] \in B
    PROVE  d \in Partial(A, B)
  <1>1. d \in [DOMAIN d -> B]
    OBVIOUS
  <1> QED
    BY <1>1 DEF Partial

\* The empty function is one.
LEMMA NothingPartial ==
    ASSUME NEW A, NEW B
    PROVE  Nothing \in Partial(A, B) /\ DOMAIN Nothing = {}
    BY PartialIs DEF Nothing

\* Put sets one value and keeps the others.
LEMMA PutFacts ==
    ASSUME NEW d, NEW k, NEW x
    PROVE  /\ DOMAIN Put(d, k, x) = DOMAIN d \cup {k}
           /\ Put(d, k, x)[k] = x
           /\ \A i \in DOMAIN d : i # k => Put(d, k, x)[i] = d[i]
    BY DEF Put

\* Putting a value in place keeps the type of a directory.
LEMMA PutPartial ==
    ASSUME NEW A, NEW B, NEW d \in Partial(A, B), NEW k \in A, NEW x \in B
    PROVE  Put(d, k, x) \in Partial(A, B)
  <1>1. DOMAIN d \subseteq A /\ \A i \in DOMAIN d : d[i] \in B
    BY PartialFacts
  <1>2. Put(d, k, x) = [i \in DOMAIN Put(d, k, x) |-> Put(d, k, x)[i]]
    BY DEF Put
  <1>3. \A i \in DOMAIN Put(d, k, x) : Put(d, k, x)[i] \in B
    BY <1>1 DEF Put
  <1> QED
    <2>1. DOMAIN Put(d, k, x) \subseteq A
      BY <1>1 DEF Put
    <2> DEFINE e == Put(d, k, x)
    <2>2. DOMAIN e \subseteq A /\ e = [i \in DOMAIN e |-> e[i]] /\ \A i \in DOMAIN e : e[i] \in B
      BY <1>2, <1>3, <2>1
    <2> HIDE DEF e
    <2>3. e \in Partial(A, B)
      BY <2>2, PartialIs
    <2> QED
      BY <2>3 DEF e

\* Drop removes keys and keeps the other values.
LEMMA DropFacts ==
    ASSUME NEW d, NEW K
    PROVE  /\ DOMAIN Drop(d, K) = DOMAIN d \ K
           /\ \A i \in DOMAIN d \ K : Drop(d, K)[i] = d[i]
    BY DEF Drop

\* So does dropping keys.
LEMMA DropPartial ==
    ASSUME NEW A, NEW B, NEW d \in Partial(A, B), NEW K
    PROVE  Drop(d, K) \in Partial(A, B)
  <1>1. DOMAIN d \subseteq A /\ \A i \in DOMAIN d : d[i] \in B
    BY PartialFacts
  <1>2. Drop(d, K) = [i \in DOMAIN Drop(d, K) |-> Drop(d, K)[i]]
    BY DEF Drop
  <1>3. \A i \in DOMAIN Drop(d, K) : Drop(d, K)[i] \in B
    BY <1>1 DEF Drop
  <1> QED
    <2>1. DOMAIN Drop(d, K) \subseteq A
      BY <1>1, DropFacts
    <2> QED
      BY <1>2, <1>3, <2>1, PartialIs

\* What was put is taken back by putting the old value, or by dropping the key.
LEMMA PutBack ==
    ASSUME NEW A, NEW B, NEW d \in Partial(A, B), NEW k, NEW x
    PROVE  /\ k \in DOMAIN d => Put(Put(d, k, x), k, d[k]) = d
           /\ k \notin DOMAIN d => Drop(Put(d, k, x), {k}) = d
  <1>1. d = [i \in DOMAIN d |-> d[i]]
    BY PartialFacts
  <1> QED
    BY <1>1 DEF Put, Drop

\* Dropping what is not there changes nothing.
LEMMA DropAbsent ==
    ASSUME NEW A, NEW B, NEW d \in Partial(A, B), NEW k, k \notin DOMAIN d
    PROVE  Drop(d, {k}) = d
  <1>1. d = [i \in DOMAIN d |-> d[i]]
    BY PartialFacts
  <1> QED
    BY <1>1 DEF Drop

\* The same for a value put in place of itself.
LEMMA PutSame ==
    ASSUME NEW A, NEW B, NEW d \in Partial(A, B), NEW k \in DOMAIN d
    PROVE  Put(d, k, d[k]) = d
  <1>1. d = [i \in DOMAIN d |-> d[i]]
    BY PartialFacts
  <1> QED
    BY <1>1 DEF Put

-----------------------------------------------------------------------------
(* Slugs *)

\* One of the first numbers is always free.
LEMMA SomeFree ==
    ASSUME NEW pages, IsFiniteSet(pages), NEW title
    PROVE  \E n \in 1 .. Cardinality(pages) + 1 : <<title, n>> \notin pages
  <1> DEFINE k == Cardinality(pages)
             numbers == 1 .. k + 1
  <1> SUFFICES ASSUME \A n \in numbers : <<title, n>> \in pages PROVE FALSE
    OBVIOUS
  <1>1. k \in Nat
    BY FS_CardinalityType
  <1>2. IsFiniteSet(numbers) /\ Cardinality(numbers) = k + 1
    <2>1. 1 \in Int /\ k + 1 \in Int /\ ~(1 > k + 1)
      BY <1>1
    <2>2. Cardinality(numbers) = (k + 1) - 1 + 1
      BY <2>1, FS_Interval
    <2> HIDE DEF k
    <2> QED
      BY <1>1, <2>1, <2>2, FS_Interval
  <1> DEFINE f == [n \in numbers |-> <<title, n>>]
  <1>3. f \in [numbers -> pages]
    OBVIOUS
  <1>4. \A x, y \in numbers : x # y => f[x] # f[y]
    OBVIOUS
  <1> HIDE DEF f, numbers, k
  <1>5. Cardinality(pages) < Cardinality(numbers)
    BY <1>1, <1>2 DEF k
  <1> QED
    BY <1>2, <1>3, <1>4, <1>5, FS_PigeonHole

\* Every set of numbers that is not empty has a least one.
LEMMA LeastExists ==
    ASSUME NEW S \in SUBSET Nat, S # {}
    PROVE  \E n \in S : \A m \in S : n <= m
  <1> DEFINE less == {p \in Nat \X Nat : p[1] < p[2]}
  <1>1. IsWellFoundedOn(less, Nat)
    BY NatLessThanWellFounded DEF OpToRel
  <1>2. \A m, n \in S : m < n => <<m, n>> \in less
    OBVIOUS
  <1> HIDE DEF less
  <1>3. PICK n \in S : \A m \in S : <<m, n>> \notin less
    BY <1>1, WFMin
  <1>4. \A m \in S : ~(m < n)
    BY <1>2, <1>3
  <1> QED
    BY <1>4

\* next_slug yields a slug of the title that no page has.
LEMMA NextSlugFree ==
    ASSUME NEW title \in {TitleOf[f] : f \in Files}, IsFiniteSet(DOMAIN disk.pages)
    PROVE  /\ NextSlug(title) \in Slugs
           /\ NextSlug(title)[1] = title
           /\ NextSlug(title) \notin DOMAIN disk.pages
  <1> DEFINE pages == DOMAIN disk.pages
             k     == Cardinality(pages)
             taken == {n \in 1 .. k : <<title, n>> \in pages}
             free  == (1 .. k + 1) \ taken
             least == CHOOSE n \in free : \A m \in free : n <= m
  <1>1. k \in Nat
    BY FS_CardinalityType
  <1>2. PICK n \in 1 .. k + 1 : <<title, n>> \notin pages
    BY SomeFree
  <1>3. free \in SUBSET Nat /\ free # {}
    BY <1>1, <1>2
  <1>4. least \in free
    <2> HIDE DEF free
    <2> QED
      BY <1>3, LeastExists
  <1>5. least \in 1 .. k + 1 /\ least \notin taken
    BY <1>4
  <1> HIDE DEF least, k, free
  <1>6. <<title, least>> \notin pages
    <2>1. CASE least \in 1 .. k
      BY <2>1, <1>5
    <2>2. CASE least = k + 1
      <3>1. ASSUME <<title, k + 1>> \in pages PROVE FALSE
        <4>1. \A i \in 1 .. k : i \in taken \/ i \in free
          BY <1>1 DEF free
        <4>2. \A i \in 1 .. k : i \in taken
          <5> SUFFICES ASSUME NEW i \in 1 .. k, i \in free PROVE FALSE
            BY <4>1
          <5>1. least <= i
            BY <1>3, LeastExists DEF least
          <5> QED
            BY <5>1, <2>2, <1>1
        <4>3. n \in 1 .. k \/ n = k + 1
          BY <1>1
        <4> QED
          BY <4>2, <4>3, <1>2, <3>1
      <3> QED
        BY <3>1, <2>2
    <2> QED
      BY <1>5, <1>1, <2>1, <2>2
  <1>7. NextSlug(title) = <<title, least>>
    BY DEF NextSlug, least, free, k
  <1>8. least \in Nat \ {0}
    BY <1>5, <1>1
  <1> QED
    BY <1>6, <1>7, <1>8 DEF Slugs

-----------------------------------------------------------------------------
(* Moves of a run *)

\* The empty layers are layers.
LEMMA EmptyDiskType ==
    EmptyDisk \in Layers /\ DOMAIN EmptyDisk.raw = {} /\ DOMAIN EmptyDisk.pages = {}
  <1>1. /\ Nothing \in Partial(Stems, Trees) /\ Nothing \in Partial(Files, Contents)
        /\ Nothing \in Partial(Slugs, Artifacts \cup {Torn})
        /\ Nothing \in Partial(Contents, Artifacts)
        /\ DOMAIN Nothing = {}
    BY NothingPartial
  <1> HIDE DEF Nothing
  <1> QED
    BY <1>1 DEF EmptyDisk, Layers

\* No run is under way.
LEMMA IdleIs ==
    /\ Idle \in Jobs
    /\ Idle.stage = "idle" /\ Idle.todo = {} /\ Idle.listed = {} /\ Idle.file = None
    /\ Idle.sha = None /\ Idle.text = None /\ Idle.slug = None
    /\ Idle.existing = None /\ Idle.before = EmptyDisk
  <1>1. EmptyDisk \in Layers
    BY EmptyDiskType
  <1> HIDE DEF EmptyDisk
  <1> QED
    BY <1>1 DEF Idle, Jobs, Stages

\* A step within a file keeps all locals but the stage.
LEMMA Staying ==
    ASSUME job \in Jobs, NEW s \in Stages, GoTo(s)
    PROVE  /\ job' \in Jobs /\ job'.stage = s
           /\ job'.todo = job.todo /\ job'.listed = job.listed /\ job'.prune = job.prune
           /\ job'.file = job.file /\ job'.sha = job.sha /\ job'.text = job.text
           /\ job'.slug = job.slug /\ job'.existing = job.existing
           /\ job'.before = job.before
    BY DEF GoTo, Jobs

\* The next file starts without the locals of the last.
LEMMA Moving ==
    ASSUME job \in Jobs, NEW f, NextFile(f)
    PROVE  /\ job' \in Jobs /\ job'.stage = "pick"
           /\ job'.todo = job.todo \ {f} /\ job'.listed = job.listed
           /\ job'.prune = job.prune
           /\ job'.file = None /\ job'.sha = None /\ job'.text = None
           /\ job'.slug = None /\ job'.existing = None /\ job'.before = EmptyDisk
  <1>1. Idle \in Jobs /\ Idle.file = None /\ Idle.sha = None /\ Idle.text = None
        /\ Idle.slug = None /\ Idle.existing = None /\ Idle.before = EmptyDisk
    BY IdleIs
  <1>2. job.todo \ {f} \in SUBSET Files /\ job.listed \in SUBSET Files
        /\ job.prune \in BOOLEAN
    BY DEF Jobs
  <1> HIDE DEF Idle
  <1> QED
    BY <1>1, <1>2 DEF NextFile, Jobs, Stages

\* A run that ends leaves nothing in memory.
LEMMA Ending ==
    ASSUME EndRun
    PROVE  job' = Idle /\ mem' = Nothing /\ mem' \in Manifests /\ DOMAIN mem' = {}
  <1>1. Nothing \in Manifests /\ DOMAIN Nothing = {}
    BY NothingPartial DEF Manifests
  <1> HIDE DEF Nothing
  <1> QED
    BY <1>1 DEF EndRun

\* The layers are kept apart: each has the type of its own.
LEMMA LayersHave ==
    ASSUME NEW d \in Layers
    PROVE  /\ d.trees \in Partial(Stems, Trees)
           /\ d.raw \in Partial(Files, Contents)
           /\ d.pages \in Partial(Slugs, Artifacts \cup {Torn})
           /\ d.index \in SUBSET Slugs
           /\ d.graph \in Partial(Files, Contents)
           /\ d.vectors \in Partial(Contents, Artifacts)
           /\ d = [trees |-> d.trees, raw |-> d.raw, pages |-> d.pages,
                   index |-> d.index, graph |-> d.graph, vectors |-> d.vectors]
    BY DEF Layers

\* Six typed layers make a disk.
LEMMA LayersAre ==
    ASSUME NEW t \in Partial(Stems, Trees), NEW r \in Partial(Files, Contents),
           NEW p \in Partial(Slugs, Artifacts \cup {Torn}), NEW i \in SUBSET Slugs,
           NEW g \in Partial(Files, Contents), NEW v \in Partial(Contents, Artifacts)
    PROVE  [trees |-> t, raw |-> r, pages |-> p, index |-> i, graph |-> g, vectors |-> v]
              \in Layers
    BY DEF Layers

\* A change of one layer leaves the others as they are.
LEMMA OnlyTrees ==
    ASSUME NEW d \in Layers, NEW x \in Partial(Stems, Trees),
           NEW e, e = [d EXCEPT !.trees = x]
    PROVE  /\ e \in Layers /\ e.trees = x
           /\ e.raw = d.raw /\ e.pages = d.pages /\ e.index = d.index
           /\ e.graph = d.graph /\ e.vectors = d.vectors
    BY DEF Layers

\* ... of the raw copies,
LEMMA OnlyRaw ==
    ASSUME NEW d \in Layers, NEW x \in Partial(Files, Contents),
           NEW e, e = [d EXCEPT !.raw = x]
    PROVE  /\ e \in Layers /\ e.raw = x
           /\ e.trees = d.trees /\ e.pages = d.pages /\ e.index = d.index
           /\ e.graph = d.graph /\ e.vectors = d.vectors
    BY DEF Layers

\* ... of the pages,
LEMMA OnlyPages ==
    ASSUME NEW d \in Layers, NEW x \in Partial(Slugs, Artifacts \cup {Torn}),
           NEW e, e = [d EXCEPT !.pages = x]
    PROVE  /\ e \in Layers /\ e.pages = x
           /\ e.trees = d.trees /\ e.raw = d.raw /\ e.index = d.index
           /\ e.graph = d.graph /\ e.vectors = d.vectors
    BY DEF Layers

\* ... of the index,
LEMMA OnlyIndex ==
    ASSUME NEW d \in Layers, NEW x \in SUBSET Slugs,
           NEW e, e = [d EXCEPT !.index = x]
    PROVE  /\ e \in Layers /\ e.index = x
           /\ e.trees = d.trees /\ e.raw = d.raw /\ e.pages = d.pages
           /\ e.graph = d.graph /\ e.vectors = d.vectors
    BY DEF Layers

\* ... of the graph,
LEMMA OnlyGraph ==
    ASSUME NEW d \in Layers, NEW x \in Partial(Files, Contents),
           NEW e, e = [d EXCEPT !.graph = x]
    PROVE  /\ e \in Layers /\ e.graph = x
           /\ e.trees = d.trees /\ e.raw = d.raw /\ e.pages = d.pages
           /\ e.index = d.index /\ e.vectors = d.vectors
    BY DEF Layers

\* ... of the vectors.
LEMMA OnlyVectors ==
    ASSUME NEW d \in Layers, NEW x \in Partial(Contents, Artifacts),
           NEW e, e = [d EXCEPT !.vectors = x]
    PROVE  /\ e \in Layers /\ e.vectors = x
           /\ e.trees = d.trees /\ e.raw = d.raw /\ e.pages = d.pages
           /\ e.index = d.index /\ e.graph = d.graph
    BY DEF Layers

-----------------------------------------------------------------------------
(* What the steps do: the fields they set, and those they leave *)

LocalsKept ==
    /\ job'.todo = job.todo /\ job'.listed = job.listed /\ job'.prune = job.prune
    /\ job'.file = job.file /\ job'.sha = job.sha /\ job'.text = job.text
    /\ job'.slug = job.slug /\ job'.existing = job.existing
    /\ job'.before = job.before

\* The file worked on is done, and the run goes on.
Moved ==
    /\ job'.stage = "pick" /\ job'.todo = job.todo \ {job.file}
    /\ job'.listed = job.listed /\ job'.prune = job.prune
    /\ job'.file = None /\ job'.sha = None /\ job'.text = None
    /\ job'.slug = None /\ job'.existing = None /\ job'.before = EmptyDisk

\* What lies within a finite set and one more element is finite.
LEMMA FiniteWithin ==
    ASSUME NEW S, IsFiniteSet(S), NEW T, NEW x, T \subseteq S \cup {x}
    PROVE  IsFiniteSet(T)
  <1>1. IsFiniteSet(S \cup {x})
    BY FS_AddElement
  <1>2. T \in SUBSET (S \cup {x})
    OBVIOUS
  <1> QED
    BY <1>1, <1>2, FS_Subset

\* An entry made of typed parts has them.
LEMMA EntryType ==
    ASSUME NEW sha \in Contents, NEW page \in Slugs \cup {None}
    PROVE  /\ Entry(sha, page) \in Entries
           /\ Entry(sha, page).sha = sha /\ Entry(sha, page).page = page
    BY DEF Entry, Entries

\* An entry is no mark, and is derived if it names a page.
LEMMA EntryHas ==
    ASSUME NEW e \in Entries
    PROVE  /\ e # None /\ e.sha \in Contents /\ e.page \in Slugs \cup {None}
           /\ Derived(e) <=> e.page \in Slugs
           /\ HasEntry(e) <=> Derived(e)
    BY MarksAssumption DEF Entries, Derived, HasEntry

\* An artifact is not a torn page.
LEMMA ArtifactType ==
    ASSUME NEW f \in Files, NEW text \in Contents
    PROVE  /\ Artifact(f, text) \in Artifacts
           /\ Artifact(f, text).of = f /\ Artifact(f, text).text = text
           /\ Artifact(f, text) # Torn
    BY MarksAssumption DEF Artifact, Artifacts

\* A tree made of typed parts has them.
LEMMA TreeType ==
    ASSUME NEW f \in Files, NEW sha \in Contents, NEW text \in Contents
    PROVE  /\ Tree(f, sha, text) \in Trees
           /\ Tree(f, sha, text).of = f /\ Tree(f, sha, text).sha = sha
           /\ Tree(f, sha, text).text = text /\ Tree(f, sha, text).by = "rule"
    BY DEF Tree, Trees

\* The entries of a manifest are those of files.
LEMMA EntryOf ==
    ASSUME NEW m \in Manifests, NEW f \in DOMAIN m
    PROVE  f \in Files /\ m[f] \in Entries
    BY PartialFacts DEF Manifests

\* A manifest is not the mark of a lost one.
LEMMA ManifestIsNotLost ==
    ASSUME NEW m \in Manifests
    PROVE  m # Lost
    BY MarksAssumption DEF Manifests, Partial

\* The types of the locals.
LEMMA JobHas ==
    ASSUME job \in Jobs
    PROVE  /\ job.stage \in Stages /\ job.todo \in SUBSET Files
           /\ job.listed \in SUBSET Files /\ job.prune \in BOOLEAN
           /\ job.file \in Files \cup {None} /\ job.sha \in Contents \cup {None}
           /\ job.text \in Contents \cup {None} /\ job.slug \in Slugs \cup {None}
           /\ job.existing \in Entries \cup {None} /\ job.before \in Layers
    BY DEF Jobs

\* What has a text is a content.
LEMMA TextualIsContent == Textual \subseteq Contents
    BY DEF Textual

\* The page a source is written to: that of its entry, or a free one.
LEMMA PageSlugIs ==
    ASSUME TypeInv, job.file \in Files
    PROVE  /\ PageSlug \in Slugs
           /\ HasEntry(job.existing) => PageSlug = job.existing.page
           /\ ~HasEntry(job.existing) => /\ PageSlug \notin DOMAIN disk.pages
                                         /\ PageSlug[1] = TitleOf[job.file]
  <1>1. CASE HasEntry(job.existing)
    <2>1. job.existing \in Entries
      BY <1>1, JobHas DEF TypeInv, HasEntry
    <2> QED
      BY <1>1, <2>1, EntryHas DEF PageSlug
  <1>2. CASE ~HasEntry(job.existing)
    <2>1. TitleOf[job.file] \in {TitleOf[f] : f \in Files}
      OBVIOUS
    <2> QED
      BY <1>2, <2>1, NextSlugFree DEF PageSlug, TypeInv
  <1> QED
    BY <1>1, <1>2

\* The tree is saved.
LEMMA SaveTreeDoes ==
    ASSUME TypeInv, LocalsInv, SaveTree
    PROVE  /\ job.stage = "tree" /\ job'.stage = "copy" /\ LocalsKept
           /\ job' \in Jobs /\ disk' \in Layers
           /\ IsFiniteSet(DOMAIN disk'.pages)
           /\ disk'.trees = Put(disk.trees, StemOf[job.file], Tree(job.file, job.sha, job.text))
           /\ disk'.raw = disk.raw /\ disk'.pages = disk.pages /\ disk'.index = disk.index
           /\ disk'.graph = disk.graph /\ disk'.vectors = disk.vectors
           /\ UNCHANGED <<source, again, manifest, mem, count>>
  <1>1. /\ job.stage = "tree" /\ GoTo("copy")
        /\ UNCHANGED <<source, again, manifest, mem, count>>
        /\ disk' = [disk EXCEPT !.trees = Put(@, StemOf[job.file], Tree(job.file, job.sha, job.text))]
    BY DEF SaveTree, Write
  <1>2. /\ job.file \in Files /\ job.sha \in Contents /\ job.text \in Contents
        /\ disk.trees \in Partial(Stems, Trees) /\ StemOf[job.file] \in Stems
    BY <1>1, TextualIsContent, LayersHave DEF TypeInv, LocalsInv, Transaction, Stems
  <1>3. Put(disk.trees, StemOf[job.file], Tree(job.file, job.sha, job.text)) \in Partial(Stems, Trees)
    <2>1. Tree(job.file, job.sha, job.text) \in Trees
      BY <1>2, TreeType
    <2> QED
      BY <1>2, <2>1, PutPartial
  <1>4. /\ job' \in Jobs /\ job'.stage = "copy" /\ LocalsKept
    BY <1>1, Staying DEF TypeInv, Stages, Transaction, Removal, LocalsKept
  <1>5. disk \in Layers /\ IsFiniteSet(DOMAIN disk.pages)
    BY DEF TypeInv
  <1> QED
    BY <1>1, <1>3, <1>4, <1>5, OnlyTrees

\* The graph is replaced.
LEMMA ReplaceGraphDoes ==
    ASSUME TypeInv, LocalsInv, ReplaceGraph
    PROVE  /\ job.stage = "graph" /\ job'.stage = "vector" /\ LocalsKept
           /\ job' \in Jobs /\ disk' \in Layers
           /\ IsFiniteSet(DOMAIN disk'.pages)
           /\ disk'.graph = Put(disk.graph, job.file, job.text)
           /\ disk'.trees = disk.trees /\ disk'.raw = disk.raw /\ disk'.pages = disk.pages
           /\ disk'.index = disk.index /\ disk'.vectors = disk.vectors
           /\ UNCHANGED <<source, again, manifest, mem, count>>
  <1>1. /\ job.stage = "graph" /\ GoTo("vector")
        /\ UNCHANGED <<source, again, manifest, mem, count>>
        /\ disk' = [disk EXCEPT !.graph = Put(@, job.file, job.text)]
    BY DEF ReplaceGraph, Write
  <1>2. /\ job.file \in Files /\ job.text \in Contents
        /\ disk.graph \in Partial(Files, Contents)
    BY <1>1, TextualIsContent, LayersHave DEF TypeInv, LocalsInv, Transaction
  <1>3. Put(disk.graph, job.file, job.text) \in Partial(Files, Contents)
    BY <1>2, PutPartial
  <1>4. /\ job' \in Jobs /\ job'.stage = "vector" /\ LocalsKept
    BY <1>1, Staying DEF TypeInv, Stages, Transaction, Removal, LocalsKept
  <1>5. disk \in Layers /\ IsFiniteSet(DOMAIN disk.pages)
    BY DEF TypeInv
  <1> QED
    BY <1>1, <1>3, <1>4, <1>5, OnlyGraph

\* The vectors are written.
LEMMA UpsertVectorsDoes ==
    ASSUME TypeInv, LocalsInv, UpsertVectors
    PROVE  /\ job.stage = "vector" /\ job'.stage = "commit" /\ LocalsKept
           /\ job' \in Jobs /\ disk' \in Layers
           /\ IsFiniteSet(DOMAIN disk'.pages)
           /\ disk'.vectors = Put(disk.vectors, job.sha, Artifact(job.file, job.text))
           /\ disk'.trees = disk.trees /\ disk'.raw = disk.raw /\ disk'.pages = disk.pages
           /\ disk'.index = disk.index /\ disk'.graph = disk.graph
           /\ UNCHANGED <<source, again, manifest, mem, count>>
  <1>1. /\ job.stage = "vector" /\ GoTo("commit")
        /\ UNCHANGED <<source, again, manifest, mem, count>>
        /\ disk' = [disk EXCEPT !.vectors = Put(@, job.sha, Artifact(job.file, job.text))]
    BY DEF UpsertVectors, Write
  <1>2. /\ job.file \in Files /\ job.sha \in Contents /\ job.text \in Contents
        /\ disk.vectors \in Partial(Contents, Artifacts)
    BY <1>1, TextualIsContent, LayersHave DEF TypeInv, LocalsInv, Transaction
  <1>3. Put(disk.vectors, job.sha, Artifact(job.file, job.text)) \in Partial(Contents, Artifacts)
    <2>1. Artifact(job.file, job.text) \in Artifacts
      BY <1>2, ArtifactType
    <2> QED
      BY <1>2, <2>1, PutPartial
  <1>4. /\ job' \in Jobs /\ job'.stage = "commit" /\ LocalsKept
    BY <1>1, Staying DEF TypeInv, Stages, Transaction, Removal, LocalsKept
  <1>5. disk \in Layers /\ IsFiniteSet(DOMAIN disk.pages)
    BY DEF TypeInv
  <1> QED
    BY <1>1, <1>3, <1>4, <1>5, OnlyVectors

\* The page is removed.
LEMMA UnlinkDoes ==
    ASSUME TypeInv, LocalsInv, Unlink
    PROVE  /\ job.stage = "unlink" /\ job'.stage = "reindex" /\ LocalsKept
           /\ job' \in Jobs /\ disk' \in Layers
           /\ IsFiniteSet(DOMAIN disk'.pages)
           /\ disk'.pages = Drop(disk.pages, {job.existing.page})
           /\ disk'.trees = disk.trees /\ disk'.raw = disk.raw /\ disk'.index = disk.index
           /\ disk'.graph = disk.graph /\ disk'.vectors = disk.vectors
           /\ UNCHANGED <<source, again, manifest, mem, count>>
  <1>1. /\ job.stage = "unlink" /\ GoTo("reindex")
        /\ UNCHANGED <<source, again, manifest, mem, count>>
        /\ disk' = [disk EXCEPT !.pages = Drop(@, {job.existing.page})]
    BY DEF Unlink, Write
  <1>2. disk.pages \in Partial(Slugs, Artifacts \cup {Torn})
    BY LayersHave DEF TypeInv
  <1>3. Drop(disk.pages, {job.existing.page}) \in Partial(Slugs, Artifacts \cup {Torn})
    BY <1>2, DropPartial
  <1>4. /\ job' \in Jobs /\ job'.stage = "reindex" /\ LocalsKept
    BY <1>1, Staying DEF TypeInv, Stages, Transaction, Removal, LocalsKept
  <1>5. disk \in Layers /\ IsFiniteSet(DOMAIN disk.pages)
    BY DEF TypeInv
  <1>6. /\ disk' \in Layers /\ disk'.pages = Drop(disk.pages, {job.existing.page})
        /\ disk'.trees = disk.trees /\ disk'.raw = disk.raw /\ disk'.index = disk.index
        /\ disk'.graph = disk.graph /\ disk'.vectors = disk.vectors
    BY <1>1, <1>3, <1>5, OnlyPages
  <1>7. IsFiniteSet(DOMAIN disk'.pages)
    <2>1. DOMAIN disk'.pages \subseteq DOMAIN disk.pages \cup {job.existing.page}
      BY <1>6 DEF Drop
    <2> QED
      BY <1>5, <2>1, FiniteWithin
  <1> QED
    BY <1>1, <1>4, <1>6, <1>7

\* The graph loses the source.
LEMMA DetachDoes ==
    ASSUME TypeInv, LocalsInv, Detach
    PROVE  /\ job.stage = "detach" /\ job'.stage = "unembed" /\ LocalsKept
           /\ job' \in Jobs /\ disk' \in Layers
           /\ IsFiniteSet(DOMAIN disk'.pages)
           /\ disk'.graph = Drop(disk.graph, {job.file})
           /\ disk'.trees = disk.trees /\ disk'.raw = disk.raw /\ disk'.pages = disk.pages
           /\ disk'.index = disk.index /\ disk'.vectors = disk.vectors
           /\ UNCHANGED <<source, again, manifest, mem, count>>
  <1>1. /\ job.stage = "detach" /\ GoTo("unembed")
        /\ UNCHANGED <<source, again, manifest, mem, count>>
        /\ disk' = [disk EXCEPT !.graph = Drop(@, {job.file})]
    BY DEF Detach, Write
  <1>2. disk.graph \in Partial(Files, Contents)
    BY LayersHave DEF TypeInv
  <1>3. Drop(disk.graph, {job.file}) \in Partial(Files, Contents)
    BY <1>2, DropPartial
  <1>4. /\ job' \in Jobs /\ job'.stage = "unembed" /\ LocalsKept
    BY <1>1, Staying DEF TypeInv, Stages, Transaction, Removal, LocalsKept
  <1>5. disk \in Layers /\ IsFiniteSet(DOMAIN disk.pages)
    BY DEF TypeInv
  <1> QED
    BY <1>1, <1>3, <1>4, <1>5, OnlyGraph

\* The vectors are removed.
LEMMA UnembedDoes ==
    ASSUME TypeInv, LocalsInv, Unembed
    PROVE  /\ job.stage = "unembed" /\ job'.stage = "untree" /\ LocalsKept
           /\ job' \in Jobs /\ disk' \in Layers /\ IsFiniteSet(DOMAIN disk'.pages)
           /\ disk'.vectors = IF Derived(job.existing)
                              THEN Drop(disk.vectors, {job.existing.sha}) ELSE disk.vectors
           /\ disk'.trees = disk.trees /\ disk'.raw = disk.raw /\ disk'.pages = disk.pages
           /\ disk'.index = disk.index /\ disk'.graph = disk.graph
           /\ UNCHANGED <<source, again, manifest, mem, count>>
  <1>1. /\ job.stage = "unembed" /\ GoTo("untree")
        /\ UNCHANGED <<source, again, manifest, mem, count>>
        /\ disk' = IF Derived(job.existing)
                   THEN [disk EXCEPT !.vectors = Drop(@, {job.existing.sha})] ELSE disk
    BY DEF Unembed, Write
  <1>2. disk \in Layers /\ IsFiniteSet(DOMAIN disk.pages)
    BY DEF TypeInv
  <1>3. Drop(disk.vectors, {job.existing.sha}) \in Partial(Contents, Artifacts)
    BY <1>2, LayersHave, DropPartial
  <1>4. /\ job' \in Jobs /\ job'.stage = "untree" /\ LocalsKept
    BY <1>1, Staying DEF TypeInv, Stages, Transaction, Removal, LocalsKept
  <1> QED
    BY <1>1, <1>2, <1>3, <1>4, OnlyVectors

\* The tree is removed.
LEMMA UntreeDoes ==
    ASSUME TypeInv, LocalsInv, Untree
    PROVE  /\ job.stage = "untree" /\ job'.stage = "unraw" /\ LocalsKept
           /\ job' \in Jobs /\ disk' \in Layers /\ IsFiniteSet(DOMAIN disk'.pages)
           /\ disk'.trees = IF Derived(job.existing)
                              THEN Drop(disk.trees, {StemOf[job.file]}) ELSE disk.trees
           /\ disk'.raw = disk.raw /\ disk'.pages = disk.pages /\ disk'.index = disk.index
           /\ disk'.graph = disk.graph /\ disk'.vectors = disk.vectors
           /\ UNCHANGED <<source, again, manifest, mem, count>>
  <1>1. /\ job.stage = "untree" /\ GoTo("unraw")
        /\ UNCHANGED <<source, again, manifest, mem, count>>
        /\ disk' = IF Derived(job.existing)
                   THEN [disk EXCEPT !.trees = Drop(@, {StemOf[job.file]})] ELSE disk
    BY DEF Untree, Write
  <1>2. disk \in Layers /\ IsFiniteSet(DOMAIN disk.pages)
    BY DEF TypeInv
  <1>3. Drop(disk.trees, {StemOf[job.file]}) \in Partial(Stems, Trees)
    BY <1>2, LayersHave, DropPartial
  <1>4. /\ job' \in Jobs /\ job'.stage = "unraw" /\ LocalsKept
    BY <1>1, Staying DEF TypeInv, Stages, Transaction, Removal, LocalsKept
  <1> QED
    BY <1>1, <1>2, <1>3, <1>4, OnlyTrees

\* The raw copy is removed.
LEMMA UnrawDoes ==
    ASSUME TypeInv, LocalsInv, Unraw
    PROVE  /\ job.stage = "unraw" /\ LocalsKept
           /\ job'.stage = IF job.todo = {} THEN "prune" ELSE "forget"
           /\ job' \in Jobs /\ disk' \in Layers /\ IsFiniteSet(DOMAIN disk'.pages)
           /\ disk'.raw = Drop(disk.raw, {job.file})
           /\ disk'.trees = disk.trees /\ disk'.pages = disk.pages /\ disk'.index = disk.index
           /\ disk'.graph = disk.graph /\ disk'.vectors = disk.vectors
           /\ UNCHANGED <<source, again, manifest, mem, count>>
  <1> DEFINE to == IF job.todo = {} THEN "prune" ELSE "forget"
  <1>1. /\ job.stage = "unraw" /\ GoTo(to)
        /\ UNCHANGED <<source, again, manifest, mem, count>>
        /\ disk' = [disk EXCEPT !.raw = Drop(@, {job.file})]
    BY DEF Unraw, Write
  <1>2. disk \in Layers /\ IsFiniteSet(DOMAIN disk.pages)
    BY DEF TypeInv
  <1>3. Drop(disk.raw, {job.file}) \in Partial(Files, Contents)
    BY <1>2, LayersHave, DropPartial
  <1>4. to \in Stages
    BY DEF Stages
  <1> HIDE DEF to
  <1>5. /\ job' \in Jobs /\ job'.stage = to /\ LocalsKept
    BY <1>1, <1>4, Staying DEF TypeInv, LocalsKept
  <1> QED
    BY <1>1, <1>2, <1>3, <1>5, OnlyRaw DEF to

\* The index is rebuilt, or the run ends.
LEMMA ReindexDoes ==
    ASSUME TypeInv, LocalsInv, Reindex
    PROVE  /\ job.stage = "reindex"
           /\ UNCHANGED <<source, again, manifest, count>>
           /\ \/ ~Indexable /\ EndRun /\ UNCHANGED disk
              \/ /\ job'.stage = "detach" /\ LocalsKept /\ job' \in Jobs
                 /\ disk' \in Layers /\ IsFiniteSet(DOMAIN disk'.pages)
                 /\ disk'.index = DOMAIN disk.pages
                 /\ disk'.trees = disk.trees /\ disk'.raw = disk.raw /\ disk'.pages = disk.pages
                 /\ disk'.graph = disk.graph /\ disk'.vectors = disk.vectors
                 /\ UNCHANGED mem
  <1>1. disk \in Layers /\ IsFiniteSet(DOMAIN disk.pages) /\ DOMAIN disk.pages \in SUBSET Slugs
    BY LayersHave, PartialFacts DEF TypeInv
  <1>2. CASE Write("reindex", [disk EXCEPT !.index = DOMAIN disk.pages], "detach")
    <2>1. /\ job.stage = "reindex" /\ GoTo("detach")
          /\ UNCHANGED <<source, again, manifest, mem, count>>
          /\ disk' = [disk EXCEPT !.index = DOMAIN disk.pages]
      BY <1>2 DEF Write
    <2>2. /\ job' \in Jobs /\ job'.stage = "detach" /\ LocalsKept
      BY <2>1, Staying DEF TypeInv, Stages, Removal, LocalsKept
    <2> QED
      BY <1>1, <2>1, <2>2, OnlyIndex
  <1>3. CASE ~Write("reindex", [disk EXCEPT !.index = DOMAIN disk.pages], "detach")
    BY <1>3 DEF Reindex
  <1> QED
    BY <1>2, <1>3

\* What the except clause makes of each layer.
LEMMA RestoredIs ==
    ASSUME TypeInv, LocalsInv, job.stage \in Transaction
    PROVE  LET before    == job.before
               stem      == StemOf[job.file]
               pageKnown == job.stage \in {"graph", "vector", "commit"} IN
           /\ Restored \in Layers /\ IsFiniteSet(DOMAIN Restored.pages)
           /\ Restored.trees = IF job.stage = "tree" THEN disk.trees
                               ELSE IF HasEntry(job.existing) /\ stem \in DOMAIN before.trees
                                    THEN Put(disk.trees, stem, before.trees[stem])
                                    ELSE Drop(disk.trees, {stem})
           /\ Restored.raw = IF job.file \in DOMAIN before.raw
                             THEN Put(disk.raw, job.file, before.raw[job.file])
                             ELSE Drop(disk.raw, {job.file})
           /\ Restored.pages = IF ~pageKnown THEN disk.pages
                               ELSE IF HasEntry(job.existing)
                                       /\ job.slug \in DOMAIN before.pages
                                    THEN Put(disk.pages, job.slug, before.pages[job.slug])
                                    ELSE Drop(disk.pages, {job.slug})
           /\ Restored.index = IF pageKnown THEN DOMAIN Restored.pages ELSE disk.index
           /\ Restored.graph = before.graph
           /\ Restored.vectors = IF job.stage = "commit" THEN Drop(disk.vectors, {job.sha})
                                 ELSE disk.vectors
  <1> DEFINE before    == job.before
             stem      == StemOf[job.file]
             pageKnown == job.stage \in {"graph", "vector", "commit"}
             trees == IF job.stage = "tree" THEN disk.trees
                      ELSE IF HasEntry(job.existing) /\ stem \in DOMAIN before.trees
                           THEN Put(disk.trees, stem, before.trees[stem])
                           ELSE Drop(disk.trees, {stem})
             raw   == IF job.file \in DOMAIN before.raw
                      THEN Put(disk.raw, job.file, before.raw[job.file])
                      ELSE Drop(disk.raw, {job.file})
             pages == IF ~pageKnown THEN disk.pages
                      ELSE IF HasEntry(job.existing) /\ job.slug \in DOMAIN before.pages
                           THEN Put(disk.pages, job.slug, before.pages[job.slug])
                           ELSE Drop(disk.pages, {job.slug})
             index == IF pageKnown THEN DOMAIN pages ELSE disk.index
             vectors == IF job.stage = "commit" THEN Drop(disk.vectors, {job.sha})
                        ELSE disk.vectors
  <1>1. Restored = [trees |-> trees, raw |-> raw, pages |-> pages, index |-> index,
                    graph |-> before.graph, vectors |-> vectors]
    BY DEF Restored
  <1>2. disk \in Layers /\ before \in Layers /\ job.file \in Files /\ stem \in Stems
        /\ IsFiniteSet(DOMAIN disk.pages)
    BY JobHas DEF TypeInv, LocalsInv, Stems
  <1>3. trees \in Partial(Stems, Trees)
    <2>1. disk.trees \in Partial(Stems, Trees) /\ before.trees \in Partial(Stems, Trees)
      BY <1>2, LayersHave
    <2>2. stem \in DOMAIN before.trees => before.trees[stem] \in Trees
      BY <2>1, PartialFacts
    <2> HIDE DEF stem, before
    <2> QED
      BY <1>2, <2>1, <2>2, PutPartial, DropPartial
  <1>4. raw \in Partial(Files, Contents)
    <2>1. disk.raw \in Partial(Files, Contents) /\ before.raw \in Partial(Files, Contents)
      BY <1>2, LayersHave
    <2>2. job.file \in DOMAIN before.raw => before.raw[job.file] \in Contents
      BY <2>1, PartialFacts
    <2> HIDE DEF before
    <2> QED
      BY <1>2, <2>1, <2>2, PutPartial, DropPartial
  <1>5. pages \in Partial(Slugs, Artifacts \cup {Torn})
    <2>1. /\ disk.pages \in Partial(Slugs, Artifacts \cup {Torn})
          /\ before.pages \in Partial(Slugs, Artifacts \cup {Torn})
      BY <1>2, LayersHave
    <2>2. job.slug \in DOMAIN before.pages =>
              job.slug \in Slugs /\ before.pages[job.slug] \in Artifacts \cup {Torn}
      BY <2>1, PartialFacts
    <2> HIDE DEF before, pageKnown
    <2> QED
      BY <2>1, <2>2, PutPartial, DropPartial
  <1>6. IsFiniteSet(DOMAIN pages)
    <2>1. DOMAIN pages \subseteq DOMAIN disk.pages \cup {job.slug}
      BY DEF Put, Drop
    <2> QED
      BY <1>2, <2>1, FiniteWithin
  <1>7. index \in SUBSET Slugs
    <2>1. DOMAIN pages \subseteq Slugs
      <3> HIDE DEF pages
      <3> QED
        BY <1>5, PartialFacts
    <2> HIDE DEF pages
    <2> QED
      BY <1>2, <2>1, LayersHave
  <1>8. vectors \in Partial(Contents, Artifacts) /\ before.graph \in Partial(Files, Contents)
    BY <1>2, LayersHave, DropPartial
  <1> HIDE DEF trees, raw, pages, index, vectors, before
  <1>9. Restored \in Layers
    BY <1>1, <1>3, <1>4, <1>5, <1>7, <1>8, LayersAre
  <1>10. /\ Restored.trees = trees /\ Restored.raw = raw /\ Restored.pages = pages
         /\ Restored.index = index /\ Restored.graph = before.graph
         /\ Restored.vectors = vectors
    BY <1>1
  <1> QED
    BY <1>6, <1>9, <1>10 DEF trees, raw, pages, index, vectors, before

\* The except clause ends the run with the layers restored.
LEMMA RollbackDoes ==
    ASSUME TypeInv, LocalsInv, job.stage \in Transaction, Rollback
    PROVE  /\ disk' = Restored /\ disk' \in Layers /\ IsFiniteSet(DOMAIN disk'.pages)
           /\ EndRun /\ UNCHANGED <<source, again, manifest>>
    BY RestoredIs DEF Rollback

\* The source is copied, or gone.
LEMMA CopyRawDoes ==
    ASSUME TypeInv, LocalsInv, CopyRaw
    PROVE  /\ job.stage = "copy"
           /\ UNCHANGED <<source, again, manifest, count>>
           /\ \/ source[job.file] = Gone /\ Rollback
              \/ /\ job'.stage = "page" /\ LocalsKept /\ job' \in Jobs
                 /\ source[job.file] # Gone
                 /\ disk' \in Layers /\ IsFiniteSet(DOMAIN disk'.pages)
                 /\ disk'.raw = Put(disk.raw, job.file, source[job.file])
                 /\ disk'.trees = disk.trees /\ disk'.pages = disk.pages
                 /\ disk'.index = disk.index /\ disk'.graph = disk.graph
                 /\ disk'.vectors = disk.vectors
                 /\ UNCHANGED mem
  <1>1. CASE source[job.file] = Gone /\ Rollback
    BY <1>1 DEF CopyRaw, Rollback
  <1>2. CASE ~(source[job.file] = Gone /\ Rollback)
    <2>1. /\ job.stage = "copy" /\ source[job.file] # Gone /\ GoTo("page")
          /\ UNCHANGED <<source, again, manifest, mem, count>>
          /\ disk' = [disk EXCEPT !.raw = Put(@, job.file, source[job.file])]
      BY <1>2 DEF CopyRaw, Write
    <2>2. job.file \in Files /\ source[job.file] \in Contents /\ disk \in Layers
          /\ IsFiniteSet(DOMAIN disk.pages)
      BY <2>1 DEF LocalsInv, TypeInv, Transaction
    <2>3. Put(disk.raw, job.file, source[job.file]) \in Partial(Files, Contents)
      BY <2>2, LayersHave, PutPartial
    <2>4. /\ job' \in Jobs /\ job'.stage = "page" /\ LocalsKept
      BY <2>1, Staying DEF TypeInv, Stages, Transaction, LocalsKept
    <2> QED
      BY <2>1, <2>2, <2>3, <2>4, OnlyRaw
  <1> QED
    BY <1>1, <1>2

\* The page is written.
LEMMA WritePageDoes ==
    ASSUME TypeInv, LocalsInv, WritePage
    PROVE  /\ job.stage = "page" /\ job'.stage = "index" /\ job' \in Jobs
           /\ job'.todo = job.todo /\ job'.listed = job.listed /\ job'.prune = job.prune
           /\ job'.file = job.file /\ job'.sha = job.sha /\ job'.text = job.text
           /\ job'.existing = job.existing /\ job'.before = job.before
           /\ job'.slug = PageSlug /\ PageSlug \in Slugs
           /\ disk' \in Layers /\ IsFiniteSet(DOMAIN disk'.pages)
           /\ disk'.pages = Put(disk.pages, PageSlug, Artifact(job.file, job.text))
           /\ disk'.trees = disk.trees /\ disk'.raw = disk.raw /\ disk'.index = disk.index
           /\ disk'.graph = disk.graph /\ disk'.vectors = disk.vectors
           /\ UNCHANGED <<source, again, manifest, mem, count>>
  <1> DEFINE s == PageSlug
  <1>1. /\ job.stage = "page"
        /\ disk' = [disk EXCEPT !.pages = Put(@, s, Artifact(job.file, job.text))]
        /\ job' = [job EXCEPT !.stage = "index", !.slug = s]
        /\ UNCHANGED <<source, again, manifest, mem, count>>
    BY DEF WritePage
  <1>2. job.file \in Files /\ job.text \in Contents /\ disk \in Layers
        /\ IsFiniteSet(DOMAIN disk.pages)
    BY <1>1, TextualIsContent DEF LocalsInv, TypeInv, Transaction
  <1>3. s \in Slugs
    BY <1>2, PageSlugIs
  <1> HIDE DEF s
  <1>4. Put(disk.pages, s, Artifact(job.file, job.text))
           \in Partial(Slugs, Artifacts \cup {Torn})
    <2>1. Artifact(job.file, job.text) \in Artifacts \cup {Torn}
      BY <1>2, ArtifactType
    <2> QED
      BY <1>2, <1>3, <2>1, LayersHave, PutPartial
  <1>5. job \in Jobs /\ "index" \in Stages
    BY DEF TypeInv, Stages, Transaction
  <1>6. /\ job' \in Jobs /\ job'.stage = "index" /\ job'.slug = s
        /\ job'.todo = job.todo /\ job'.listed = job.listed /\ job'.prune = job.prune
        /\ job'.file = job.file /\ job'.sha = job.sha /\ job'.text = job.text
        /\ job'.existing = job.existing /\ job'.before = job.before
    BY <1>1, <1>3, <1>5 DEF Jobs
  <1>7. /\ disk' \in Layers
        /\ disk'.pages = Put(disk.pages, s, Artifact(job.file, job.text))
        /\ disk'.trees = disk.trees /\ disk'.raw = disk.raw /\ disk'.index = disk.index
        /\ disk'.graph = disk.graph /\ disk'.vectors = disk.vectors
    BY <1>1, <1>2, <1>4, OnlyPages
  <1>8. IsFiniteSet(DOMAIN disk'.pages)
    <2>1. DOMAIN disk'.pages \subseteq DOMAIN disk.pages \cup {s}
      BY <1>7 DEF Put
    <2> QED
      BY <1>2, <2>1, FiniteWithin
  <1> QED
    BY <1>1, <1>3, <1>6, <1>7, <1>8 DEF s

\* The index is rebuilt, or the transaction undone.
LEMMA RebuildIndexDoes ==
    ASSUME TypeInv, LocalsInv, RebuildIndex
    PROVE  /\ job.stage = "index"
           /\ UNCHANGED <<source, again, manifest, count>>
           /\ \/ ~Indexable /\ Rollback
              \/ /\ job'.stage = "graph" /\ LocalsKept /\ job' \in Jobs
                 /\ disk' \in Layers /\ IsFiniteSet(DOMAIN disk'.pages)
                 /\ disk'.index = DOMAIN disk.pages
                 /\ disk'.trees = disk.trees /\ disk'.raw = disk.raw
                 /\ disk'.pages = disk.pages /\ disk'.graph = disk.graph
                 /\ disk'.vectors = disk.vectors
                 /\ UNCHANGED mem
  <1>1. CASE ~Indexable /\ Rollback
    BY <1>1 DEF RebuildIndex, Rollback
  <1>2. CASE ~(~Indexable /\ Rollback)
    <2>1. /\ job.stage = "index" /\ GoTo("graph")
          /\ UNCHANGED <<source, again, manifest, mem, count>>
          /\ disk' = [disk EXCEPT !.index = DOMAIN disk.pages]
      BY <1>2 DEF RebuildIndex, Write
    <2>2. disk \in Layers /\ IsFiniteSet(DOMAIN disk.pages)
          /\ DOMAIN disk.pages \in SUBSET Slugs
      BY LayersHave, PartialFacts DEF TypeInv
    <2>3. /\ job' \in Jobs /\ job'.stage = "graph" /\ LocalsKept
      BY <2>1, Staying DEF TypeInv, Stages, Transaction, LocalsKept
    <2>4. /\ disk' \in Layers /\ disk'.index = DOMAIN disk.pages
          /\ disk'.trees = disk.trees /\ disk'.raw = disk.raw /\ disk'.pages = disk.pages
          /\ disk'.graph = disk.graph /\ disk'.vectors = disk.vectors
      BY <2>1, <2>2, OnlyIndex
    <2> QED
      BY <2>1, <2>2, <2>3, <2>4
  <1> QED
    BY <1>1, <1>2

\* The entry is committed.
LEMMA CommitDoes ==
    ASSUME TypeInv, LocalsInv, Commit
    PROVE  /\ job.stage = "commit" /\ job'.stage = "sweep" /\ LocalsKept
           /\ job' \in Jobs /\ mem' \in Manifests
           /\ mem' = Put(mem, job.file, Entry(job.sha, job.slug)) /\ manifest' = mem'
           /\ UNCHANGED <<source, again, disk, count>>
  <1>1. /\ job.stage = "commit" /\ GoTo("sweep") /\ UNCHANGED <<source, again, disk, count>>
        /\ mem' = Put(mem, job.file, Entry(job.sha, job.slug)) /\ manifest' = mem'
    BY DEF Commit
  <1>2. job.file \in Files /\ job.sha \in Contents /\ job.slug \in Slugs /\ mem \in Manifests
    BY <1>1 DEF LocalsInv, TypeInv, Transaction, PastPage, PastIndex, PastGraph, PastVector
  <1>3. mem' \in Manifests
    BY <1>1, <1>2, EntryType, PutPartial DEF Manifests
  <1>4. /\ job' \in Jobs /\ job'.stage = "sweep" /\ LocalsKept
    BY <1>1, Staying DEF TypeInv, Stages, LocalsKept
  <1> QED
    BY <1>1, <1>3, <1>4

\* What the source replaced is swept.
LEMMA SweepDoes ==
    ASSUME TypeInv, LocalsInv, Sweep
    PROVE  /\ job.stage = "sweep" /\ Moved /\ job' \in Jobs
           /\ disk' \in Layers /\ IsFiniteSet(DOMAIN disk'.pages)
           /\ disk'.vectors = Drop(disk.vectors, StaleVectors)
           /\ disk'.pages = Drop(disk.pages, StalePages)
           /\ disk'.index = DOMAIN disk'.pages
           /\ disk'.trees = disk.trees /\ disk'.raw = disk.raw /\ disk'.graph = disk.graph
           /\ UNCHANGED <<source, again, manifest, mem, count>>
  <1> DEFINE v == Drop(disk.vectors, StaleVectors)
             p == Drop(disk.pages, StalePages)
  <1>1. /\ job.stage = "sweep" /\ NextFile(job.file)
        /\ disk' = [disk EXCEPT !.vectors = v, !.pages = p, !.index = DOMAIN p]
        /\ UNCHANGED <<source, again, manifest, mem, count>>
    BY DEF Sweep
  <1>2. disk \in Layers /\ IsFiniteSet(DOMAIN disk.pages)
    BY DEF TypeInv
  <1>3. /\ v \in Partial(Contents, Artifacts)
        /\ p \in Partial(Slugs, Artifacts \cup {Torn})
    BY <1>2, LayersHave, DropPartial
  <1>4. DOMAIN p \subseteq DOMAIN disk.pages \cup {None}
    BY DEF Drop
  <1> HIDE DEF v, p
  <1>5. DOMAIN p \in SUBSET Slugs
    BY <1>3, PartialFacts
  <1>6. IsFiniteSet(DOMAIN p)
    BY <1>2, <1>4, FiniteWithin
  <1>7. /\ disk' \in Layers /\ disk'.vectors = v /\ disk'.pages = p
        /\ disk'.index = DOMAIN p
        /\ disk'.trees = disk.trees /\ disk'.raw = disk.raw /\ disk'.graph = disk.graph
    BY <1>1, <1>2, <1>3, <1>5 DEF Layers
  <1>8. Moved /\ job' \in Jobs
    BY <1>1, Moving DEF TypeInv, Moved
  <1> QED
    BY <1>1, <1>6, <1>7, <1>8 DEF v, p

\* The entry of a blank source goes.
LEMMA ForgetDoes ==
    ASSUME TypeInv, LocalsInv, Forget
    PROVE  /\ job.stage = "forget" /\ Moved /\ job' \in Jobs /\ mem' \in Manifests
           /\ mem' = Drop(mem, {job.file}) /\ manifest' = mem'
           /\ UNCHANGED <<source, again, disk, count>>
  <1>1. Moved /\ job' \in Jobs
    BY Moving DEF Forget, TypeInv, Moved
  <1>2. mem' \in Manifests
    BY DropPartial DEF Forget, TypeInv, Manifests
  <1> QED
    BY <1>1, <1>2 DEF Forget

\* A run lists the sources that are there.
LEMMA StartDoes ==
    ASSUME TypeInv, LocalsInv, NEW prune \in BOOLEAN, Start(prune)
    PROVE  /\ job.stage = "idle" /\ job'.stage = "pick" /\ job' \in Jobs
           /\ job'.todo = {f \in Files : source[f] # Gone} /\ job'.listed = job'.todo
           /\ job'.prune = prune /\ job'.file = None /\ job'.sha = None
           /\ job'.existing = None /\ job'.before = EmptyDisk
           /\ mem' \in Manifests /\ mem' = Resumed /\ manifest' = Resumed
           /\ UNCHANGED <<source, again, disk, count>>
  <1> DEFINE present == {f \in Files : source[f] # Gone}
  <1>1. /\ job.stage = "idle"
        /\ job' = [Idle EXCEPT !.stage = "pick", !.todo = present, !.listed = present,
                               !.prune = prune]
        /\ mem' = Resumed /\ manifest' = Resumed
        /\ UNCHANGED <<source, again, disk, count>>
    BY DEF Start
  <1>2. present \in SUBSET Files
    OBVIOUS
  <1> HIDE DEF present, Idle
  <1>3. /\ job' \in Jobs /\ job'.stage = "pick"
        /\ job'.todo = present /\ job'.listed = present /\ job'.prune = prune
        /\ job'.file = None /\ job'.sha = None
        /\ job'.existing = None /\ job'.before = EmptyDisk
    BY <1>1, <1>2, IdleIs DEF Jobs, Stages
  <1>4. Resumed \in Manifests
    <2>1. CASE manifest = Lost
      <3> DEFINE m == [f \in DOMAIN disk.raw |-> Entry(disk.raw[f], None)]
      <3>1. DOMAIN disk.raw \subseteq Files
            /\ \A f \in DOMAIN disk.raw : disk.raw[f] \in Contents
        BY LayersHave, PartialFacts DEF TypeInv
      <3>2. \A f \in DOMAIN disk.raw : Entry(disk.raw[f], None) \in Entries
        BY <3>1, EntryType
      <3>3. DOMAIN m \subseteq Files /\ m = [f \in DOMAIN m |-> m[f]]
            /\ \A f \in DOMAIN m : m[f] \in Entries
        BY <3>1, <3>2
      <3> HIDE DEF m
      <3>4. m \in Manifests
        BY <3>3, PartialIs DEF Manifests
      <3> QED
        BY <2>1, <3>4 DEF Resumed, m
    <2>2. CASE manifest # Lost
      BY <2>2 DEF Resumed, TypeInv
    <2> QED
      BY <2>1, <2>2
  <1> QED
    BY <1>1, <1>3, <1>4 DEF present

\* The three ways to examine a file.
LEMMA ExamineDoes ==
    ASSUME TypeInv, LocalsInv, Examine
    PROVE  /\ job.stage = "pick" /\ UNCHANGED <<source, again, disk, manifest, count>>
           /\ \E f \in job.todo :
                 \/ EndRun
                 \/ /\ f \in DOMAIN mem /\ CanSkip(mem[f], source[f])
                    /\ job' \in Jobs /\ job'.stage = "pick" /\ job'.todo = job.todo \ {f}
                    /\ job'.listed = job.listed /\ job'.prune = job.prune
                    /\ job'.file = None /\ job'.sha = None
                    /\ job'.existing = None /\ job'.before = EmptyDisk
                    /\ UNCHANGED mem
                 \/ /\ source[f] # Gone
                    /\ ~(f \in DOMAIN mem /\ CanSkip(mem[f], source[f]))
                    /\ job' \in Jobs /\ job'.stage = "parse"
                    /\ job'.todo = job.todo /\ job'.listed = job.listed
                    /\ job'.prune = job.prune /\ job'.before = job.before
                    /\ job'.file = f /\ job'.sha = source[f]
                    /\ job'.existing = IF f \in DOMAIN mem THEN mem[f] ELSE None
                    /\ UNCHANGED mem
  <1>1. job.stage = "pick" /\ UNCHANGED <<source, again, disk, manifest, count>>
    BY DEF Examine
  <1>2. PICK f \in job.todo :
           \/ EndRun
           \/ /\ f \in DOMAIN mem /\ CanSkip(mem[f], source[f])
              /\ NextFile(f) /\ UNCHANGED mem
           \/ /\ source[f] # Gone
              /\ ~(f \in DOMAIN mem /\ CanSkip(mem[f], source[f]))
              /\ job' = [job EXCEPT !.stage = "parse", !.file = f, !.sha = source[f],
                                    !.existing = IF f \in DOMAIN mem THEN mem[f] ELSE None]
              /\ UNCHANGED mem
    BY DEF Examine
  <1>3. CASE EndRun
    BY <1>1, <1>3
  <1>4. CASE f \in DOMAIN mem /\ CanSkip(mem[f], source[f]) /\ NextFile(f) /\ UNCHANGED mem
    BY <1>1, <1>4, Moving DEF TypeInv
  <1>5. CASE /\ source[f] # Gone
             /\ ~(f \in DOMAIN mem /\ CanSkip(mem[f], source[f]))
             /\ job' = [job EXCEPT !.stage = "parse", !.file = f, !.sha = source[f],
                                   !.existing = IF f \in DOMAIN mem THEN mem[f] ELSE None]
             /\ UNCHANGED mem
    <2> DEFINE e == IF f \in DOMAIN mem THEN mem[f] ELSE None
    <2>1. f \in Files /\ source[f] \in Contents /\ e \in Entries \cup {None}
          /\ "parse" \in Stages /\ job \in Jobs
      BY <1>5, JobHas, EntryOf DEF TypeInv, Stages
    <2>2. job' = [job EXCEPT !.stage = "parse", !.file = f, !.sha = source[f],
                             !.existing = e]
      BY <1>5
    <2> HIDE DEF e
    <2>3. /\ job' \in Jobs /\ job'.stage = "parse"
          /\ job'.todo = job.todo /\ job'.listed = job.listed
          /\ job'.prune = job.prune /\ job'.before = job.before
          /\ job'.file = f /\ job'.sha = source[f] /\ job'.existing = e
      BY <2>1, <2>2 DEF Jobs
    <2> QED
      BY <1>1, <1>5, <2>3 DEF e
  <1> QED
    BY <1>2, <1>3, <1>4, <1>5

\* The source is read for its text.
LEMMA ParseDoes ==
    ASSUME TypeInv, LocalsInv, Parse
    PROVE  /\ job.stage = "parse" /\ UNCHANGED <<source, again, disk, manifest, count>>
           /\ \/ EndRun
              \/ /\ source[job.file] \in Unreadable \cup Blank
                 /\ Moved /\ job' \in Jobs /\ UNCHANGED mem
                 /\ source[job.file] \in Blank \ Unreadable => job.existing = None
              \/ /\ source[job.file] \in Blank /\ job.existing # None
                 /\ job'.stage = "unlink" /\ LocalsKept /\ job' \in Jobs /\ UNCHANGED mem
              \/ /\ source[job.file] \in Textual
                 /\ job' \in Jobs /\ job'.stage = "tree"
                 /\ job'.todo = job.todo /\ job'.listed = job.listed
                 /\ job'.prune = job.prune /\ job'.file = job.file /\ job'.sha = job.sha
                 /\ job'.slug = job.slug /\ job'.existing = job.existing
                 /\ job'.text = source[job.file] /\ job'.before = disk
                 /\ UNCHANGED mem
  <1> DEFINE c == source[job.file]
  <1>1. /\ job.stage = "parse" /\ UNCHANGED <<source, again, disk, manifest, count>>
    BY DEF Parse
  <1>2. \/ EndRun
        \/ c \in Unreadable /\ NextFile(job.file) /\ UNCHANGED mem
        \/ c \in Blank /\ job.existing = None /\ NextFile(job.file) /\ UNCHANGED mem
        \/ c \in Blank /\ job.existing # None /\ GoTo("unlink") /\ UNCHANGED mem
        \/ /\ c \in Textual
           /\ job' = [job EXCEPT !.stage = "tree", !.text = c, !.before = disk]
           /\ UNCHANGED mem
    BY DEF Parse
  <1>3. job \in Jobs /\ disk \in Layers /\ "tree" \in Stages /\ "unlink" \in Stages
    BY DEF TypeInv, Stages, Transaction, Removal
  <1> HIDE DEF c
  <1>4. CASE EndRun
    BY <1>1, <1>4
  <1>5. CASE c \in Unreadable /\ NextFile(job.file) /\ UNCHANGED mem
    BY <1>1, <1>3, <1>5, Moving DEF Moved, c
  <1>6. CASE c \in Blank /\ job.existing = None /\ NextFile(job.file) /\ UNCHANGED mem
    BY <1>1, <1>3, <1>6, Moving DEF Moved, c
  <1>7. CASE c \in Blank /\ job.existing # None /\ GoTo("unlink") /\ UNCHANGED mem
    BY <1>1, <1>3, <1>7, Staying DEF LocalsKept, c
  <1>8. CASE /\ c \in Textual
             /\ job' = [job EXCEPT !.stage = "tree", !.text = c, !.before = disk]
             /\ UNCHANGED mem
    <2>1. /\ job' \in Jobs /\ job'.stage = "tree"
          /\ job'.todo = job.todo /\ job'.listed = job.listed
          /\ job'.prune = job.prune /\ job'.file = job.file /\ job'.sha = job.sha
          /\ job'.slug = job.slug /\ job'.existing = job.existing
          /\ job'.text = c /\ job'.before = disk
      BY <1>3, <1>8, TextualIsContent DEF Jobs
    <2> QED
      BY <1>1, <1>8, <2>1 DEF c
  <1> QED
    BY <1>2, <1>4, <1>5, <1>6, <1>7, <1>8

\* An entry without a file is taken out.
LEMMA PruneDoes ==
    ASSUME TypeInv, LocalsInv, Prune
    PROVE  /\ job.stage = "prune" /\ UNCHANGED <<source, again, disk, manifest, count>>
           /\ \E f \in DOMAIN mem \ job.listed :
                 /\ mem' = Drop(mem, {f}) /\ mem' \in Manifests
                 /\ job' \in Jobs /\ job'.stage = "unlink"
                 /\ job'.todo = job.todo /\ job'.listed = job.listed
                 /\ job'.prune = job.prune /\ job'.before = job.before
                 /\ job'.sha = job.sha /\ job'.file = f /\ job'.existing = mem[f]
  <1>1. job.stage = "prune" /\ UNCHANGED <<source, again, disk, manifest, count>>
    BY DEF Prune
  <1>2. PICK f \in DOMAIN mem \ job.listed :
           /\ mem' = Drop(mem, {f})
           /\ job' = [job EXCEPT !.stage = "unlink", !.file = f, !.existing = mem[f]]
    BY DEF Prune, Stale
  <1>3. f \in Files /\ mem[f] \in Entries /\ "unlink" \in Stages
    BY EntryOf DEF TypeInv, Stages, Removal
  <1>4. /\ job' \in Jobs /\ job'.stage = "unlink"
        /\ job'.todo = job.todo /\ job'.listed = job.listed
        /\ job'.prune = job.prune /\ job'.before = job.before
        /\ job'.sha = job.sha /\ job'.file = f /\ job'.existing = mem[f]
    BY <1>2, <1>3 DEF TypeInv, Jobs
  <1>5. mem' \in Manifests
    BY <1>2, DropPartial DEF TypeInv, Manifests
  <1> QED
    BY <1>1, <1>2, <1>4, <1>5

\* No file is left to do.
LEMMA AllFilesDoneDoes ==
    ASSUME TypeInv, LocalsInv, AllFilesDone
    PROVE  /\ job.stage = "pick" /\ job.todo = {}
           /\ UNCHANGED <<source, again, disk, manifest, count>>
           /\ \/ ~job.prune /\ EndRun
              \/ /\ job.prune /\ job'.stage = "prune" /\ LocalsKept /\ job' \in Jobs
                 /\ UNCHANGED mem
  <1>1. GoTo("prune") => job'.stage = "prune" /\ LocalsKept /\ job' \in Jobs
    BY Staying DEF TypeInv, Stages, LocalsKept
  <1> QED
    BY <1>1 DEF AllFilesDone

\* The run is cut short, and may leave a torn page.
LEMMA CutShortDoes ==
    ASSUME TypeInv, LocalsInv, CutShort
    PROVE  /\ job.stage # "idle" /\ EndRun /\ UNCHANGED <<source, again, manifest>>
           /\ count.cuts < MaxCuts /\ count' \in Counts /\ count'.cuts > 0
           /\ disk' \in Layers /\ IsFiniteSet(DOMAIN disk'.pages)
           /\ \/ UNCHANGED disk
              \/ /\ job.stage = "page" /\ PageSlug \in Slugs
                 /\ disk'.pages = Put(disk.pages, PageSlug, Torn)
                 /\ disk'.trees = disk.trees /\ disk'.raw = disk.raw
                 /\ disk'.index = disk.index /\ disk'.graph = disk.graph
                 /\ disk'.vectors = disk.vectors
  <1> DEFINE s == PageSlug
  <1>1. /\ job.stage # "idle" /\ EndRun /\ UNCHANGED <<source, again, manifest>>
        /\ count.cuts < MaxCuts /\ count' = [count EXCEPT !.cuts = @ + 1]
        /\ \/ UNCHANGED disk
           \/ job.stage = "page" /\ disk' = [disk EXCEPT !.pages = Put(@, s, Torn)]
    BY DEF CutShort
  <1>2. count' \in Counts /\ count'.cuts > 0
    BY <1>1 DEF TypeInv, Counts
  <1>3. disk \in Layers /\ IsFiniteSet(DOMAIN disk.pages)
    BY DEF TypeInv
  <1>4. ASSUME job.stage = "page", disk' = [disk EXCEPT !.pages = Put(@, s, Torn)]
        PROVE  /\ disk' \in Layers /\ disk'.pages = Put(disk.pages, s, Torn) /\ s \in Slugs
               /\ disk'.trees = disk.trees /\ disk'.raw = disk.raw
               /\ disk'.index = disk.index /\ disk'.graph = disk.graph
               /\ disk'.vectors = disk.vectors
    <2>1. job.file \in Files
      BY <1>4 DEF LocalsInv, Transaction
    <2>2. s \in Slugs
      BY <2>1, PageSlugIs
    <2> HIDE DEF s
    <2>3. Put(disk.pages, s, Torn) \in Partial(Slugs, Artifacts \cup {Torn})
      BY <1>3, <2>2, LayersHave, PutPartial
    <2> QED
      BY <1>3, <1>4, <2>2, <2>3, OnlyPages
  <1> HIDE DEF s
  <1>5. CASE UNCHANGED disk
    BY <1>1, <1>2, <1>3, <1>5
  <1>6. CASE job.stage = "page" /\ disk' = [disk EXCEPT !.pages = Put(@, s, Torn)]
    <2>1. DOMAIN disk'.pages \subseteq DOMAIN disk.pages \cup {s}
      BY <1>4, <1>6 DEF Put
    <2>2. IsFiniteSet(DOMAIN disk'.pages)
      BY <1>3, <2>1, FiniteWithin
    <2> QED
      BY <1>1, <1>2, <1>4, <1>6, <2>2 DEF s
  <1> QED
    BY <1>1, <1>5, <1>6

\* A source changes, and nothing else.
LEMMA EditDoes ==
    ASSUME TypeInv, NEW f \in Files, NEW c \in Contents \cup {Gone}, Edit(f, c)
    PROVE  /\ EditDuringRun \/ job.stage = "idle"
           /\ source' \in [Files -> Contents \cup {Gone}]
           /\ source'[f] = c /\ \A g \in Files \ {f} : source'[g] = source[g]
           /\ again' = again \cup {x \in {c} : ComesAgain(f, x)}
           /\ again \subseteq again' /\ again' \subseteq Contents
           /\ c \in Contents \ again' => ~ComesAgain(f, c)
           /\ count' \in Counts /\ count'.cuts = count.cuts
           /\ count'.losses = count.losses
           /\ UNCHANGED <<disk, manifest, mem, job>>
  <1>1. again' = again \cup {x \in {c} : ComesAgain(f, x)} /\ UNCHANGED <<disk, manifest, mem, job>>
    BY DEF Edit
  <1>2. ComesAgain(f, c) => c # Gone
    BY DEF ComesAgain
  <1>3. Gone \notin Contents
    BY IngestAssumption
  <1> HIDE DEF ComesAgain
  <1>4. again \subseteq again' /\ again' \subseteq Contents
        /\ (c \in Contents \ again' => ~ComesAgain(f, c))
    BY <1>1, <1>2 DEF TypeInv
  <1> QED
    BY <1>1, <1>4 DEF Edit, TypeInv, Counts

\* The manifest is lost between runs.
LEMMA LoseManifestDoes ==
    ASSUME TypeInv, LoseManifest
    PROVE  /\ job.stage = "idle" /\ manifest' = Lost
           /\ count.losses < MaxLosses /\ count' \in Counts /\ count'.losses > 0
           /\ UNCHANGED <<source, again, disk, mem, job>>
    BY DEF LoseManifest, TypeInv, Counts

\* A step of the transaction raises.
LEMMA FailDoes ==
    ASSUME TypeInv, Fail
    PROVE  /\ job.stage \in FaultPoints /\ job.stage \in Transaction /\ Rollback
           /\ count' \in Counts /\ count'.losses = count.losses
           /\ count'.cuts = IF job.stage = "index" THEN count.cuts + 1 ELSE count.cuts
  <1>1. /\ job.stage \in FaultPoints /\ Rollback
        /\ count' = [count EXCEPT !.faults = @ + 1,
                                  !.cuts = IF job.stage = "index" THEN @ + 1 ELSE @]
    BY DEF Fail
  <1>2. count \in Counts
    BY DEF TypeInv
  <1>3. count.cuts + 1 \in Nat /\ count.faults + 1 \in Nat
    BY <1>2 DEF Counts
  <1>4. PICK cuts : cuts = IF job.stage = "index" THEN count.cuts + 1 ELSE count.cuts
    OBVIOUS
  <1>5. count' = [count EXCEPT !.faults = count.faults + 1, !.cuts = cuts]
    BY <1>1, <1>4
  <1>6. cuts \in Nat
    BY <1>2, <1>3, <1>4 DEF Counts
  <1>7. count' \in Counts /\ count'.losses = count.losses /\ count'.cuts = cuts
    BY <1>2, <1>3, <1>5, <1>6 DEF Counts
  <1> QED
    BY <1>1, <1>4, <1>7, IngestAssumption

\* Nothing is left to prune.
LEMMA PrunedDoes ==
    ASSUME TypeInv, Pruned
    PROVE  /\ job.stage = "prune" /\ DOMAIN mem \subseteq job.listed
           /\ manifest' = mem /\ EndRun /\ UNCHANGED <<source, again, disk, count>>
    BY DEF Pruned, Stale

-----------------------------------------------------------------------------
(* The types *)

\* Initially the types hold and no run is under way.
LEMMA TypeInit == Init => TypeInv /\ LocalsInv
  <1> SUFFICES ASSUME Init PROVE TypeInv /\ LocalsInv
    OBVIOUS
  <1>1. /\ disk = EmptyDisk /\ manifest = Nothing /\ mem = Nothing /\ job = Idle
        /\ source = [f \in Files |-> Gone] /\ again = {}
        /\ count = [edits |-> 0, faults |-> 0, cuts |-> 0, losses |-> 0]
    BY DEF Init
  <1>2. Nothing \in Manifests
    BY NothingPartial DEF Manifests
  <1>3. IsFiniteSet(DOMAIN disk.pages)
    BY <1>1, EmptyDiskType, FS_EmptySet
  <1> HIDE DEF Nothing, Idle, EmptyDisk
  <1>4. TypeInv
    BY <1>1, <1>2, <1>3, EmptyDiskType, IdleIs DEF TypeInv, Counts
  <1>5. LocalsInv
    BY <1>1, IdleIs DEF LocalsInv, Transaction, Removal, PastPage, PastIndex, PastGraph,
                        PastVector
  <1> QED
    BY <1>4, <1>5

\* Every step keeps the types.
LEMMA TypeStep ==
    ASSUME TypeInv, LocalsInv, [Next]_vars
    PROVE  TypeInv'
  <1>0. EndRun => job' \in Jobs /\ mem' \in Manifests
    BY Ending, IdleIs
  <1>1. ASSUME UNCHANGED <<source, again, count>>,
               disk' \in Layers /\ IsFiniteSet(DOMAIN disk'.pages),
               manifest' \in Manifests \cup {Lost}, mem' \in Manifests, job' \in Jobs
        PROVE  TypeInv'
    BY <1>1 DEF TypeInv
  <1>2. disk \in Layers /\ IsFiniteSet(DOMAIN disk.pages) /\ mem \in Manifests
        /\ manifest \in Manifests \cup {Lost} /\ job \in Jobs
    BY DEF TypeInv
  <1>3. CASE UNCHANGED vars
    BY <1>3 DEF vars, TypeInv
  <1>4. ASSUME NEW prune \in BOOLEAN, Start(prune) PROVE TypeInv'
    BY <1>1, <1>2, <1>4, StartDoes
  <1>5. CASE Examine
    BY <1>0, <1>1, <1>2, <1>5, ExamineDoes
  <1>6. CASE Parse
    BY <1>0, <1>1, <1>2, <1>6, ParseDoes
  <1>7. CASE SaveTree
    BY <1>1, <1>2, <1>7, SaveTreeDoes
  <1>8. ASSUME job.stage \in Transaction, Rollback, UNCHANGED count PROVE TypeInv'
    BY <1>0, <1>1, <1>2, <1>8, RollbackDoes
  <1>9. CASE CopyRaw
    BY <1>1, <1>2, <1>8, <1>9, CopyRawDoes DEF Transaction
  <1>10. CASE WritePage
    BY <1>1, <1>2, <1>10, WritePageDoes
  <1>11. CASE RebuildIndex
    BY <1>1, <1>2, <1>8, <1>11, RebuildIndexDoes DEF Transaction
  <1>12. CASE ReplaceGraph
    BY <1>1, <1>2, <1>12, ReplaceGraphDoes
  <1>13. CASE UpsertVectors
    BY <1>1, <1>2, <1>13, UpsertVectorsDoes
  <1>14. CASE Commit
    BY <1>1, <1>2, <1>14, CommitDoes
  <1>15. CASE Sweep
    BY <1>1, <1>2, <1>15, SweepDoes
  <1>16. CASE Unlink
    BY <1>1, <1>2, <1>16, UnlinkDoes
  <1>17. CASE Reindex
    BY <1>0, <1>1, <1>2, <1>17, ReindexDoes
  <1>18. CASE Detach
    BY <1>1, <1>2, <1>18, DetachDoes
  <1>19. CASE Unembed
    BY <1>1, <1>2, <1>19, UnembedDoes
  <1>20. CASE Untree
    BY <1>1, <1>2, <1>20, UntreeDoes
  <1>21. CASE Unraw
    BY <1>1, <1>2, <1>21, UnrawDoes
  <1>22. CASE Forget
    BY <1>1, <1>2, <1>22, ForgetDoes
  <1>23. CASE AllFilesDone
    BY <1>0, <1>1, <1>2, <1>23, AllFilesDoneDoes
  <1>24. CASE Prune
    BY <1>1, <1>2, <1>24, PruneDoes
  <1>25. CASE Pruned
    BY <1>0, <1>1, <1>2, <1>25, PrunedDoes
  <1>26. CASE Fail
    <2>1. disk' \in Layers /\ IsFiniteSet(DOMAIN disk'.pages) /\ EndRun
          /\ UNCHANGED <<source, again, manifest>> /\ count' \in Counts
      BY <1>26, FailDoes, RollbackDoes
    <2> QED
      BY <1>0, <2>1 DEF TypeInv
  <1>27. ASSUME NEW f \in Files, NEW c \in Contents \cup {Gone}, Edit(f, c)
         PROVE  TypeInv'
    BY <1>27, EditDoes DEF TypeInv
  <1>28. CASE CutShort
    <2>1. disk' \in Layers /\ IsFiniteSet(DOMAIN disk'.pages) /\ EndRun
          /\ UNCHANGED <<source, again, manifest>> /\ count' \in Counts
      BY <1>28, CutShortDoes
    <2> QED
      BY <1>0, <2>1 DEF TypeInv
  <1>29. CASE LoseManifest
    BY <1>29, LoseManifestDoes DEF TypeInv
  <1> QED
    BY <1>3, <1>4, <1>5, <1>6, <1>7, <1>9, <1>10, <1>11, <1>12, <1>13, <1>14, <1>15,
       <1>16, <1>17, <1>18, <1>19, <1>20, <1>21, <1>22, <1>23, <1>24, <1>25, <1>26,
       <1>27, <1>28, <1>29 DEF Next, Ingest, DeleteArtifacts

\* Every step leaves the locals set that its stage needs.
LEMMA LocalsStep ==
    ASSUME TypeInv, LocalsInv, [Next]_vars
    PROVE  LocalsInv'
  <1> USE DEF Transaction, Removal, PastPage, PastIndex, PastGraph, PastVector
  <1>0. ASSUME EndRun PROVE LocalsInv'
    BY <1>0, Ending, IdleIs DEF LocalsInv
  <1>1. ASSUME Moved PROVE LocalsInv'
    BY <1>1 DEF LocalsInv, Moved
  <1>3. CASE UNCHANGED vars
    BY <1>3 DEF vars, LocalsInv
  <1>4. ASSUME NEW prune \in BOOLEAN, Start(prune) PROVE LocalsInv'
    BY <1>4, StartDoes DEF LocalsInv
  <1>5. CASE Examine
    <2>1. PICK f \in job.todo :
                 \/ EndRun
                 \/ /\ job'.stage = "pick" /\ job'.todo = job.todo \ {f}
                    /\ job'.listed = job.listed /\ job'.sha = None
                 \/ /\ source[f] # Gone /\ job'.stage = "parse"
                    /\ job'.todo = job.todo /\ job'.listed = job.listed
                    /\ job'.file = f /\ job'.sha = source[f]
      BY <1>5, ExamineDoes
    <2>2. f \in Files /\ f \in job.listed
      BY JobHas DEF TypeInv, LocalsInv
    <2> QED
      BY <1>0, <2>1, <2>2 DEF LocalsInv, TypeInv
  <1>6. CASE Parse
    <2>1. job.stage = "parse" /\ job.existing \in Entries \cup {None}
      BY <1>6, ParseDoes, JobHas DEF TypeInv
    <2> QED
      BY <1>0, <1>1, <1>6, <2>1, ParseDoes DEF LocalsInv, LocalsKept
  <1>7. CASE SaveTree
    BY <1>7, SaveTreeDoes DEF LocalsInv, LocalsKept
  <1>8. ASSUME Rollback PROVE LocalsInv'
    BY <1>0, <1>8 DEF Rollback
  <1>9. CASE CopyRaw
    BY <1>8, <1>9, CopyRawDoes DEF LocalsInv, LocalsKept
  <1>10. CASE WritePage
    BY <1>10, WritePageDoes DEF LocalsInv
  <1>11. CASE RebuildIndex
    BY <1>8, <1>11, RebuildIndexDoes DEF LocalsInv, LocalsKept
  <1>12. CASE ReplaceGraph
    BY <1>12, ReplaceGraphDoes DEF LocalsInv, LocalsKept
  <1>13. CASE UpsertVectors
    BY <1>13, UpsertVectorsDoes DEF LocalsInv, LocalsKept
  <1>14. CASE Commit
    BY <1>14, CommitDoes DEF LocalsInv, LocalsKept
  <1>15. CASE Sweep
    BY <1>1, <1>15, SweepDoes
  <1>16. CASE Unlink
    BY <1>16, UnlinkDoes DEF LocalsInv, LocalsKept
  <1>17. CASE Reindex
    BY <1>0, <1>17, ReindexDoes DEF LocalsInv, LocalsKept
  <1>18. CASE Detach
    BY <1>18, DetachDoes DEF LocalsInv, LocalsKept
  <1>19. CASE Unembed
    BY <1>19, UnembedDoes DEF LocalsInv, LocalsKept
  <1>20. CASE Untree
    BY <1>20, UntreeDoes DEF LocalsInv, LocalsKept
  <1>21. CASE Unraw
    BY <1>21, UnrawDoes DEF LocalsInv, LocalsKept
  <1>22. CASE Forget
    BY <1>1, <1>22, ForgetDoes
  <1>23. CASE AllFilesDone
    BY <1>0, <1>23, AllFilesDoneDoes DEF LocalsInv, LocalsKept
  <1>24. CASE Prune
    <2>1. PICK f \in DOMAIN mem \ job.listed :
                 /\ job'.stage = "unlink"
                 /\ job'.todo = job.todo /\ job'.listed = job.listed
                 /\ job'.file = f /\ job'.existing = mem[f] /\ job'.sha = job.sha
      BY <1>24, PruneDoes
    <2>2. job.stage = "prune"
      BY <1>24, PruneDoes
    <2>3. f \in Files /\ mem[f] \in Entries
      BY EntryOf DEF TypeInv
    <2> QED
      BY <2>1, <2>2, <2>3 DEF LocalsInv
  <1>25. CASE Pruned
    BY <1>0, <1>25, PrunedDoes
  <1>26. CASE Fail
    BY <1>8, <1>26, FailDoes
  <1>27. ASSUME NEW f \in Files, NEW c \in Contents \cup {Gone}, Edit(f, c)
         PROVE  LocalsInv'
    BY <1>27, EditDoes DEF LocalsInv
  <1>28. CASE CutShort
    BY <1>0, <1>28, CutShortDoes
  <1>29. CASE LoseManifest
    BY <1>29, LoseManifestDoes DEF LocalsInv
  <1> QED
    BY <1>3, <1>4, <1>5, <1>6, <1>7, <1>9, <1>10, <1>11, <1>12, <1>13, <1>14, <1>15,
       <1>16, <1>17, <1>18, <1>19, <1>20, <1>21, <1>22, <1>23, <1>24, <1>25, <1>26,
       <1>27, <1>28, <1>29 DEF Next, Ingest, DeleteArtifacts

-----------------------------------------------------------------------------
(* Contents belong to one file *)

\* A run only passes on what a file owns; only an edit adds to it.
LEMMA OwnsStep ==
    ASSUME TypeInv, LocalsInv, [Next]_vars,
           \A g \in Files, x \in Contents \cup {Gone} : ~Edit(g, x),
           NEW f \in Files, NEW c \in Contents, Owns(f, c)'
    PROVE  Owns(f, c) /\ again' = again
  <1>0. c # None
    BY IngestAssumption
  <1>1. ASSUME EndRun, UNCHANGED <<source, again, manifest>>,
               f \in DOMAIN disk'.raw /\ disk'.raw[f] = c => Owns(f, c)
        PROVE  Owns(f, c) /\ again' = again
    <2>1. /\ DOMAIN mem' = {} /\ DOMAIN job'.before.raw = {}
          /\ job'.sha = None /\ job'.existing = None
      BY <1>1, Ending, IdleIs, EmptyDiskType
    <2> QED
      BY <1>0, <1>1, <2>1 DEF Owns
  <1>2. ASSUME Moved, UNCHANGED <<source, again>>,
               f \in DOMAIN mem' /\ mem'[f].sha = c => Owns(f, c),
               manifest' # Lost /\ f \in DOMAIN manifest' /\ manifest'[f].sha = c => Owns(f, c),
               UNCHANGED disk \/ disk'.raw = disk.raw
        PROVE  Owns(f, c) /\ again' = again
    <2>1. /\ DOMAIN job'.before.raw = {}
          /\ job'.sha = None /\ job'.existing = None
      BY <1>2, EmptyDiskType DEF Moved
    <2> QED
      BY <1>0, <1>2, <2>1 DEF Owns
  \* A step that keeps the locals and the manifest.
  <1>3. ASSUME LocalsKept, UNCHANGED <<source, again, manifest, mem>>,
               f \in DOMAIN disk'.raw /\ disk'.raw[f] = c => Owns(f, c)
        PROVE  Owns(f, c) /\ again' = again
    BY <1>3 DEF Owns, LocalsKept
  <1>4. CASE UNCHANGED vars
    BY <1>4 DEF vars, Owns
  <1>5. ASSUME NEW prune \in BOOLEAN, Start(prune) PROVE Owns(f, c) /\ again' = again
    <2>1. /\ DOMAIN job'.before.raw = {} /\ job'.sha = None /\ job'.existing = None
          /\ UNCHANGED <<source, again, disk>> /\ mem' = Resumed /\ manifest' = Resumed
      BY <1>5, StartDoes, EmptyDiskType
    <2>2. f \in DOMAIN Resumed /\ Resumed[f].sha = c => Owns(f, c)
      BY DEF Resumed, Entry, Owns
    <2> QED
      BY <1>0, <2>1, <2>2 DEF Owns
  <1>6. CASE Examine
    <2>1. UNCHANGED <<source, again, disk, manifest>>
      BY <1>6, ExamineDoes
    <2>2. PICK g \in job.todo :
             \/ EndRun
             \/ /\ job'.sha = None /\ job'.existing = None /\ job'.before = EmptyDisk
                /\ UNCHANGED mem
             \/ /\ job'.before = job.before
                /\ job'.file = g /\ job'.sha = source[g]
                /\ job'.existing = IF g \in DOMAIN mem THEN mem[g] ELSE None
                /\ UNCHANGED mem
      BY <1>6, ExamineDoes
    <2>3. CASE EndRun
      BY <1>1, <2>1, <2>3 DEF Owns
    <2>4. CASE /\ job'.sha = None /\ job'.existing = None /\ job'.before = EmptyDisk
               /\ UNCHANGED mem
      BY <1>0, <2>1, <2>4, EmptyDiskType DEF Owns
    <2>5. CASE /\ job'.before = job.before
               /\ job'.file = g /\ job'.sha = source[g]
               /\ job'.existing = IF g \in DOMAIN mem THEN mem[g] ELSE None
               /\ UNCHANGED mem
      BY <2>1, <2>5 DEF Owns
    <2> QED
      BY <2>2, <2>3, <2>4, <2>5
  <1>7. CASE Parse
    <2>1. UNCHANGED <<source, again, disk, manifest>>
      BY <1>7, ParseDoes
    <2>2. \/ EndRun
          \/ Moved /\ UNCHANGED mem
          \/ LocalsKept /\ UNCHANGED mem
          \/ /\ job'.file = job.file /\ job'.sha = job.sha
             /\ job'.existing = job.existing /\ job'.before = disk /\ UNCHANGED mem
      BY <1>7, ParseDoes
    <2>3. CASE EndRun
      BY <1>1, <2>1, <2>3 DEF Owns
    <2>4. CASE Moved /\ UNCHANGED mem
      BY <1>2, <2>1, <2>4 DEF Owns
    <2>5. CASE LocalsKept /\ UNCHANGED mem
      BY <1>3, <2>1, <2>5 DEF Owns
    <2>6. CASE /\ job'.file = job.file /\ job'.sha = job.sha
               /\ job'.existing = job.existing /\ job'.before = disk /\ UNCHANGED mem
      BY <2>1, <2>6 DEF Owns
    <2> QED
      BY <2>2, <2>3, <2>4, <2>5, <2>6
  <1>8. CASE SaveTree
    BY <1>3, <1>8, SaveTreeDoes DEF Owns
  <1>9. ASSUME job.stage \in Transaction, Rollback PROVE Owns(f, c) /\ again' = again
    <2>1. f \in DOMAIN disk'.raw /\ disk'.raw[f] = c => Owns(f, c)
      <3>1. disk'.raw = IF job.file \in DOMAIN job.before.raw
                        THEN Put(disk.raw, job.file, job.before.raw[job.file])
                        ELSE Drop(disk.raw, {job.file})
        BY <1>9, RollbackDoes, RestoredIs
      <3> QED
        BY <3>1 DEF Put, Drop, Owns
    <2> QED
      BY <1>1, <1>9, <2>1, RollbackDoes
  <1>10. CASE CopyRaw
    <2>1. CASE source[job.file] = Gone /\ Rollback
      BY <1>9, <1>10, <2>1, CopyRawDoes DEF Transaction
    <2>2. CASE ~(source[job.file] = Gone /\ Rollback)
      <3>1. /\ LocalsKept /\ UNCHANGED <<source, again, manifest, mem>>
            /\ disk'.raw = Put(disk.raw, job.file, source[job.file])
        BY <1>10, <2>2, CopyRawDoes
      <3>2. f \in DOMAIN disk'.raw /\ disk'.raw[f] = c => Owns(f, c)
        BY <3>1 DEF Put, Owns
      <3> QED
        BY <1>3, <3>1, <3>2
    <2> QED
      BY <2>1, <2>2
  <1>11. CASE WritePage
    BY <1>11, WritePageDoes DEF Owns
  <1>12. CASE RebuildIndex
    <2>1. CASE Rollback
      BY <1>9, <1>12, <2>1, RebuildIndexDoes DEF Transaction
    <2>2. CASE ~Rollback
      BY <1>3, <1>12, <2>2, RebuildIndexDoes DEF Owns
    <2> QED
      BY <2>1, <2>2
  <1>13. CASE ReplaceGraph
    BY <1>3, <1>13, ReplaceGraphDoes DEF Owns
  <1>14. CASE UpsertVectors
    BY <1>3, <1>14, UpsertVectorsDoes DEF Owns
  <1>15. CASE Commit
    <2>1. /\ LocalsKept /\ UNCHANGED <<source, again, disk>>
          /\ mem' = Put(mem, job.file, Entry(job.sha, job.slug)) /\ manifest' = mem'
      BY <1>15, CommitDoes
    <2>2. f \in DOMAIN mem' /\ mem'[f].sha = c => Owns(f, c)
      BY <2>1 DEF Put, Entry, Owns
    <2> QED
      BY <2>1, <2>2 DEF Owns, LocalsKept
  <1>16. CASE Sweep
    BY <1>2, <1>16, SweepDoes DEF Owns
  <1>17. CASE Unlink
    BY <1>3, <1>17, UnlinkDoes DEF Owns
  <1>18. CASE Reindex
    <2>1. CASE EndRun
      BY <1>1, <1>18, <2>1, ReindexDoes DEF Owns
    <2>2. CASE ~EndRun
      BY <1>3, <1>18, <2>2, ReindexDoes DEF Owns
    <2> QED
      BY <2>1, <2>2
  <1>19. CASE Detach
    BY <1>3, <1>19, DetachDoes DEF Owns
  <1>20. CASE Unembed
    BY <1>3, <1>20, UnembedDoes DEF Owns
  <1>21. CASE Untree
    BY <1>3, <1>21, UntreeDoes DEF Owns
  <1>22. CASE Unraw
    <2>1. f \in DOMAIN disk'.raw /\ disk'.raw[f] = c => Owns(f, c)
      BY <1>22, UnrawDoes DEF Drop, Owns
    <2> QED
      BY <1>3, <1>22, <2>1, UnrawDoes
  <1>23. CASE Forget
    <2>1. f \in DOMAIN mem' /\ mem'[f].sha = c => Owns(f, c)
      BY <1>23, ForgetDoes DEF Drop, Owns
    <2> QED
      BY <1>2, <1>23, <2>1, ForgetDoes
  <1>24. CASE AllFilesDone
    <2>1. CASE EndRun
      BY <1>1, <1>24, <2>1, AllFilesDoneDoes DEF Owns
    <2>2. CASE ~EndRun
      BY <1>3, <1>24, <2>2, AllFilesDoneDoes DEF Owns
    <2> QED
      BY <2>1, <2>2
  <1>25. CASE Prune
    <2>1. UNCHANGED <<source, again, disk, manifest>>
      BY <1>25, PruneDoes
    <2>2. PICK g \in DOMAIN mem \ job.listed :
             /\ mem' = Drop(mem, {g}) /\ job'.before = job.before
             /\ job'.sha = job.sha /\ job'.file = g /\ job'.existing = mem[g]
      BY <1>25, PruneDoes
    <2>3. f \in DOMAIN mem' /\ mem'[f].sha = c => Owns(f, c)
      BY <2>2 DEF Drop, Owns
    <2>4. job.stage = "prune"
      BY <1>25, PruneDoes
    <2> QED
      BY <1>0, <2>1, <2>2, <2>3, <2>4 DEF Owns, LocalsInv
  <1>26. CASE Pruned
    <2>1. /\ DOMAIN mem' = {} /\ DOMAIN job'.before.raw = {}
          /\ job'.sha = None /\ job'.existing = None
          /\ UNCHANGED <<source, again, disk>> /\ manifest' = mem
      BY <1>26, PrunedDoes, Ending, IdleIs, EmptyDiskType
    <2> QED
      BY <1>0, <2>1 DEF Owns
  <1>27. CASE Fail
    BY <1>9, <1>27, FailDoes
  <1>28. CASE CutShort
    <2>1. EndRun /\ UNCHANGED <<source, again, manifest>> /\ disk'.raw = disk.raw
      BY <1>28, CutShortDoes
    <2> QED
      BY <1>1, <2>1 DEF Owns
  <1>29. CASE LoseManifest
    BY <1>29, LoseManifestDoes DEF Owns
  <1> QED
    BY <1>4, <1>5, <1>6, <1>7, <1>8, <1>10, <1>11, <1>12, <1>13, <1>14, <1>15,
       <1>16, <1>17, <1>18, <1>19, <1>20, <1>21, <1>22, <1>23, <1>24, <1>25, <1>26,
       <1>27, <1>28, <1>29 DEF Next, Ingest, DeleteArtifacts

\* Initially no content is in use.
LEMMA ClaimsInit == Init => ClaimsInv
  <1> SUFFICES ASSUME Init, NEW f \in Files, NEW c \in Contents PROVE ~Owns(f, c)
    BY DEF ClaimsInv
  <1>1. /\ source[f] = Gone /\ mem = Nothing /\ manifest = Nothing
        /\ disk = EmptyDisk /\ job = Idle
    BY DEF Init
  <1>2. c # None /\ c # Gone
    BY IngestAssumption
  <1>3. /\ DOMAIN disk.raw = {} /\ DOMAIN job.before.raw = {} /\ DOMAIN Nothing = {}
        /\ job.sha = None /\ job.existing = None
    BY <1>1, IdleIs, EmptyDiskType, NothingPartial
  <1> HIDE DEF Nothing, Idle, EmptyDisk
  <1> QED
    BY <1>1, <1>2, <1>3 DEF Owns

\* An edit adds to what files own the content that it draws.
LEMMA EditOwns ==
    ASSUME TypeInv, NEW e \in Files, NEW x \in Contents \cup {Gone}, Edit(e, x),
           NEW f \in Files, NEW c \in Contents, Owns(f, c)'
    PROVE  Owns(f, c) \/ (f = e /\ c = x)
  <1>1. /\ source'[e] = x /\ \A g \in Files \ {e} : source'[g] = source[g]
        /\ UNCHANGED <<disk, manifest, mem, job>>
    BY EditDoes
  <1> QED
    BY <1>1 DEF Owns

\* No two files own the same, as long as it has not come again.
LEMMA ClaimsStep ==
    ASSUME TypeInv, LocalsInv, ClaimsInv, [Next]_vars
    PROVE  ClaimsInv'
  <1>1. CASE \A g \in Files, x \in Contents \cup {Gone} : ~Edit(g, x)
    <2> SUFFICES ASSUME NEW f \in Files, NEW c \in Contents \ again', Owns(f, c)'
                 PROVE  \A g \in Files : Owns(g, c)' => g = f
      BY DEF ClaimsInv
    <2>1. Owns(f, c) /\ again' = again
      BY <1>1, OwnsStep
    <2>2. \A g \in Files : Owns(g, c)' => Owns(g, c)
      BY <1>1, OwnsStep
    <2> QED
      BY <2>1, <2>2 DEF ClaimsInv
  <1>2. ASSUME NEW e \in Files, NEW x \in Contents \cup {Gone}, Edit(e, x)
        PROVE  ClaimsInv'
    <2> SUFFICES ASSUME NEW f \in Files, NEW c \in Contents \ again', Owns(f, c)',
                        NEW g \in Files, Owns(g, c)'
                 PROVE  g = f
      BY DEF ClaimsInv
    <2>1. c \notin again /\ (c = x => ~ComesAgain(e, x))
      BY <1>2, EditDoes
    <2>2. (Owns(f, c) \/ (f = e /\ c = x)) /\ (Owns(g, c) \/ (g = e /\ c = x))
      BY <1>2, EditOwns
    <2>3. c = x => \A h \in Files \ {e} : ~Owns(h, c)
      <3>1. Gone \notin Contents
        BY IngestAssumption
      <3> HIDE DEF Owns
      <3> QED
        BY <2>1, <3>1 DEF ComesAgain
    <2>4. Owns(f, c) /\ Owns(g, c) => g = f
      BY <2>1 DEF ClaimsInv
    <2> HIDE DEF Owns
    <2> QED
      BY <2>2, <2>3, <2>4
  <1> QED
    BY <1>1, <1>2

\* Only an edit changes the sources.
LEMMA SourceKept ==
    ASSUME [Next]_vars, \A g \in Files, x \in Contents \cup {Gone} : ~Edit(g, x)
    PROVE  UNCHANGED <<source, again>>
  <1>1. Ingest => UNCHANGED <<source, again>>
    BY DEF Ingest, Examine, Parse, SaveTree, CopyRaw, WritePage, RebuildIndex, ReplaceGraph,
           UpsertVectors, Commit, Sweep, Write, Rollback
  <1>2. DeleteArtifacts => UNCHANGED <<source, again>>
    BY DEF DeleteArtifacts, Unlink, Reindex, Detach, Unembed, Untree, Unraw, Forget, Write
  <1> QED
    BY <1>1, <1>2 DEF Next, vars, Start, AllFilesDone, Prune, Pruned, Fail, Rollback, CutShort,
                      LoseManifest

\* What has come again stays so.
LEMMA AgainGrows ==
    ASSUME TypeInv, [Next]_vars
    PROVE  again \subseteq again'
  <1>1. CASE \A g \in Files, x \in Contents \cup {Gone} : ~Edit(g, x)
    BY <1>1, SourceKept
  <1>2. ASSUME NEW g \in Files, NEW x \in Contents \cup {Gone}, Edit(g, x)
        PROVE  again \subseteq again'
    BY <1>2, EditDoes
  <1> QED
    BY <1>1, <1>2

-----------------------------------------------------------------------------
(* The manifest of a run *)

\* Initially no run is under way.
LEMMA MemInit == Init => MemInv
  <1> SUFFICES ASSUME Init PROVE MemInv
    OBVIOUS
  <1>1. job.stage = "idle" /\ job.existing = None
    BY IdleIs DEF Init
  <1> QED
    BY <1>1 DEF MemInv, HasEntry, Transaction, Removal, PastPage, PastIndex, PastGraph,
                PastVector

\* The manifest in memory stays that on disk, but for what is pruned.
LEMMA MemStep ==
    ASSUME TypeInv, LocalsInv, MemInv, [Next]_vars
    PROVE  MemInv'
  <1> USE DEF Transaction, Removal, PastPage, PastIndex, PastGraph, PastVector
  <1>0. ASSUME EndRun PROVE MemInv'
    BY <1>0, Ending, IdleIs DEF MemInv
  \* Steps that keep the locals and the manifest.
  <1>1. ASSUME LocalsKept, UNCHANGED <<manifest, mem>>, job.stage # "idle",
               \/ <<job.stage, job'.stage>> \in
                     {<<"tree", "copy">>, <<"copy", "page">>, <<"index", "graph">>,
                      <<"graph", "vector">>, <<"vector", "commit">>,
                      <<"unlink", "reindex">>, <<"reindex", "detach">>,
                      <<"detach", "unembed">>, <<"unembed", "untree">>,
                      <<"untree", "unraw">>, <<"pick", "prune">>}
               \/ job.stage = "unraw" /\ job'.stage = "prune" /\ job.todo = {}
               \/ job.stage = "unraw" /\ job'.stage = "forget" /\ job.todo # {}
        PROVE  MemInv'
    BY <1>1 DEF LocalsKept, MemInv, LocalsInv, HasEntry
  <1>2. ASSUME Moved, mem' = manifest', mem' \in Manifests PROVE MemInv'
    <2>1. manifest' # Lost
      BY <1>2, ManifestIsNotLost
    <2> QED
      BY <1>2, <2>1 DEF Moved, MemInv, HasEntry
  <1>3. CASE UNCHANGED vars
    BY <1>3 DEF vars, MemInv
  <1>4. ASSUME NEW prune \in BOOLEAN, Start(prune) PROVE MemInv'
    <2>1. job'.stage = "pick" /\ mem' = manifest' /\ mem' \in Manifests
          /\ job'.existing = None
      BY <1>4, StartDoes
    <2>2. manifest' # Lost
      BY <2>1, ManifestIsNotLost
    <2> QED
      BY <2>1, <2>2 DEF MemInv, HasEntry
  <1>5. CASE Examine
    <2>1. PICK f \in job.todo :
             \/ EndRun
             \/ /\ job'.stage = "pick" /\ job'.existing = None /\ UNCHANGED mem
             \/ /\ job'.stage = "parse" /\ job'.file = f
                /\ job'.existing = IF f \in DOMAIN mem THEN mem[f] ELSE None
                /\ UNCHANGED mem
      BY <1>5, ExamineDoes
    <2>2. job.stage = "pick" /\ UNCHANGED manifest
      BY <1>5, ExamineDoes
    <2> QED
      BY <1>0, <2>1, <2>2 DEF MemInv, HasEntry
  <1>6. CASE Parse
    <2>1. job.stage = "parse" /\ UNCHANGED manifest /\ job.file \in job.todo
      BY <1>6, ParseDoes DEF LocalsInv
    <2>2. \/ EndRun
          \/ Moved /\ UNCHANGED mem
          \/ job.existing # None /\ job'.stage = "unlink" /\ LocalsKept /\ UNCHANGED mem
          \/ /\ job'.stage = "tree" /\ job'.file = job.file /\ job'.existing = job.existing
             /\ UNCHANGED mem
      BY <1>6, ParseDoes
    <2>3. mem = manifest /\ mem \in Manifests
          /\ job.existing = IF job.file \in DOMAIN mem THEN mem[job.file] ELSE None
      BY <2>1 DEF MemInv, TypeInv
    <2> QED
      BY <1>0, <1>2, <2>1, <2>2, <2>3 DEF MemInv, HasEntry, LocalsKept
  <1>7. CASE SaveTree
    BY <1>1, <1>7, SaveTreeDoes
  <1>8. ASSUME Rollback PROVE MemInv'
    BY <1>0, <1>8 DEF Rollback
  <1>9. CASE CopyRaw
    BY <1>1, <1>8, <1>9, CopyRawDoes
  <1>10. CASE WritePage
    <2>1. job.file \in Files
      BY <1>10, WritePageDoes DEF LocalsInv
    <2> QED
      BY <1>10, <2>1, WritePageDoes, PageSlugIs DEF MemInv, HasEntry
  <1>11. CASE RebuildIndex
    BY <1>1, <1>8, <1>11, RebuildIndexDoes
  <1>12. CASE ReplaceGraph
    BY <1>1, <1>12, ReplaceGraphDoes
  <1>13. CASE UpsertVectors
    BY <1>1, <1>13, UpsertVectorsDoes
  <1>14. CASE Commit
    <2>1. /\ job.stage = "commit" /\ job'.stage = "sweep" /\ LocalsKept
          /\ mem' = Put(mem, job.file, Entry(job.sha, job.slug)) /\ manifest' = mem'
          /\ mem' \in Manifests
      BY <1>14, CommitDoes
    <2>2. manifest' # Lost
      BY <2>1, ManifestIsNotLost
    <2>3. job.file \in DOMAIN mem' /\ mem'[job.file] = Entry(job.sha, job.slug)
      BY <2>1 DEF Put
    <2> QED
      BY <2>1, <2>2, <2>3 DEF MemInv, LocalsKept, HasEntry, Entry
  <1>15. CASE Sweep
    BY <1>2, <1>15, SweepDoes DEF MemInv, TypeInv
  <1>16. CASE Unlink
    BY <1>1, <1>16, UnlinkDoes
  <1>17. CASE Reindex
    BY <1>0, <1>1, <1>17, ReindexDoes
  <1>18. CASE Detach
    BY <1>1, <1>18, DetachDoes
  <1>19. CASE Unembed
    BY <1>1, <1>19, UnembedDoes
  <1>20. CASE Untree
    BY <1>1, <1>20, UntreeDoes
  <1>21. CASE Unraw
    BY <1>1, <1>21, UnrawDoes
  <1>22. CASE Forget
    BY <1>2, <1>22, ForgetDoes
  <1>23. CASE AllFilesDone
    BY <1>0, <1>1, <1>23, AllFilesDoneDoes
  <1>24. CASE Prune
    <2>1. PICK f \in DOMAIN mem \ job.listed :
             /\ mem' = Drop(mem, {f}) /\ job'.stage = "unlink"
             /\ job'.todo = job.todo /\ job'.listed = job.listed
             /\ job'.file = f /\ job'.existing = mem[f]
      BY <1>24, PruneDoes
    <2>2. job.stage = "prune" /\ UNCHANGED manifest /\ job.todo = {}
      BY <1>24, PruneDoes DEF LocalsInv
    <2>3. \A g \in DOMAIN mem' : g \in DOMAIN mem /\ mem'[g] = mem[g] /\ g # f
      BY <2>1 DEF Drop
    <2> QED
      BY <2>1, <2>2, <2>3 DEF MemInv, HasEntry
  <1>25. CASE Pruned
    BY <1>0, <1>25, PrunedDoes
  <1>26. CASE Fail
    BY <1>8, <1>26, FailDoes
  <1>27. ASSUME NEW f \in Files, NEW c \in Contents \cup {Gone}, Edit(f, c)
         PROVE  MemInv'
    BY <1>27, EditDoes DEF MemInv, HasEntry, Derived
  <1>28. CASE CutShort
    BY <1>0, <1>28, CutShortDoes
  <1>29. CASE LoseManifest
    BY <1>29, LoseManifestDoes DEF MemInv, HasEntry, Derived
  <1> QED
    BY <1>3, <1>4, <1>5, <1>6, <1>7, <1>9, <1>10, <1>11, <1>12, <1>13, <1>14, <1>15,
       <1>16, <1>17, <1>18, <1>19, <1>20, <1>21, <1>22, <1>23, <1>24, <1>25, <1>26,
       <1>27, <1>28, <1>29 DEF Next, Ingest, DeleteArtifacts

-----------------------------------------------------------------------------
(* The source in work *)

\* During a run, an edit leaves what was different different.
LEMMA EditKeeps ==
    ASSUME TypeInv, job.stage # "idle",
           NEW e \in Files, NEW x \in Contents \cup {Gone}, Edit(e, x),
           NEW f \in Files, NEW c \in Contents \ again', Owns(f, c), source'[f] = c
    PROVE  source[f] = c
  <1>1. c = x /\ f = e => ~ComesAgain(e, x)
    BY EditDoes
  <1>2. Gone \notin Contents
    BY IngestAssumption
  <1> HIDE DEF Owns
  <1>3. ~(c = x /\ f = e)
    BY <1>1, <1>2 DEF ComesAgain
  <1> QED
    BY <1>3, EditDoes

\* Initially no source is in work.
LEMMA DoneInit == Init => DoneInv /\ TextInv /\ NotYetInv
  <1> SUFFICES ASSUME Init PROVE DoneInv /\ TextInv /\ NotYetInv
    OBVIOUS
  <1>1. job.stage = "idle"
    BY IdleIs DEF Init
  <1> QED
    BY <1>1 DEF DoneInv, TextInv, NotYetInv, Transaction, Removal, PastTree, PastCopy,
                PastPage, PastIndex, PastGraph, PastVector

\* What a run has written of its source stays until it is done with it.
LEMMA DoneStep ==
    ASSUME TypeInv, LocalsInv, DoneInv, [Next]_vars
    PROVE  DoneInv'
  <1> USE DEF Transaction, PastTree, PastCopy, PastPage, PastIndex, PastGraph, PastVector
  <1>0. ASSUME EndRun PROVE DoneInv'
    BY <1>0, Ending, IdleIs DEF DoneInv
  <1>1. ASSUME Moved PROVE DoneInv'
    BY <1>1 DEF Moved, DoneInv
  <1>2. ASSUME job'.stage \notin PastTree PROVE DoneInv'
    BY <1>2 DEF DoneInv
  <1>3. CASE UNCHANGED vars
    BY <1>3 DEF vars, DoneInv
  <1>4. ASSUME NEW prune \in BOOLEAN, Start(prune) PROVE DoneInv'
    BY <1>2, <1>4, StartDoes
  <1>5. CASE Examine
    BY <1>0, <1>2, <1>5, ExamineDoes
  <1>6. CASE Parse
    BY <1>0, <1>1, <1>2, <1>6, ParseDoes
  <1>7. CASE SaveTree
    <2>1. /\ StemOf[job.file] \in DOMAIN disk'.trees
          /\ disk'.trees[StemOf[job.file]] = Tree(job.file, job.sha, job.text)
      BY <1>7, SaveTreeDoes DEF Put
    <2> QED
      BY <1>7, <2>1, SaveTreeDoes DEF LocalsKept, DoneInv
  <1>8. ASSUME Rollback PROVE DoneInv'
    BY <1>0, <1>8 DEF Rollback
  <1>9. CASE CopyRaw
    <2>1. CASE source[job.file] = Gone /\ Rollback
      BY <1>8, <2>1
    <2>2. CASE ~(source[job.file] = Gone /\ Rollback)
      <3>1. job.file \in DOMAIN disk'.raw /\ disk'.raw[job.file] = source[job.file]
        BY <1>9, <2>2, CopyRawDoes DEF Put
      <3> QED
        BY <1>9, <2>2, <3>1, CopyRawDoes DEF LocalsKept, DoneInv
    <2> QED
      BY <2>1, <2>2
  <1>10. CASE WritePage
    <2> DEFINE s == PageSlug
    <2>1. s \in DOMAIN disk'.pages /\ disk'.pages[s] = Artifact(job.file, job.text)
          /\ job'.slug = s
      BY <1>10, WritePageDoes DEF Put
    <2> HIDE DEF s
    <2> QED
      BY <1>10, <2>1, WritePageDoes DEF DoneInv
  <1>11. CASE RebuildIndex
    BY <1>8, <1>11, RebuildIndexDoes DEF LocalsKept, DoneInv
  <1>12. CASE ReplaceGraph
    <2>1. job.file \in DOMAIN disk'.graph /\ disk'.graph[job.file] = job.text
      BY <1>12, ReplaceGraphDoes DEF Put
    <2> QED
      BY <1>12, <2>1, ReplaceGraphDoes DEF LocalsKept, DoneInv
  <1>13. CASE UpsertVectors
    <2>1. /\ job.sha \in DOMAIN disk'.vectors
          /\ disk'.vectors[job.sha] = Artifact(job.file, job.text)
      BY <1>13, UpsertVectorsDoes DEF Put
    <2> QED
      BY <1>13, <2>1, UpsertVectorsDoes DEF LocalsKept, DoneInv
  <1>14. CASE Commit
    BY <1>14, CommitDoes DEF LocalsKept, DoneInv
  <1>15. CASE Sweep
    BY <1>1, <1>15, SweepDoes
  <1>16. CASE Unlink
    BY <1>2, <1>16, UnlinkDoes
  <1>17. CASE Reindex
    BY <1>0, <1>2, <1>17, ReindexDoes
  <1>18. CASE Detach
    BY <1>2, <1>18, DetachDoes
  <1>19. CASE Unembed
    BY <1>2, <1>19, UnembedDoes
  <1>20. CASE Untree
    BY <1>2, <1>20, UntreeDoes
  <1>21. CASE Unraw
    BY <1>2, <1>21, UnrawDoes
  <1>22. CASE Forget
    BY <1>1, <1>22, ForgetDoes
  <1>23. CASE AllFilesDone
    BY <1>0, <1>2, <1>23, AllFilesDoneDoes
  <1>24. CASE Prune
    BY <1>2, <1>24, PruneDoes
  <1>25. CASE Pruned
    BY <1>0, <1>25, PrunedDoes
  <1>26. CASE Fail
    BY <1>8, <1>26, FailDoes
  <1>27. ASSUME NEW f \in Files, NEW c \in Contents \cup {Gone}, Edit(f, c)
         PROVE  DoneInv'
    <2>1. UNCHANGED <<disk, job>>
      BY <1>27, EditDoes
    <2>2. job.stage \in PastCopy => job.file \in Files /\ job.sha \in Contents
      BY DEF LocalsInv
    <2>3. ASSUME job.stage \in PastCopy, source'[job.file] = job.sha, job.sha \notin again'
          PROVE  source[job.file] = job.sha /\ job.sha \notin again
      <3>1. Owns(job.file, job.sha)
        BY DEF Owns
      <3>2. job.stage # "idle" /\ again \subseteq again'
        BY <1>27, <2>3, EditDoes
      <3> HIDE DEF Owns
      <3> QED
        BY <1>27, <2>2, <2>3, <3>1, <3>2, EditKeeps
    <2> QED
      BY <2>1, <2>3 DEF DoneInv
  <1>28. CASE CutShort
    BY <1>0, <1>28, CutShortDoes
  <1>29. CASE LoseManifest
    BY <1>2, <1>29, LoseManifestDoes
  <1> QED
    BY <1>3, <1>4, <1>5, <1>6, <1>7, <1>9, <1>10, <1>11, <1>12, <1>13, <1>14, <1>15,
       <1>16, <1>17, <1>18, <1>19, <1>20, <1>21, <1>22, <1>23, <1>24, <1>25, <1>26,
       <1>27, <1>28, <1>29 DEF Next, Ingest, DeleteArtifacts

\* Only Parse sets the text, which then stays.
LEMMA TextStep ==
    ASSUME TypeInv, LocalsInv, TextInv, [Next]_vars
    PROVE  TextInv'
  <1> USE DEF Transaction
  <1>1. ASSUME UNCHANGED <<source, again>>,
               job'.stage \in {"sweep"} \cup Transaction =>
                  /\ job.stage \in {"sweep"} \cup Transaction
                  /\ job'.file = job.file /\ job'.sha = job.sha /\ job'.text = job.text
        PROVE  TextInv'
    BY <1>1 DEF TextInv
  <1>2. ASSUME EndRun, UNCHANGED <<source, again>> PROVE TextInv'
    BY <1>1, <1>2, Ending, IdleIs
  <1>3. ASSUME Rollback PROVE TextInv'
    BY <1>2, <1>3 DEF Rollback
  <1>4. ASSUME NEW prune \in BOOLEAN, Start(prune) PROVE TextInv'
    BY <1>1, <1>4, StartDoes
  <1>5. CASE Examine
    BY <1>1, <1>2, <1>5, ExamineDoes
  <1>6. CASE Parse
    BY <1>1, <1>2, <1>6, ParseDoes DEF Moved, LocalsKept, TextInv
  <1>7. CASE SaveTree \/ ReplaceGraph \/ UpsertVectors \/ Commit
    BY <1>1, <1>7, SaveTreeDoes, ReplaceGraphDoes, UpsertVectorsDoes, CommitDoes
       DEF LocalsKept
  <1>8. CASE CopyRaw
    BY <1>1, <1>3, <1>8, CopyRawDoes DEF LocalsKept
  <1>9. CASE WritePage
    BY <1>1, <1>9, WritePageDoes
  <1>10. CASE RebuildIndex
    BY <1>1, <1>3, <1>10, RebuildIndexDoes DEF LocalsKept
  <1>11. CASE Sweep \/ Forget
    BY <1>1, <1>11, SweepDoes, ForgetDoes DEF Moved
  <1>12. CASE Unlink \/ Detach \/ Unembed \/ Untree \/ Unraw
    BY <1>1, <1>12, UnlinkDoes, DetachDoes, UnembedDoes, UntreeDoes, UnrawDoes
  <1>13. CASE Reindex
    BY <1>1, <1>2, <1>13, ReindexDoes
  <1>14. CASE AllFilesDone
    BY <1>1, <1>2, <1>14, AllFilesDoneDoes
  <1>15. CASE Prune
    BY <1>1, <1>15, PruneDoes
  <1>16. CASE Pruned
    BY <1>2, <1>16, PrunedDoes
  <1>17. CASE Fail
    BY <1>3, <1>17, FailDoes
  <1>18. ASSUME NEW f \in Files, NEW c \in Contents \cup {Gone}, Edit(f, c)
         PROVE  TextInv'
    <2>1. UNCHANGED job
      BY <1>18, EditDoes
    <2>2. ASSUME job.stage \in {"sweep"} \cup Transaction, source'[job.file] = job.sha,
                 job.sha \notin again'
          PROVE  source[job.file] = job.sha /\ job.sha \notin again
      <3>1. job.file \in Files /\ job.sha \in Contents
        BY <2>2 DEF LocalsInv
      <3>2. Owns(job.file, job.sha)
        BY DEF Owns
      <3>3. job.stage # "idle" /\ again \subseteq again'
        BY <1>18, <2>2, EditDoes
      <3> HIDE DEF Owns
      <3> QED
        BY <1>18, <2>2, <3>1, <3>2, <3>3, EditKeeps
    <2> QED
      BY <2>1, <2>2 DEF TextInv
  <1>19. CASE CutShort
    BY <1>2, <1>19, CutShortDoes
  <1>20. CASE LoseManifest \/ UNCHANGED vars
    BY <1>1, <1>20, LoseManifestDoes DEF vars
  <1> QED
    BY <1>4, <1>5, <1>6, <1>7, <1>8, <1>9, <1>10, <1>11, <1>12, <1>13, <1>14, <1>15,
       <1>16, <1>17, <1>18, <1>19, <1>20 DEF Next, Ingest, DeleteArtifacts

\* No step makes a source in work look unchanged.
LEMMA NotYetStep ==
    ASSUME TypeInv, LocalsInv, MemInv, NotYetInv, [Next]_vars
    PROVE  NotYetInv'
  <1> USE DEF Transaction, Removal
  <1>0. ASSUME EndRun PROVE NotYetInv'
    BY <1>0, Ending, IdleIs DEF NotYetInv, HasEntry
  <1>1. ASSUME Moved, UNCHANGED <<source, again, manifest>>, job.stage \notin {"idle", "fix"}
        PROVE  NotYetInv'
    BY <1>1 DEF Moved, NotYetInv, HasEntry
  \* Steps of one source that write no vectors.
  <1>2. ASSUME LocalsKept, UNCHANGED <<source, again, manifest>>, disk'.vectors = disk.vectors,
               \/ /\ job.stage \in {"tree", "copy", "page", "index", "graph"}
                  /\ job'.stage \in {"copy", "page", "index", "graph", "vector"}
               \/ /\ job.stage \in Removal
                  /\ job'.stage \in Removal \cup {"prune", "forget"}
               \/ job.stage = "pick" /\ job'.stage = "prune"
        PROVE  NotYetInv'
    BY <1>2 DEF LocalsKept, NotYetInv, HasEntry, Derived
  <1>3. CASE UNCHANGED vars
    BY <1>3 DEF vars, NotYetInv, HasEntry, Derived
  <1>4. ASSUME NEW prune \in BOOLEAN, Start(prune) PROVE NotYetInv'
    <2>1. /\ job'.stage = "pick" /\ job'.listed = {f \in Files : source[f] # Gone}
          /\ manifest' \in Manifests /\ UNCHANGED <<source, again>>
      BY <1>4, StartDoes
    <2>2. ASSUME NEW f \in DOMAIN manifest' \ job'.listed
          PROVE  manifest'[f].sha # source[f]
      <3>1. f \in Files /\ manifest'[f].sha \in Contents
        BY <2>1, EntryOf, EntryHas
      <3> QED
        BY <2>1, <3>1, IngestAssumption
    <2> QED
      BY <2>1, <2>2 DEF NotYetInv
  <1>5. CASE Examine
    <2>1. job.stage = "pick" /\ UNCHANGED <<source, again, disk, manifest>>
      BY <1>5, ExamineDoes
    <2>2. PICK f \in job.todo :
             \/ EndRun
             \/ job'.stage = "pick" /\ job'.listed = job.listed
             \/ /\ ~(f \in DOMAIN mem /\ CanSkip(mem[f], source[f]))
                /\ job'.stage = "parse" /\ job'.listed = job.listed
                /\ job'.file = f /\ job'.sha = source[f]
                /\ job'.existing = IF f \in DOMAIN mem THEN mem[f] ELSE None
      BY <1>5, ExamineDoes
    <2> QED
      BY <1>0, <2>1, <2>2 DEF NotYetInv, HasEntry, CanSkip, Derived
  <1>6. CASE Parse
    <2>1. job.stage = "parse" /\ UNCHANGED <<source, again, disk, manifest>>
      BY <1>6, ParseDoes
    <2>2. \/ EndRun
          \/ Moved
          \/ source[job.file] \in Blank /\ job'.stage = "unlink" /\ LocalsKept
          \/ /\ job'.stage = "tree" /\ job'.listed = job.listed
             /\ job'.file = job.file /\ job'.sha = job.sha /\ job'.existing = job.existing
      BY <1>6, ParseDoes
    <2>3. CASE source[job.file] \in Blank /\ job'.stage = "unlink" /\ LocalsKept
      BY <2>1, <2>3 DEF NotYetInv, LocalsKept, Textual
    <2>4. CASE /\ job'.stage = "tree" /\ job'.listed = job.listed
               /\ job'.file = job.file /\ job'.sha = job.sha /\ job'.existing = job.existing
      BY <2>1, <2>4 DEF NotYetInv, HasEntry, Derived
    <2> QED
      BY <1>0, <1>1, <2>1, <2>2, <2>3, <2>4
  <1>7. CASE SaveTree
    BY <1>2, <1>7, SaveTreeDoes
  <1>8. ASSUME Rollback PROVE NotYetInv'
    BY <1>0, <1>8 DEF Rollback
  <1>9. CASE CopyRaw
    BY <1>2, <1>8, <1>9, CopyRawDoes
  <1>10. CASE WritePage
    BY <1>10, WritePageDoes DEF NotYetInv, HasEntry, Derived
  <1>11. CASE RebuildIndex
    BY <1>2, <1>8, <1>11, RebuildIndexDoes
  <1>12. CASE ReplaceGraph
    BY <1>2, <1>12, ReplaceGraphDoes
  <1>13. CASE UpsertVectors
    BY <1>13, UpsertVectorsDoes DEF NotYetInv, LocalsKept, HasEntry, Derived
  <1>14. CASE Commit
    <2>1. /\ job.stage = "commit" /\ job'.stage = "sweep" /\ LocalsKept
          /\ mem' = Put(mem, job.file, Entry(job.sha, job.slug)) /\ manifest' = mem'
          /\ UNCHANGED <<source, again>>
      BY <1>14, CommitDoes
    <2>2. job.file \in job.listed /\ mem = manifest
      BY <2>1 DEF LocalsInv, MemInv
    <2>3. \A f \in DOMAIN manifest' \ job.listed : f \in DOMAIN manifest /\ manifest'[f] = manifest[f]
      BY <2>1, <2>2 DEF Put
    <2> QED
      BY <2>1, <2>3 DEF NotYetInv, LocalsKept
  <1>15. CASE Sweep
    BY <1>1, <1>15, SweepDoes
  <1>16. CASE Unlink
    BY <1>2, <1>16, UnlinkDoes
  <1>17. CASE Reindex
    BY <1>0, <1>2, <1>17, ReindexDoes
  <1>18. CASE Detach
    BY <1>2, <1>18, DetachDoes
  <1>19. CASE Unembed
    BY <1>19, UnembedDoes DEF NotYetInv, LocalsKept
  <1>20. CASE Untree
    BY <1>2, <1>20, UntreeDoes
  <1>21. CASE Unraw
    BY <1>2, <1>21, UnrawDoes
  <1>22. CASE Forget
    <2>1. /\ job.stage = "forget" /\ Moved /\ manifest' = Drop(mem, {job.file})
          /\ UNCHANGED <<source, again>>
      BY <1>22, ForgetDoes
    <2>2. mem = manifest
      BY <2>1 DEF MemInv
    <2>3. \A f \in DOMAIN manifest' : f \in DOMAIN manifest /\ manifest'[f] = manifest[f]
      BY <2>1, <2>2 DEF Drop
    <2> QED
      BY <2>1, <2>3 DEF NotYetInv, Moved, HasEntry
  <1>23. CASE AllFilesDone
    BY <1>0, <1>2, <1>23, AllFilesDoneDoes
  <1>24. CASE Prune
    <2>1. job.stage = "prune" /\ UNCHANGED <<source, again, disk, manifest>>
      BY <1>24, PruneDoes
    <2>2. PICK f \in DOMAIN mem \ job.listed :
             /\ job'.stage = "unlink" /\ job'.listed = job.listed
             /\ job'.file = f /\ job'.existing = mem[f]
      BY <1>24, PruneDoes
    <2>3. f \in DOMAIN manifest /\ manifest[f] = mem[f]
      BY <2>1 DEF MemInv
    <2> QED
      BY <2>1, <2>2, <2>3 DEF NotYetInv
  <1>25. CASE Pruned
    BY <1>0, <1>25, PrunedDoes
  <1>26. CASE Fail
    BY <1>8, <1>26, FailDoes
  <1>27. ASSUME NEW e \in Files, NEW c \in Contents \cup {Gone}, Edit(e, c)
         PROVE  NotYetInv'
    <2>0. again \subseteq again'
      BY <1>27, EditDoes
    <2>1. UNCHANGED <<disk, manifest, job>>
      BY <1>27, EditDoes
    <2>2. ASSUME job.stage \in {"parse", "forget"} \cup Transaction \cup Removal,
                 HasEntry(job.existing) \/ job.stage \in {"forget"} \cup Removal,
                 job.existing.sha = source'[job.file], job.existing.sha \notin again'
          PROVE  job.existing.sha = source[job.file] /\ job.existing.sha \notin again
      <3>1. job.file \in Files /\ job.existing \in Entries
        BY <2>2, JobHas DEF LocalsInv, HasEntry, TypeInv
      <3>2. job.existing.sha \in Contents /\ job.existing # None
        BY <3>1, EntryHas
      <3>3. Owns(job.file, job.existing.sha)
        BY <3>2 DEF Owns
      <3>4. job.stage # "idle"
        BY <2>2
      <3> HIDE DEF Owns
      <3> QED
        BY <1>27, <2>0, <2>2, <3>1, <3>2, <3>3, <3>4, EditKeeps
    <2>3. ASSUME NEW f \in DOMAIN manifest \ job.listed, job.stage \notin {"idle", "fix"},
                 manifest[f].sha = source'[f], manifest[f].sha \notin again'
          PROVE  manifest[f].sha = source[f] /\ manifest[f].sha \notin again
      <3>1. manifest # Lost /\ manifest \in Manifests
        BY <2>3 DEF MemInv, TypeInv
      <3>2. f \in Files /\ manifest[f].sha \in Contents
        BY <3>1, EntryOf, EntryHas
      <3>3. Owns(f, manifest[f].sha)
        BY <2>3, <3>1 DEF Owns
      <3> HIDE DEF Owns
      <3> QED
        BY <1>27, <2>0, <2>3, <3>1, <3>2, <3>3, EditKeeps
    <2>4. (HasEntry(job.existing) <=> HasEntry(job.existing)')
      BY <2>1 DEF HasEntry, Derived
    <2>5. job.stage \in {"parse"} \cup Transaction /\ HasEntry(job.existing)
          /\ job.existing.sha = source'[job.file] /\ job.existing.sha \notin again' =>
             /\ job.existing.sha = job.sha
             /\ (job.stage # "commit") => job.existing.sha \notin DOMAIN disk.vectors
      BY <2>2 DEF NotYetInv
    <2>6. job.stage \in {"forget"} \cup Removal /\ source'[job.file] \in Textual \ again' =>
             job.existing.sha # source'[job.file]
      BY <2>2 DEF NotYetInv
    <2>7. job.stage \notin {"idle", "fix"} =>
             \A f \in DOMAIN manifest \ job.listed :
                 manifest[f].sha \notin again' => manifest[f].sha # source'[f]
      BY <2>3 DEF NotYetInv
    <2> QED
      BY <2>1, <2>4, <2>5, <2>6, <2>7 DEF NotYetInv
  <1>28. CASE CutShort
    BY <1>0, <1>28, CutShortDoes
  <1>29. CASE LoseManifest
    BY <1>29, LoseManifestDoes DEF NotYetInv
  <1> QED
    BY <1>3, <1>4, <1>5, <1>6, <1>7, <1>9, <1>10, <1>11, <1>12, <1>13, <1>14, <1>15,
       <1>16, <1>17, <1>18, <1>19, <1>20, <1>21, <1>22, <1>23, <1>24, <1>25, <1>26,
       <1>27, <1>28, <1>29 DEF Next, Ingest, DeleteArtifacts

\* A transaction adds its writes to the layers it found.
LEMMA BeforeStep ==
    ASSUME TypeInv, LocalsInv, BeforeInv, [Next]_vars
    PROVE  BeforeInv'
  <1> USE DEF Transaction, PastTree, PastCopy, PastPage, PastIndex, PastGraph, PastVector
  <1>1. ASSUME job'.stage \notin {"sweep"} \cup Transaction PROVE BeforeInv'
    BY <1>1 DEF BeforeInv
  <1>2. ASSUME EndRun PROVE BeforeInv'
    BY <1>1, <1>2, Ending, IdleIs
  <1>3. ASSUME Rollback PROVE BeforeInv'
    BY <1>2, <1>3 DEF Rollback
  <1>4. ASSUME NEW prune \in BOOLEAN, Start(prune) PROVE BeforeInv'
    BY <1>1, <1>4, StartDoes
  <1>5. CASE Examine
    BY <1>1, <1>2, <1>5, ExamineDoes
  <1>6. CASE Parse
    <2>1. CASE job'.stage # "tree"
      BY <1>1, <1>2, <1>6, <2>1, ParseDoes DEF Moved
    <2>2. CASE job'.stage = "tree"
      <3>1. job'.before = disk /\ UNCHANGED disk
        BY <1>2, <1>6, <2>2, ParseDoes, Ending, IdleIs DEF Moved
      <3> QED
        BY <2>2, <3>1 DEF BeforeInv
    <2> QED
      BY <2>1, <2>2
  <1>7. CASE SaveTree
    BY <1>7, SaveTreeDoes DEF BeforeInv, LocalsKept
  <1>8. CASE CopyRaw
    <2>1. CASE source[job.file] = Gone /\ Rollback
      BY <1>3, <2>1
    <2>2. CASE ~(source[job.file] = Gone /\ Rollback)
      <3>1. disk'.raw[job.file] = source[job.file]
        BY <1>8, <2>2, CopyRawDoes DEF Put
      <3> QED
        BY <1>8, <2>2, <3>1, CopyRawDoes DEF BeforeInv, LocalsKept
    <2> QED
      BY <2>1, <2>2
  <1>9. CASE WritePage
    <2>1. job.file \in Files
      BY <1>9, WritePageDoes DEF LocalsInv
    <2>2. /\ HasEntry(job.existing) => PageSlug = job.existing.page
          /\ ~HasEntry(job.existing) => PageSlug \notin DOMAIN disk.pages
      BY <2>1, PageSlugIs
    <2> QED
      BY <1>9, <2>2, WritePageDoes DEF BeforeInv, HasEntry, Derived
  <1>10. CASE RebuildIndex
    BY <1>3, <1>10, RebuildIndexDoes DEF BeforeInv, LocalsKept, HasEntry, Derived
  <1>11. CASE ReplaceGraph
    BY <1>11, ReplaceGraphDoes DEF BeforeInv, LocalsKept, HasEntry, Derived
  <1>12. CASE UpsertVectors
    BY <1>12, UpsertVectorsDoes DEF BeforeInv, LocalsKept, HasEntry, Derived
  <1>13. CASE Commit
    BY <1>13, CommitDoes DEF BeforeInv, LocalsKept, HasEntry, Derived
  <1>14. CASE Sweep \/ Forget
    BY <1>1, <1>14, SweepDoes, ForgetDoes DEF Moved
  <1>15. CASE Unlink \/ Detach \/ Unembed \/ Untree \/ Unraw
    BY <1>1, <1>15, UnlinkDoes, DetachDoes, UnembedDoes, UntreeDoes, UnrawDoes
  <1>16. CASE Reindex
    BY <1>1, <1>2, <1>16, ReindexDoes
  <1>17. CASE AllFilesDone
    BY <1>1, <1>2, <1>17, AllFilesDoneDoes
  <1>18. CASE Prune
    BY <1>1, <1>18, PruneDoes
  <1>19. CASE Pruned
    BY <1>2, <1>19, PrunedDoes
  <1>20. CASE Fail
    BY <1>3, <1>20, FailDoes
  <1>21. ASSUME UNCHANGED <<disk, job>> PROVE BeforeInv'
    BY <1>21 DEF BeforeInv, HasEntry, Derived
  <1>22. ASSUME NEW f \in Files, NEW c \in Contents \cup {Gone}, Edit(f, c)
         PROVE  BeforeInv'
    BY <1>21, <1>22, EditDoes
  <1>23. CASE CutShort
    BY <1>2, <1>23, CutShortDoes
  <1>24. CASE LoseManifest \/ UNCHANGED vars
    BY <1>21, <1>24, LoseManifestDoes DEF vars
  <1> QED
    BY <1>4, <1>5, <1>6, <1>7, <1>8, <1>9, <1>10, <1>11, <1>12, <1>13, <1>14, <1>15,
       <1>16, <1>17, <1>18, <1>19, <1>20, <1>22, <1>23, <1>24 DEF Next, Ingest, DeleteArtifacts

-----------------------------------------------------------------------------
(* What a step leaves alone *)

\* A step changes the layers only at what belongs to f, at the page p and at the
\* vectors of s.
Touches(f, p, s) ==
    /\ \A k \in Stems \ {StemOf[f]} :
          k \in DOMAIN disk.trees => k \in DOMAIN disk'.trees /\ disk'.trees[k] = disk.trees[k]
    /\ \A k \in Files \ {f} :
          k \in DOMAIN disk.raw => k \in DOMAIN disk'.raw /\ disk'.raw[k] = disk.raw[k]
    /\ \A k \in Slugs \ {p} :
          k \in DOMAIN disk.pages => k \in DOMAIN disk'.pages /\ disk'.pages[k] = disk.pages[k]
    /\ \A k \in Files \ {f} :
          k \in DOMAIN disk.graph => k \in DOMAIN disk'.graph /\ disk'.graph[k] = disk.graph[k]
    /\ \A k \in Contents \ {s} :
          /\ k \in DOMAIN disk'.vectors <=> k \in DOMAIN disk.vectors
          /\ k \in DOMAIN disk.vectors => disk'.vectors[k] = disk.vectors[k]

\* What is held of one source stays while a step works on another.
LEMMA HeldStays ==
    ASSUME NEW f \in Files, NEW e \in Entries, NEW g \in Files, NEW p, NEW s,
           StemsApart, Touches(g, p, s), f # g, e.page # p, e.sha # s,
           Held(f, e), source'[f] = source[f]
    PROVE  Held(f, e)'
  <1>1. e.sha \in Contents /\ e.page \in Slugs /\ StemOf[f] \in Stems \ {StemOf[g]}
    BY EntryHas DEF Held, Backed, BackedButVectors, Stems, StemsApart
  <1>2. /\ disk.pages[e.page] = Artifact(f, source[f]) /\ e.page \in DOMAIN disk.pages
        /\ StemOf[f] \in DOMAIN disk.trees
        /\ disk.trees[StemOf[f]].of = f /\ disk.trees[StemOf[f]].sha = e.sha
        /\ disk.trees[StemOf[f]].text = source[f]
        /\ e.sha \in DOMAIN disk.vectors /\ disk.vectors[e.sha] = Artifact(f, source[f])
        /\ f \in DOMAIN disk.graph /\ disk.graph[f] = source[f]
        /\ f \in DOMAIN disk.raw /\ disk.raw[f] = source[f]
        /\ Derived(e)
    BY DEF Held, Backed, BackedButVectors
  <1>3. /\ e.page \in DOMAIN disk'.pages /\ disk'.pages[e.page] = Artifact(f, source[f])
        /\ StemOf[f] \in DOMAIN disk'.trees
        /\ disk'.trees[StemOf[f]] = disk.trees[StemOf[f]]
        /\ e.sha \in DOMAIN disk'.vectors /\ disk'.vectors[e.sha] = Artifact(f, source[f])
        /\ f \in DOMAIN disk'.graph /\ disk'.graph[f] = source[f]
        /\ f \in DOMAIN disk'.raw /\ disk'.raw[f] = source[f]
    BY <1>1, <1>2 DEF Touches
  <1> QED
    BY <1>2, <1>3 DEF Held, Backed, BackedButVectors, Artifact

\* What the steps touch.
LEMMA NothingTouched ==
    ASSUME UNCHANGED disk, NEW f, NEW p, NEW s
    PROVE  Touches(f, p, s)
    BY DEF Touches

\* Saving a tree touches the source in work only.
LEMMA SaveTreeTouches ==
    ASSUME TypeInv, LocalsInv, SaveTree
    PROVE  Touches(job.file, None, None)
    BY SaveTreeDoes DEF Touches, Put

\* So does copying it,
LEMMA CopyRawTouches ==
    ASSUME TypeInv, LocalsInv, CopyRaw, ~Rollback
    PROVE  Touches(job.file, None, None)
    BY CopyRawDoes DEF Touches, Put

\* writing its page,
LEMMA WritePageTouches ==
    ASSUME TypeInv, LocalsInv, WritePage, NEW p, p = PageSlug
    PROVE  Touches(job.file, p, None)
    BY WritePageDoes DEF Touches, Put

\* rebuilding the index,
LEMMA RebuildIndexTouches ==
    ASSUME TypeInv, LocalsInv, RebuildIndex, ~Rollback
    PROVE  Touches(job.file, None, None)
    BY RebuildIndexDoes DEF Touches

\* replacing its part of the graph,
LEMMA ReplaceGraphTouches ==
    ASSUME TypeInv, LocalsInv, ReplaceGraph
    PROVE  Touches(job.file, None, None)
    BY ReplaceGraphDoes DEF Touches, Put

\* writing its vectors,
LEMMA UpsertVectorsTouches ==
    ASSUME TypeInv, LocalsInv, UpsertVectors
    PROVE  Touches(job.file, None, job.sha)
    BY UpsertVectorsDoes DEF Touches, Put

\* undoing all this,
LEMMA RollbackTouches ==
    ASSUME TypeInv, LocalsInv, BeforeInv, job.stage \in Transaction, Rollback
    PROVE  /\ job.stage \in PastIndex => Touches(job.file, job.slug, job.sha)
           /\ job.stage \notin PastIndex => Touches(job.file, None, None)
  <1>1. /\ disk' = Restored
        /\ job.file \in Files
    BY RollbackDoes DEF LocalsInv
  <1>2. disk'.graph = job.before.graph /\
        disk.graph = IF job.stage \in PastGraph THEN Put(job.before.graph, job.file, job.text)
                     ELSE job.before.graph
    BY <1>1, RestoredIs DEF BeforeInv
  <1>3. \A k \in Files \ {job.file} :
           k \in DOMAIN disk.graph => k \in DOMAIN disk'.graph /\ disk'.graph[k] = disk.graph[k]
    BY <1>2 DEF Put
  <1>4. \A k \in Stems \ {StemOf[job.file]} :
           k \in DOMAIN disk.trees => k \in DOMAIN disk'.trees /\ disk'.trees[k] = disk.trees[k]
    BY <1>1, RestoredIs DEF Put, Drop
  <1>5. \A k \in Files \ {job.file} :
           k \in DOMAIN disk.raw => k \in DOMAIN disk'.raw /\ disk'.raw[k] = disk.raw[k]
    BY <1>1, RestoredIs DEF Put, Drop
  <1>6. CASE job.stage \in PastIndex
    <2>1. \A k \in Slugs \ {job.slug} :
             k \in DOMAIN disk.pages => k \in DOMAIN disk'.pages /\ disk'.pages[k] = disk.pages[k]
      BY <1>1, RestoredIs DEF Put, Drop
    <2>2. \A k \in Contents \ {job.sha} :
             /\ k \in DOMAIN disk'.vectors <=> k \in DOMAIN disk.vectors
             /\ k \in DOMAIN disk.vectors => disk'.vectors[k] = disk.vectors[k]
      BY <1>1, RestoredIs DEF Put, Drop
    <2> QED
      BY <1>3, <1>4, <1>5, <1>6, <2>1, <2>2 DEF Touches
  <1>7. CASE job.stage \notin PastIndex
    <2>1. disk'.pages = disk.pages /\ disk'.vectors = disk.vectors
      BY <1>1, <1>7, RestoredIs DEF Transaction, PastIndex, PastGraph, PastVector
    <2> QED
      BY <1>3, <1>4, <1>5, <1>7, <2>1 DEF Touches
  <1> QED
    BY <1>6, <1>7

\* sweeping what it replaced,
LEMMA SweepTouches ==
    ASSUME TypeInv, LocalsInv, MemInv, Sweep
    PROVE  \E s \in {None} \cup StaleVectors : Touches(job.file, None, s)
  <1>1. StalePages = {}
    BY SweepDoes DEF StalePages, MemInv, PastPage, PastIndex, PastGraph, PastVector
  <1>2. disk'.pages = disk.pages
    <2>1. disk.pages \in Partial(Slugs, Artifacts \cup {Torn})
      BY LayersHave DEF TypeInv
    <2>2. disk.pages = [k \in DOMAIN disk.pages |-> disk.pages[k]]
      BY <2>1, PartialFacts
    <2> QED
      BY <1>1, <2>2, SweepDoes DEF Drop
  <1>3. PICK s \in {None} \cup StaleVectors : StaleVectors \subseteq {s}
    BY DEF StaleVectors
  <1>4. Touches(job.file, None, s)
    BY <1>2, <1>3, SweepDoes DEF Touches, Drop
  <1> QED
    BY <1>4

\* removing it,
LEMMA RemovalTouches ==
    ASSUME TypeInv, LocalsInv,
           Unlink \/ Reindex \/ Detach \/ Unembed \/ Untree \/ Unraw
    PROVE  Touches(job.file, job.existing.page, job.existing.sha)
  <1>1. CASE Unlink
    BY <1>1, UnlinkDoes DEF Touches, Drop
  <1>2. CASE Reindex
    BY <1>2, ReindexDoes DEF Touches
  <1>3. CASE Detach
    BY <1>3, DetachDoes DEF Touches, Drop
  <1>4. CASE Unembed
    BY <1>4, UnembedDoes DEF Touches, Drop
  <1>5. CASE Untree
    BY <1>5, UntreeDoes DEF Touches, Drop
  <1>6. CASE Unraw
    BY <1>6, UnrawDoes DEF Touches, Drop
  <1> QED
    BY <1>1, <1>2, <1>3, <1>4, <1>5, <1>6

\* and being killed.
LEMMA CutShortTouches ==
    ASSUME TypeInv, LocalsInv, CutShort, NEW p, p = PageSlug
    PROVE  disk' # disk => job.stage = "page" /\ Touches(job.file, p, None)
  <1>1. HAVE disk' # disk
  <1>2. /\ job.stage = "page" /\ disk'.pages = Put(disk.pages, p, Torn)
        /\ disk'.trees = disk.trees /\ disk'.raw = disk.raw
        /\ disk'.graph = disk.graph /\ disk'.vectors = disk.vectors
    BY <1>1, CutShortDoes
  <1>3. \A k \in Slugs \ {p} :
           k \in DOMAIN disk.pages => k \in DOMAIN disk'.pages /\ disk'.pages[k] = disk.pages[k]
    BY <1>2 DEF Put
  <1> QED
    BY <1>2, <1>3 DEF Touches

-----------------------------------------------------------------------------
(* What is skipped is safe *)

\* Of what a step touches nothing is of an entry of another file.
LEMMA OtherSha ==
    ASSUME TypeInv, ClaimsInv, manifest # Lost, NEW f \in DOMAIN manifest, f # job.file,
           job.file \in Files, manifest[f].sha \notin again
    PROVE  /\ job.sha # None => manifest[f].sha # job.sha
           /\ job.existing # None => manifest[f].sha # job.existing.sha
  <1>1. f \in Files /\ manifest[f].sha \in Contents
    BY EntryOf, EntryHas DEF TypeInv
  <1>2. Owns(f, manifest[f].sha)
    BY DEF Owns
  <1>3. ~Owns(job.file, manifest[f].sha)
    <2> HIDE DEF Owns
    <2> QED
      BY <1>1, <1>2 DEF ClaimsInv
  <1> QED
    BY <1>3 DEF Owns

\* Nothing of a source changes while a step works on another.
LEMMA OthersSafe ==
    ASSUME TypeInv, SafeInv, StemsApart, manifest # Lost, job.file \in Files,
           NEW f \in DOMAIN manifest, f # job.file, NEW x \in Entries, x = manifest[f],
           Derived(x), x.sha = source[f], source[f] \in Textual \ again, source'[f] = source[f],
           NEW p, NEW s, Touches(job.file, p, s),
           x.page \in DOMAIN disk.pages => x.page # p, x.sha # s,
           x.sha \in DOMAIN disk'.vectors
    PROVE  Held(f, x)'
  <1>1. f \in Files /\ x.sha \in Contents
    BY EntryOf, EntryHas DEF TypeInv
  <1>2. x.sha \in DOMAIN disk.vectors
    BY <1>1 DEF Touches
  <1>3. Held(f, x)
    BY <1>2 DEF SafeInv, CanSkip, Derived
  <1>4. x.page # p
    BY <1>3 DEF Held, Backed, BackedButVectors
  <1> QED
    BY <1>1, <1>3, <1>4, HeldStays

\* The source in work is one that would not be skipped.
LEMMA NotSkipped ==
    ASSUME TypeInv, LocalsInv, MemInv, NotYetInv, job.stage \in Transaction,
           job.file \in DOMAIN manifest, Derived(manifest[job.file]),
           manifest[job.file].sha = source[job.file], source[job.file] \notin again
    PROVE  /\ job.existing = manifest[job.file] /\ HasEntry(job.existing)
           /\ job.sha = source[job.file]
           /\ job.stage # "commit" => source[job.file] \notin DOMAIN disk.vectors
  <1>1. mem = manifest /\ job.existing = manifest[job.file]
    BY DEF MemInv
  <1>2. job.existing \in Entries
    BY <1>1, EntryOf DEF TypeInv, MemInv, Transaction
  <1>3. HasEntry(job.existing)
    BY <1>1, <1>2, EntryHas DEF Derived
  <1> QED
    BY <1>1, <1>3 DEF NotYetInv

\* Initially there is nothing to skip.
LEMMA SafeInit == Init => SafeInv
  <1> SUFFICES ASSUME Init PROVE SafeInv
    OBVIOUS
  <1>1. manifest = Nothing /\ DOMAIN Nothing = {}
    BY NothingPartial DEF Init
  <1> HIDE DEF Nothing
  <1> QED
    BY <1>1 DEF SafeInv

\* No step makes a source look unchanged that the layers do not hold.
LEMMA SafeStep ==
    ASSUME TypeInv, LocalsInv, ClaimsInv, MemInv, DoneInv, BeforeInv, TextInv, NotYetInv,
           Apart, SafeInv, StemsApart, [Next]_vars
    PROVE  SafeInv'
  <1> SUFFICES ASSUME manifest' # Lost, NEW f \in DOMAIN manifest',
                      source'[f] \in Textual \ again', CanSkip(manifest[f], source[f])'
               PROVE  Held(f, manifest[f])'
    BY DEF SafeInv
  <1> DEFINE e == manifest'[f]
  <1>a. TypeInv'
    BY TypeStep
  <1>b. f \in Files /\ e \in Entries /\ Derived(e) /\ e.sha = source'[f]
        /\ e.sha \in DOMAIN disk'.vectors /\ e.page \in Slugs /\ e.sha \in Contents
    BY <1>a, EntryOf, EntryHas DEF TypeInv, CanSkip, Derived
  <1> SUFFICES ASSUME NEW x \in Entries, x = e PROVE Held(f, x)'
    BY <1>b DEF Held, Backed, BackedButVectors, Derived
  <1>c. Derived(x) /\ x.sha = source'[f] /\ x.sha \in DOMAIN disk'.vectors
        /\ x.page \in Slugs /\ x.sha \in Contents /\ f \in Files
        /\ source'[f] \in Textual /\ x = manifest'[f] /\ f \in DOMAIN manifest'
        /\ x.sha \notin again' /\ x.sha \notin again
    BY <1>b, AgainGrows DEF Derived
  <1> HIDE DEF e
  \* The entry was there, and the source is the same.
  <1>d. ASSUME manifest # Lost, f \in DOMAIN manifest, manifest[f] = x,
               source'[f] = source[f], x.sha \in DOMAIN disk.vectors
        PROVE  Held(f, x)
    BY <1>c, <1>d DEF SafeInv, CanSkip, Derived
  \* The layers stay as they are.
  <1>e. ASSUME disk' = disk, source' = source, manifest # Lost, f \in DOMAIN manifest,
               manifest[f] = x
        PROVE  Held(f, x)'
    <2>1. Held(f, x)
      BY <1>c, <1>d, <1>e
    <2> QED
      BY <1>e, <2>1 DEF Held, Backed, BackedButVectors, Artifact, Derived
  <1>f. ASSUME disk' = disk, source' = source, manifest' = manifest PROVE Held(f, x)'
    BY <1>c, <1>e, <1>f
  \* The step works on another source.
  <1>g. ASSUME source' = source, manifest' = manifest, job.file \in Files, f # job.file,
               NEW p, NEW s, Touches(job.file, p, s),
               x.page \in DOMAIN disk.pages => x.page # p, x.sha # s
        PROVE  Held(f, x)'
    BY <1>c, <1>g, OthersSafe
  <1>h. f # job.file /\ manifest' = manifest /\ job.file \in Files =>
           /\ job.sha # None => x.sha # job.sha
           /\ job.existing # None => x.sha # job.existing.sha
    BY <1>c, OtherSha
  <1>i. None \notin Slugs \cup Contents
    BY MarksAssumption, IngestAssumption
  <1>j. job.stage \in Transaction => job.file \in Files /\ job.sha \in Contents
    BY DEF LocalsInv
  \* The step writes none of the vectors.
  <1>k. ASSUME source' = source, manifest' = manifest, job.stage \in Transaction,
               job.stage # "commit", f = job.file, DOMAIN disk'.vectors \subseteq DOMAIN disk.vectors
        PROVE  FALSE
    BY <1>c, <1>k, NotSkipped
  <1>l. ASSUME source' = source, manifest' = manifest, job.stage \in Transaction,
               job.stage # "commit", disk'.vectors = disk.vectors,
               NEW p, Touches(job.file, p, None), x.page \in DOMAIN disk.pages /\ f # job.file => x.page # p
        PROVE  Held(f, x)'
    <2>1. f # job.file
      BY <1>k, <1>l
    <2> QED
      BY <1>c, <1>g, <1>i, <1>j, <1>l, <2>1
  <1>m. ASSUME Rollback, job.stage \in Transaction PROVE Held(f, x)'
    <2>1. source' = source /\ manifest' = manifest /\ disk' = Restored
      BY <1>m, RollbackDoes
    <2>2. f # job.file
      <3>1. SUFFICES ASSUME f = job.file PROVE FALSE
        OBVIOUS
      <3>2. CASE job.stage # "commit"
        BY <1>k, <1>m, <2>1, <3>1, <3>2, RestoredIs
      <3>3. CASE job.stage = "commit"
        <4>1. x.sha = job.sha
          BY <1>c, <1>m, <2>1, <3>1, NotSkipped
        <4>2. disk'.vectors = Drop(disk.vectors, {job.sha})
          BY <1>m, <2>1, <3>3, RestoredIs
        <4> QED
          BY <1>c, <4>1, <4>2 DEF Drop
      <3> QED
        BY <3>2, <3>3
    <2>3. CASE job.stage \in PastIndex
      <3>1. x.page \in DOMAIN disk.pages => x.page # job.slug
        BY <1>c, <2>1, <2>2, <2>3 DEF Apart, PastPage
      <3> QED
        BY <1>g, <1>h, <1>i, <1>j, <1>m, <2>1, <2>2, <2>3, <3>1, RollbackTouches
    <2>4. CASE job.stage \notin PastIndex
      BY <1>c, <1>g, <1>h, <1>i, <1>j, <1>m, <2>1, <2>2, <2>4, RollbackTouches
    <2> QED
      BY <2>3, <2>4
  <1>1. ASSUME NEW prune \in BOOLEAN, Start(prune) PROVE Held(f, x)'
    <2>1. manifest' = Resumed /\ disk' = disk /\ source' = source
      BY <1>1, StartDoes
    <2>2. CASE manifest # Lost
      BY <1>f, <2>1, <2>2 DEF Resumed
    <2>3. CASE manifest = Lost
      <3>1. x.page = None
        BY <1>c, <2>1, <2>3 DEF Resumed, Entry
      <3> QED
        BY <1>c, <1>i, <3>1
    <2> QED
      BY <2>2, <2>3
  <1>2. CASE Examine \/ Parse \/ AllFilesDone \/ Prune
    BY <1>2, <1>f, ExamineDoes, ParseDoes, AllFilesDoneDoes, PruneDoes
  <1>3. CASE SaveTree
    BY <1>c, <1>i, <1>l, <1>3, SaveTreeDoes, SaveTreeTouches DEF Transaction
  <1>4. CASE CopyRaw
    <2>1. CASE Rollback
      BY <1>4, <1>m, <2>1, CopyRawDoes DEF Transaction
    <2>2. CASE ~Rollback
      BY <1>c, <1>i, <1>l, <1>4, <2>2, CopyRawDoes, CopyRawTouches DEF Transaction
    <2> QED
      BY <2>1, <2>2
  <1>5. CASE WritePage
    <2>1. PICK p : p = PageSlug
      OBVIOUS
    <2>2. x.page \in DOMAIN disk.pages /\ f # job.file => x.page # p
      BY <1>c, <1>5, <2>1, WritePageDoes DEF Apart
    <2>3. Touches(job.file, p, None)
      BY <1>5, <2>1, WritePageTouches
    <2> QED
      BY <1>l, <1>5, <2>2, <2>3, WritePageDoes DEF Transaction
  <1>6. CASE RebuildIndex
    <2>1. CASE Rollback
      BY <1>6, <1>m, <2>1, RebuildIndexDoes DEF Transaction
    <2>2. CASE ~Rollback
      BY <1>c, <1>i, <1>l, <1>6, <2>2, RebuildIndexDoes, RebuildIndexTouches DEF Transaction
    <2> QED
      BY <2>1, <2>2
  <1>7. CASE ReplaceGraph
    BY <1>c, <1>i, <1>l, <1>7, ReplaceGraphDoes, ReplaceGraphTouches DEF Transaction
  \* The layers hold what the run has written.
  <1>n. ASSUME DoneInv', f = job'.file, job'.stage \in PastVector, x.page = job'.slug,
               x.sha = job'.sha, job'.text = source'[f], source'[f] = job'.sha
        PROVE  Held(f, x)'
    <2>1. /\ StemOf[f] \in DOMAIN disk'.trees
          /\ disk'.trees[StemOf[f]] = Tree(f, x.sha, source'[f])
          /\ f \in DOMAIN disk'.raw /\ disk'.raw[f] = source'[f]
          /\ x.page \in DOMAIN disk'.pages /\ disk'.pages[x.page] = Artifact(f, source'[f])
          /\ f \in DOMAIN disk'.graph /\ disk'.graph[f] = source'[f]
          /\ x.sha \in DOMAIN disk'.vectors /\ disk'.vectors[x.sha] = Artifact(f, source'[f])
      BY <1>n DEF DoneInv, PastTree, PastCopy, PastPage, PastIndex, PastGraph, Tree, Artifact
    <2>2. Derived(x)
      BY <1>c
    <2> QED
      BY <2>1, <2>2 DEF Held, Backed, BackedButVectors, Artifact, Tree, Derived
  <1>o. DoneInv' /\ TextInv'
    BY DoneStep, TextStep
  <1>8. CASE UpsertVectors
    <2>1. CASE f # job.file
      BY <1>c, <1>g, <1>h, <1>i, <1>j, <1>8, <2>1, UpsertVectorsDoes, UpsertVectorsTouches
         DEF Transaction
    <2>2. CASE f = job.file
      <3>1. /\ x = job.existing /\ HasEntry(job.existing) /\ job.sha = source[f]
        BY <1>c, <1>8, <2>2, NotSkipped, UpsertVectorsDoes DEF Transaction
      <3>2. x.page = job.slug
        BY <1>8, <3>1, UpsertVectorsDoes DEF MemInv, PastPage, PastIndex, PastGraph
      <3>3. job'.stage = "commit" /\ job'.file = f /\ job'.slug = job.slug
            /\ job'.sha = job.sha /\ source' = source
        BY <1>8, <2>2, UpsertVectorsDoes DEF LocalsKept
      <3>4. job'.text = source'[f]
        BY <1>o, <3>1, <3>3 DEF TextInv, Transaction
      <3> QED
        BY <1>c, <1>n, <1>o, <3>1, <3>2, <3>3, <3>4 DEF PastVector
    <2> QED
      BY <2>1, <2>2
  <1>9. CASE Commit
    <2>1. /\ manifest' = Put(mem, job.file, Entry(job.sha, job.slug)) /\ mem = manifest
          /\ manifest # Lost /\ disk' = disk /\ source' = source
          /\ job.stage = "commit" /\ job'.stage = "sweep" /\ LocalsKept
      BY <1>9, CommitDoes DEF MemInv, Transaction
    <2>2. CASE f # job.file
      BY <1>c, <1>e, <2>1, <2>2 DEF Put
    <2>3. CASE f = job.file
      <3>1. x.sha = job'.sha /\ x.page = job'.slug
        BY <1>c, <2>1, <2>3 DEF Put, Entry, LocalsKept
      <3>2. source'[f] = job'.sha
        BY <1>c, <3>1
      <3>3. job'.text = source'[f] /\ f = job'.file
        BY <1>o, <2>1, <2>3, <3>2 DEF TextInv, LocalsKept
      <3> QED
        BY <1>n, <1>o, <2>1, <3>1, <3>2, <3>3 DEF PastVector
    <2> QED
      BY <2>2, <2>3
  <1>10. CASE Sweep
    <2>1. /\ x.sha \in DOMAIN disk.vectors /\ disk'.vectors[x.sha] = disk.vectors[x.sha]
          /\ disk'.pages = Drop(disk.pages, StalePages)
          /\ disk'.trees = disk.trees /\ disk'.raw = disk.raw /\ disk'.graph = disk.graph
          /\ source' = source /\ manifest' = manifest /\ job.stage = "sweep"
      BY <1>c, <1>10, SweepDoes DEF Drop
    <2>2. StalePages = {}
      BY <2>1 DEF StalePages, MemInv, PastPage, PastIndex, PastGraph, PastVector
    <2>3. Held(f, x)
      BY <1>c, <1>d, <2>1
    <2>4. x.page \in DOMAIN disk'.pages /\ disk'.pages[x.page] = disk.pages[x.page]
      BY <2>1, <2>2, <2>3 DEF Held, Backed, BackedButVectors, Drop
    <2> QED
      BY <1>c, <2>1, <2>3, <2>4 DEF Held, Backed, BackedButVectors, Artifact, Derived
  <1>11. CASE Unlink \/ Reindex \/ Detach \/ Unembed \/ Untree \/ Unraw
    <2>1. /\ job.stage \in Removal /\ source' = source /\ manifest' = manifest
          /\ Touches(job.file, job.existing.page, job.existing.sha)
      BY <1>11, RemovalTouches, UnlinkDoes, ReindexDoes, DetachDoes, UnembedDoes,
         UntreeDoes, UnrawDoes DEF Removal
    <2>2. job.file \in Files /\ job.existing \in Entries /\ job.existing # None
      BY <2>1, EntryHas DEF LocalsInv
    <2>3. f # job.file
      <3>1. SUFFICES ASSUME f = job.file PROVE FALSE
        OBVIOUS
      <3>2. manifest # Lost /\ x = manifest[f] /\ f \in DOMAIN manifest
        BY <1>c, <2>1
      <3>3. CASE job.todo # {}
        <4>1. x = job.existing
          BY <2>1, <3>1, <3>2, <3>3 DEF MemInv
        <4> QED
          BY <1>c, <2>1, <3>1, <4>1 DEF NotYetInv
      <3>4. CASE job.todo = {}
        <4>1. f \in DOMAIN manifest \ job.listed
          BY <2>1, <3>1, <3>2, <3>4 DEF MemInv
        <4>2. job.stage \notin {"idle", "fix"}
          BY <2>1 DEF Removal
        <4>3. manifest[f].sha # source[f]
          BY <1>c, <3>2, <4>1, <4>2 DEF NotYetInv
        <4> QED
          BY <1>c, <2>1, <3>2, <4>3
      <3> QED
        BY <3>3, <3>4
    <2>4. x.page \in DOMAIN disk.pages => x.page # job.existing.page
      BY <1>c, <2>1, <2>3 DEF Apart
    <2> QED
      BY <1>g, <1>h, <2>1, <2>2, <2>3, <2>4
  <1>12. CASE Forget
    <2>1. /\ manifest' = Drop(mem, {job.file}) /\ mem = manifest /\ manifest # Lost
          /\ disk' = disk /\ source' = source
      BY <1>12, ForgetDoes DEF MemInv
    <2> QED
      BY <1>c, <1>e, <2>1 DEF Drop
  <1>13. CASE Pruned
    <2>1. manifest' = mem /\ disk' = disk /\ source' = source /\ job.stage = "prune"
      BY <1>13, PrunedDoes
    <2>2. manifest # Lost /\ f \in DOMAIN manifest /\ manifest[f] = x
      BY <1>c, <2>1 DEF MemInv
    <2> QED
      BY <1>e, <2>1, <2>2
  <1>14. CASE Fail
    BY <1>14, <1>m, FailDoes
  <1>15. ASSUME NEW g \in Files, NEW c \in Contents \cup {Gone}, Edit(g, c)
         PROVE  Held(f, x)'
    <2>1. disk' = disk /\ manifest' = manifest
      BY <1>15, EditDoes
    <2>2. Owns(f, x.sha)
      BY <1>c, <2>1 DEF Owns
    <2>3. CASE source[f] = x.sha
      <3>1. Held(f, x)
        BY <1>c, <1>d, <2>1, <2>3
      <3> QED
        BY <1>c, <2>1, <2>3, <3>1 DEF Held, Backed, BackedButVectors, Artifact, Derived
    \* The content comes back to where it is held.
    <2>4. CASE source[f] # x.sha
      <3>1. f = g /\ x.sha = c /\ ~ComesAgain(f, c)
        BY <1>c, <1>15, <2>4, EditDoes
      <3>2. Backed(f, x, c) /\ disk.raw[f] = c
        <4> HIDE DEF Owns
        <4> QED
          BY <1>c, <2>1, <2>2, <3>1, IngestAssumption DEF ComesAgain
      <3> QED
        BY <1>c, <2>1, <3>1, <3>2 DEF Held, Backed, BackedButVectors, Artifact, Derived
    <2> QED
      BY <2>3, <2>4
  <1>16. CASE CutShort
    <2>1. PICK p : p = PageSlug
      OBVIOUS
    <2>2. source' = source /\ manifest' = manifest
      BY <1>16, CutShortDoes
    <2>3. CASE disk' = disk
      BY <1>f, <2>2, <2>3
    <2>4. CASE disk' # disk
      <3>1. job.stage = "page" /\ Touches(job.file, p, None)
        BY <1>16, <2>1, <2>4, CutShortTouches
      <3>2. disk'.vectors = disk.vectors
        BY <1>16, <2>4, CutShortDoes
      <3>3. x.page \in DOMAIN disk.pages /\ f # job.file => x.page # p
        BY <1>c, <2>1, <2>2, <3>1 DEF Apart
      <3> QED
        BY <1>l, <2>2, <3>1, <3>2, <3>3 DEF Transaction
    <2> QED
      BY <2>3, <2>4
  <1>17. CASE LoseManifest
    BY <1>17, LoseManifestDoes
  <1>18. CASE UNCHANGED vars
    BY <1>f, <1>18 DEF vars
  <1> QED
    BY <1>1, <1>2, <1>3, <1>4, <1>5, <1>6, <1>7, <1>8, <1>9, <1>10, <1>11, <1>12, <1>13,
       <1>14, <1>15, <1>16, <1>17, <1>18 DEF Next, Ingest, DeleteArtifacts

-----------------------------------------------------------------------------
(* The pages of different titles are apart *)

\* No two sources have the same title.
TitlesApart == \A f, g \in Files : TitleOf[f] = TitleOf[g] => f = g

\* Initially there are no entries.
LEMMA TitleInit == Init => TitleInv
  <1> SUFFICES ASSUME Init PROVE TitleInv
    OBVIOUS
  <1>1. /\ manifest = Nothing /\ mem = Nothing /\ DOMAIN Nothing = {}
        /\ job.stage = "idle" /\ job.existing = None
    BY NothingPartial, IdleIs DEF Init
  <1> HIDE DEF Nothing
  <1> QED
    BY <1>1 DEF TitleInv, HasEntry, PastPage, PastIndex, PastGraph, PastVector

\* A page is named for its source when it is written first, and keeps its name.
LEMMA TitleStep ==
    ASSUME TypeInv, LocalsInv, MemInv, TitleInv, [Next]_vars
    PROVE  TitleInv'
  <1> USE DEF PastPage, PastIndex, PastGraph, PastVector
  \* A run that ends or moves on keeps no locals.
  <1>a. ASSUME job'.existing = None, job'.stage \notin PastPage,
               \A f \in DOMAIN mem' : f \in DOMAIN mem /\ mem'[f] = mem[f],
               \/ manifest' = Lost
               \/ \A f \in DOMAIN manifest' :
                     /\ manifest # Lost /\ f \in DOMAIN manifest
                     /\ manifest'[f] = manifest[f]
        PROVE  TitleInv'
    BY <1>a DEF TitleInv, HasEntry, Derived
  <1>b. ASSUME EndRun, manifest' = manifest PROVE TitleInv'
    <2>1. job'.existing = None /\ job'.stage = "idle" /\ DOMAIN mem' = {}
      BY <1>b, Ending, IdleIs
    <2> QED
      BY <1>a, <1>b, <2>1
  <1>c. ASSUME Moved, manifest' = manifest, mem' = mem PROVE TitleInv'
    BY <1>a, <1>c DEF Moved
  <1>d. ASSUME manifest' = manifest, mem' = mem, job'.existing = job.existing,
               job'.file = job.file,
               job'.stage \in PastPage => job.stage \in PastPage /\ job'.slug = job.slug
        PROVE  TitleInv'
    BY <1>d DEF TitleInv, HasEntry, Derived
  <1>e. ASSUME Rollback, job.stage \in Transaction PROVE TitleInv'
    BY <1>b, <1>e, RollbackDoes
  <1>1. ASSUME NEW prune \in BOOLEAN, Start(prune) PROVE TitleInv'
    <2>1. /\ job'.existing = None /\ job'.stage = "pick" /\ mem' = Resumed
          /\ manifest' = Resumed
      BY <1>1, StartDoes
    <2>2. CASE manifest # Lost
      BY <2>1, <2>2 DEF TitleInv, Resumed, HasEntry, Derived
    <2>3. CASE manifest = Lost
      <3>1. \A f \in DOMAIN mem' : ~Derived(mem'[f])
        BY <2>1, <2>3 DEF Resumed, Entry, Derived
      <3>2. ~HasEntry(job'.existing)
        BY <2>1 DEF HasEntry
      <3> QED
        BY <2>1, <3>1, <3>2 DEF TitleInv, Derived, HasEntry
    <2> QED
      BY <2>2, <2>3
  <1>2. CASE Examine
    <2>1. PICK f \in job.todo :
             \/ EndRun
             \/ job'.existing = None /\ job'.stage = "pick" /\ UNCHANGED mem
             \/ /\ job'.stage = "parse" /\ job'.file = f
                /\ job'.existing = IF f \in DOMAIN mem THEN mem[f] ELSE None
                /\ UNCHANGED mem
      BY <1>2, ExamineDoes
    <2>2. manifest' = manifest
      BY <1>2, ExamineDoes
    <2>3. CASE job'.stage = "pick" /\ job'.existing = None /\ UNCHANGED mem
      BY <1>a, <2>2, <2>3
    <2>4. CASE /\ job'.stage = "parse" /\ job'.file = f
               /\ job'.existing = IF f \in DOMAIN mem THEN mem[f] ELSE None
               /\ UNCHANGED mem
      BY <2>2, <2>4 DEF TitleInv, HasEntry, Derived
    <2> QED
      BY <1>b, <2>1, <2>2, <2>3, <2>4
  <1>3. CASE Parse
    BY <1>b, <1>c, <1>d, <1>3, ParseDoes DEF LocalsKept
  <1>4. CASE SaveTree
    BY <1>d, <1>4, SaveTreeDoes DEF LocalsKept
  <1>5. CASE CopyRaw
    BY <1>d, <1>e, <1>5, CopyRawDoes DEF LocalsKept, Transaction
  <1>6. CASE WritePage
    <2>1. job.file \in Files
      BY <1>6, WritePageDoes DEF LocalsInv, Transaction
    <2>2. PageSlug[1] = TitleOf[job.file]
      BY <2>1, PageSlugIs DEF TitleInv
    <2> QED
      BY <1>6, <2>2, WritePageDoes DEF TitleInv, HasEntry, Derived
  <1>7. CASE RebuildIndex
    BY <1>d, <1>e, <1>7, RebuildIndexDoes DEF LocalsKept, Transaction
  <1>8. CASE ReplaceGraph \/ UpsertVectors
    BY <1>d, <1>8, ReplaceGraphDoes, UpsertVectorsDoes DEF LocalsKept
  <1>9. CASE Commit
    <2>1. /\ job.stage = "commit" /\ job'.stage = "sweep" /\ LocalsKept
          /\ mem' = Put(mem, job.file, Entry(job.sha, job.slug)) /\ manifest' = mem'
          /\ mem = manifest
      BY <1>9, CommitDoes DEF MemInv, Transaction
    <2>2. mem'[job.file].page = job.slug
      BY <2>1 DEF Put, Entry
    <2>3. \A f \in DOMAIN mem' \ {job.file} : f \in DOMAIN mem /\ mem'[f] = mem[f]
      BY <2>1 DEF Put
    <2>4. job.slug[1] = TitleOf[job.file]
      BY <2>1 DEF TitleInv
    <2> QED
      BY <2>1, <2>2, <2>3, <2>4 DEF TitleInv, LocalsKept, HasEntry, Derived
  <1>10. CASE Sweep
    BY <1>c, <1>10, SweepDoes
  <1>11. CASE Unlink \/ Detach \/ Unembed \/ Untree \/ Unraw
    BY <1>d, <1>11, UnlinkDoes, DetachDoes, UnembedDoes, UntreeDoes, UnrawDoes
       DEF LocalsKept
  <1>12. CASE Reindex
    BY <1>b, <1>d, <1>12, ReindexDoes DEF LocalsKept
  <1>13. CASE Forget
    <2>1. /\ mem' = Drop(mem, {job.file}) /\ manifest' = mem' /\ mem = manifest
          /\ manifest # Lost /\ job'.existing = None /\ job'.stage = "pick"
      BY <1>13, ForgetDoes DEF MemInv, Moved
    <2> QED
      BY <1>a, <2>1 DEF Drop
  <1>14. CASE AllFilesDone
    BY <1>b, <1>d, <1>14, AllFilesDoneDoes DEF LocalsKept
  <1>15. CASE Prune
    <2>1. PICK f \in DOMAIN mem \ job.listed :
             /\ mem' = Drop(mem, {f}) /\ job'.stage = "unlink"
             /\ job'.file = f /\ job'.existing = mem[f]
      BY <1>15, PruneDoes
    <2>2. manifest' = manifest
      BY <1>15, PruneDoes
    <2>3. \A g \in DOMAIN mem' : g \in DOMAIN mem /\ mem'[g] = mem[g]
      BY <2>1 DEF Drop
    <2>4. HasEntry(job'.existing) => job'.existing.page[1] = TitleOf[job'.file]
      BY <2>1 DEF TitleInv, HasEntry, Derived
    <2>5. \A g \in DOMAIN mem' : Derived(mem'[g]) => mem'[g].page[1] = TitleOf[g]
      BY <2>3 DEF TitleInv
    <2> QED
      BY <2>1, <2>2, <2>4, <2>5 DEF TitleInv, HasEntry, Derived
  <1>16. CASE Pruned
    <2>1. /\ manifest' = mem /\ EndRun /\ job.stage = "prune"
      BY <1>16, PrunedDoes
    <2>2. job'.existing = None /\ job'.stage = "idle" /\ DOMAIN mem' = {}
      BY <2>1, Ending, IdleIs
    <2> QED
      BY <1>a, <2>1, <2>2 DEF MemInv
  <1>17. CASE Fail
    BY <1>e, <1>17, FailDoes
  <1>18. ASSUME NEW f \in Files, NEW c \in Contents \cup {Gone}, Edit(f, c)
         PROVE  TitleInv'
    BY <1>d, <1>18, EditDoes
  <1>19. CASE CutShort
    BY <1>b, <1>19, CutShortDoes
  <1>20. CASE LoseManifest
    <2>1. job = Idle /\ job' = job /\ mem' = mem /\ manifest' = Lost
      BY <1>20, LoseManifestDoes DEF LocalsInv
    <2> QED
      BY <1>a, <2>1, IdleIs
  <1>21. CASE UNCHANGED vars
    BY <1>d, <1>21 DEF vars
  <1> QED
    BY <1>1, <1>2, <1>3, <1>4, <1>5, <1>6, <1>7, <1>8, <1>9, <1>10, <1>11, <1>12, <1>13,
       <1>14, <1>15, <1>16, <1>17, <1>18, <1>19, <1>20, <1>21 DEF Next, Ingest, DeleteArtifacts

\* Pages of different titles are different.
LEMMA TitledApart ==
    ASSUME TypeInv, LocalsInv, TitleInv, TitlesApart
    PROVE  Apart
  <1> SUFFICES ASSUME manifest # Lost, NEW g \in DOMAIN manifest \ {job.file},
                      manifest[g].page \in DOMAIN disk.pages
               PROVE  /\ job.stage = "page" => PageSlug # manifest[g].page
                      /\ job.stage \in PastPage => job.slug # manifest[g].page
                      /\ job.stage \in {"forget"} \cup Removal =>
                            job.existing.page # manifest[g].page
    BY DEF Apart
  <1>1. g \in Files /\ manifest[g] \in Entries
    BY EntryOf DEF TypeInv
  <1>2. manifest[g].page \in Slugs
    <2>1. disk.pages \in Partial(Slugs, Artifacts \cup {Torn})
      BY LayersHave DEF TypeInv
    <2> QED
      BY <2>1, PartialFacts
  <1>3. Derived(manifest[g])
    BY <1>1, <1>2, EntryHas
  <1>4. manifest[g].page[1] = TitleOf[g]
    BY <1>3 DEF TitleInv
  <1>5. job.file \in Files => TitleOf[g] # TitleOf[job.file]
    BY <1>1 DEF TitlesApart
  <1>6. job.stage = "page" => PageSlug # manifest[g].page
    <2>1. HAVE job.stage = "page"
    <2>2. job.file \in Files
      BY <2>1 DEF LocalsInv, Transaction
    <2>3. PageSlug[1] = TitleOf[job.file]
      BY <2>2, PageSlugIs DEF TitleInv
    <2> QED
      BY <1>4, <1>5, <2>2, <2>3
  <1>7. job.stage \in PastPage => job.slug # manifest[g].page
    BY <1>4, <1>5 DEF LocalsInv, TitleInv, PastPage, PastIndex, PastGraph, PastVector,
       Transaction
  <1>8. job.stage \in {"forget"} \cup Removal => job.existing.page # manifest[g].page
    <2>1. HAVE job.stage \in {"forget"} \cup Removal
    <2>2. job.existing \in Entries /\ job.file \in Files
      BY <2>1 DEF LocalsInv
    <2> QED
      BY <1>2, <1>4, <1>5, <2>2, EntryHas DEF TitleInv
  <1> QED
    BY <1>6, <1>7, <1>8

-----------------------------------------------------------------------------
(* The layers agree *)

\* The layers d hold the text of f, under the names of its entry e; of the vectors
\* of what came again, R, nothing is said.
BackedIn(R, d, f, e, text) ==
    /\ Derived(e)
    /\ e.page \in DOMAIN d.pages /\ d.pages[e.page] = Artifact(f, text)
    /\ StemOf[f] \in DOMAIN d.trees
    /\ d.trees[StemOf[f]].of = f /\ d.trees[StemOf[f]].sha = e.sha
    /\ d.trees[StemOf[f]].text = text
    /\ e.sha \notin R => e.sha \in DOMAIN d.vectors /\ d.vectors[e.sha] = Artifact(f, text)
    /\ f \in DOMAIN d.graph /\ d.graph[f] = text
    /\ f \in DOMAIN d.raw

AllBacked(R, m, d) == \A f \in DOMAIN m : \E text \in Textual : BackedIn(R, d, f, m[f], text)

PagesOf(m) == {m[f].page : f \in DOMAIN m}
ShasOf(m)  == {m[f].sha : f \in DOMAIN m}
StemsOf(m) == {StemOf[f] : f \in DOMAIN m}

\* The vectors of a hash are of an entry of this hash.
OwnedBy(m, d, sha) == d.vectors[sha].of \in DOMAIN m /\ m[d.vectors[sha].of].sha = sha

\* The layers d are those of the manifest m.
Agreed(R, m, d) ==
    /\ AllBacked(R, m, d)
    /\ DOMAIN d.pages = PagesOf(m)
    /\ DOMAIN d.trees = StemsOf(m)
    /\ \A sha \in DOMAIN d.vectors : OwnedBy(m, d, sha)
    /\ DOMAIN d.graph = DOMAIN m
    /\ DOMAIN d.raw = DOMAIN m
    /\ d.index = PagesOf(m)

\* The manifest before the transaction, and without the source to be removed.
Previous == IF job.existing = None THEN Drop(mem, {job.file})
            ELSE Put(mem, job.file, job.existing)
Rest     == Drop(mem, {job.file})

\* What is left of the removed source, at the steps up to that which removes it.
Until(stages, x) == IF job.stage \in stages THEN {x} ELSE {}

RemovalInv ==
    /\ AllBacked(again, Rest, disk)
    /\ Derived(job.existing)
    /\ job.existing.page \notin PagesOf(Rest)
    /\ job.existing.sha \notin again => job.existing.sha \notin ShasOf(Rest)
    /\ DOMAIN disk.pages = PagesOf(Rest) \cup Until({"unlink"}, job.existing.page)
    /\ disk.index = PagesOf(Rest) \cup Until({"unlink", "reindex"}, job.existing.page)
    /\ DOMAIN disk.graph = DOMAIN Rest
                           \cup Until({"unlink", "reindex", "detach"}, job.file)
    /\ \A sha \in DOMAIN disk.vectors
                  \ Until({"unlink", "reindex", "detach", "unembed"}, job.existing.sha) :
          OwnedBy(Rest, disk, sha)
    /\ DOMAIN disk.trees = StemsOf(Rest)
          \cup Until({"unlink", "reindex", "detach", "unembed", "untree"}, StemOf[job.file])
    /\ DOMAIN disk.raw = DOMAIN Rest \cup {job.file}

AgreeInv ==
    Undisturbed =>
        /\ manifest # Lost
        /\ job.stage = "idle" => Agreed(again, manifest, disk)
        /\ job.stage \in {"pick", "parse", "prune"} => Agreed(again, mem, disk)
        /\ job.stage = "parse" /\ job.sha \notin again => job.sha \notin DOMAIN disk.vectors
        /\ job.stage \in {"sweep"} \cup Transaction =>
              /\ Agreed(again, Previous, job.before)
              /\ job.sha \notin again => job.sha \notin DOMAIN job.before.vectors
        /\ job.stage \in Removal => RemovalInv
        /\ job.stage = "forget" => Agreed(again, Rest, disk)

\* Two entries of layers that agree share no name, but for the hash of what came
\* again.
LEMMA AgreedApart ==
    ASSUME NEW R, NEW m \in Manifests, NEW d, AllBacked(R, m, d),
           NEW f \in DOMAIN m, NEW g \in DOMAIN m, f # g
    PROVE  /\ m[f].page # m[g].page
           /\ m[f].sha \notin R => m[f].sha # m[g].sha
           /\ Derived(m[f])
  <1>1. PICK s \in Textual : BackedIn(R, d, f, m[f], s)
    BY DEF AllBacked
  <1>2. PICK t \in Textual : BackedIn(R, d, g, m[g], t)
    BY DEF AllBacked
  <1>3. Artifact(f, s) # Artifact(g, t)
    BY DEF Artifact
  <1> QED
    BY <1>1, <1>2, <1>3 DEF BackedIn

\* What is said of the layers stays said when more has come again.
LEMMA AgreedGrows ==
    ASSUME NEW R, NEW S, R \subseteq S, NEW m, NEW d
    PROVE  /\ AllBacked(R, m, d) => AllBacked(S, m, d)
           /\ Agreed(R, m, d) => Agreed(S, m, d)
  <1>1. ASSUME AllBacked(R, m, d) PROVE AllBacked(S, m, d)
    <2> SUFFICES ASSUME NEW f \in DOMAIN m
                 PROVE  \E text \in Textual : BackedIn(S, d, f, m[f], text)
      BY DEF AllBacked
    <2>1. PICK text \in Textual : BackedIn(R, d, f, m[f], text)
      BY <1>1 DEF AllBacked
    <2> QED
      BY <2>1 DEF BackedIn
  <1> QED
    BY <1>1 DEF Agreed

\* Of vectors nothing is missed but those of what has not come again.
LEMMA AgreedWithout ==
    ASSUME NEW R, NEW m, NEW d, NEW e, NEW sha \in R, Agreed(R, m, d),
           e.pages = d.pages, e.trees = d.trees, e.graph = d.graph, e.raw = d.raw,
           e.index = d.index, e.vectors = Drop(d.vectors, {sha})
    PROVE  Agreed(R, m, e)
  <1>1. /\ DOMAIN e.vectors = DOMAIN d.vectors \ {sha}
        /\ \A s \in DOMAIN e.vectors : e.vectors[s] = d.vectors[s]
    BY DEF Drop
  <1>2. AllBacked(R, m, e)
    <2> SUFFICES ASSUME NEW f \in DOMAIN m
                 PROVE  \E text \in Textual : BackedIn(R, e, f, m[f], text)
      BY DEF AllBacked
    <2>1. PICK text \in Textual : BackedIn(R, d, f, m[f], text)
      BY DEF Agreed, AllBacked
    <2> QED
      BY <1>1, <2>1 DEF BackedIn
  <1>3. \A s \in DOMAIN e.vectors : OwnedBy(m, e, s)
    BY <1>1 DEF Agreed, OwnedBy
  <1> QED
    BY <1>2, <1>3 DEF Agreed

\* The manifest before a transaction is that of the run.
LEMMA EntryPutBack ==
    ASSUME NEW m \in Manifests, NEW f, NEW x, x = IF f \in DOMAIN m THEN m[f] ELSE None
    PROVE  (IF x = None THEN Drop(m, {f}) ELSE Put(m, f, x)) = m
  <1>1. m \in Partial(Files, Entries)
    BY DEF Manifests
  <1>2. CASE f \in DOMAIN m
    <2>1. x = m[f] /\ x # None
      BY <1>2, EntryOf, EntryHas
    <2> QED
      BY <1>1, <1>2, <2>1, PutSame
  <1>3. CASE f \notin DOMAIN m
    BY <1>1, <1>3, DropAbsent
  <1> QED
    BY <1>2, <1>3

\* Until the commit this is the manifest of the run.
LEMMA PreviousIs ==
    ASSUME TypeInv, LocalsInv, MemInv, job.stage \in Transaction
    PROVE  Previous = mem
  <1>1. mem \in Manifests
    BY DEF TypeInv
  <1>2. job.existing = IF job.file \in DOMAIN mem THEN mem[job.file] ELSE None
    BY DEF MemInv
  <1> QED
    BY <1>1, <1>2, EntryPutBack DEF Previous

\* A failed transaction leaves the raw copies and pages as they were, unless it
\* fails when the index is rebuilt.
LEMMA RestoredRawAndPages ==
    ASSUME TypeInv, LocalsInv, BeforeInv, job.stage \in Transaction, job.stage # "index"
    PROVE  Restored.raw = job.before.raw /\ Restored.pages = job.before.pages
  <1> DEFINE before == job.before
             known  == job.stage \in {"graph", "vector", "commit"}
  <1>1. before \in Layers
    BY JobHas DEF TypeInv
  <1>2. before.raw \in Partial(Files, Contents)
        /\ before.pages \in Partial(Slugs, Artifacts \cup {Torn})
    BY <1>1, LayersHave
  <1>3. job.file \in Files
    BY DEF LocalsInv
  <1> USE DEF Transaction, PastCopy, PastPage, PastIndex, PastGraph, PastVector
  <1>5. Restored.raw = before.raw
    <2>1. Restored.raw = IF job.file \in DOMAIN before.raw
                         THEN Put(disk.raw, job.file, before.raw[job.file])
                         ELSE Drop(disk.raw, {job.file})
      BY RestoredIs
    <2>2. CASE job.stage \in PastCopy
      <3>1. PICK r : disk.raw = Put(before.raw, job.file, r)
        BY <2>2 DEF BeforeInv
      <3> HIDE DEF before
      <3>2. job.file \in DOMAIN before.raw =>
               Put(Put(before.raw, job.file, r), job.file, before.raw[job.file]) = before.raw
        BY <1>2, PutBack
      <3>3. job.file \notin DOMAIN before.raw =>
               Drop(Put(before.raw, job.file, r), {job.file}) = before.raw
        BY <1>2, PutBack
      <3> QED
        BY <2>1, <3>1, <3>2, <3>3
    <2>3. CASE job.stage \notin PastCopy
      <3>1. disk.raw = before.raw
        BY <2>3 DEF BeforeInv
      <3> HIDE DEF before
      <3> QED
        BY <1>2, <2>1, <3>1, PutSame, DropAbsent
    <2> QED
      BY <2>2, <2>3
  <1>6. Restored.pages = before.pages
    <2>1. CASE known
      <3>1. disk.pages = Put(before.pages, job.slug, Artifact(job.file, job.text))
        BY <2>1 DEF BeforeInv
      <3>2. CASE job.slug \in DOMAIN before.pages
        <4>1. HasEntry(job.existing)
          BY <2>1, <3>2 DEF BeforeInv
        <4>2. Restored.pages = Put(disk.pages, job.slug, before.pages[job.slug])
          BY <2>1, <3>2, <4>1, RestoredIs
        <4> HIDE DEF before
        <4>3. \A x : Put(Put(before.pages, job.slug, x), job.slug, before.pages[job.slug])
                        = before.pages
          BY <1>2, <3>2, PutBack
        <4> QED
          BY <3>1, <4>2, <4>3
      <3>3. CASE job.slug \notin DOMAIN before.pages
        <4>1. Restored.pages = Drop(disk.pages, {job.slug})
          BY <2>1, <3>3, RestoredIs
        <4> QED
          BY <1>2, <3>1, <3>3, <4>1, PutBack
      <3> QED
        BY <3>2, <3>3
    <2>2. CASE ~known
      BY <2>2, RestoredIs DEF BeforeInv
    <2> QED
      BY <2>1, <2>2
  <1> QED
    BY <1>5, <1>6

\* A failed transaction is undone, but for vectors of what came again.
LEMMA RestoredIsBefore ==
    ASSUME TypeInv, LocalsInv, MemInv, BeforeInv, StemsApart,
           job.stage \in Transaction, job.stage # "index",
           NEW R, Agreed(R, mem, job.before),
           job.sha \notin R => job.sha \notin DOMAIN job.before.vectors
    PROVE  /\ Agreed(R, mem, Restored)
           /\ Restored.trees = job.before.trees /\ Restored.raw = job.before.raw
           /\ job.sha \notin R => Restored = job.before
  <1> DEFINE before == job.before
             stem   == StemOf[job.file]
             known  == job.stage \in {"graph", "vector", "commit"}
  <1>1. before \in Layers /\ Restored \in Layers /\ disk \in Layers
    BY RestoredIs, JobHas DEF TypeInv
  <1>2. /\ before.trees \in Partial(Stems, Trees)
        /\ before.raw \in Partial(Files, Contents)
        /\ before.pages \in Partial(Slugs, Artifacts \cup {Torn})
        /\ before.vectors \in Partial(Contents, Artifacts)
    BY <1>1, LayersHave
  <1>3. job.file \in Files
    BY DEF LocalsInv
  <1> USE DEF Transaction, PastTree, PastCopy, PastPage, PastIndex, PastGraph, PastVector
  <1>4. Restored.trees = before.trees
    <2>1. CASE job.stage = "tree"
      BY <2>1, RestoredIs DEF BeforeInv
    <2>2. CASE job.stage # "tree"
      <3>1. disk.trees = Put(before.trees, stem, Tree(job.file, job.sha, job.text))
        BY <2>2 DEF BeforeInv
      <3>2. CASE stem \in DOMAIN before.trees
        <4>1. PICK g \in DOMAIN mem : stem = StemOf[g]
          BY <3>2 DEF Agreed, StemsOf
        <4>2. g = job.file
          BY <1>3, <4>1, EntryOf DEF StemsApart, TypeInv
        <4>3. job.existing = mem[g] /\ mem[g] \in Entries
          BY <4>2, EntryOf DEF MemInv, TypeInv
        <4>4. HasEntry(job.existing)
          BY <4>3, EntryHas DEF Agreed, AllBacked, BackedIn
        <4>5. Restored.trees = Put(disk.trees, stem, before.trees[stem])
          BY <2>2, <3>2, <4>4, RestoredIs
        <4> HIDE DEF before, stem
        <4>6. \A x : Put(Put(before.trees, stem, x), stem, before.trees[stem]) = before.trees
          BY <1>2, <3>2, PutBack
        <4> QED
          BY <3>1, <4>5, <4>6
      <3>3. CASE stem \notin DOMAIN before.trees
        <4>1. Restored.trees = Drop(disk.trees, {stem})
          BY <2>2, <3>3, RestoredIs
        <4> QED
          BY <1>2, <3>1, <3>3, <4>1, PutBack
      <3> QED
        BY <3>2, <3>3
    <2> QED
      BY <2>1, <2>2
  <1>5. Restored.raw = before.raw /\ Restored.pages = before.pages
    BY RestoredRawAndPages
  <1>7. Restored.index = before.index
    <2>1. before.index = DOMAIN before.pages
      BY DEF Agreed
    <2>2. CASE known
      BY <1>5, <2>1, <2>2, RestoredIs
    <2>3. CASE ~known
      BY <2>3, RestoredIs DEF BeforeInv
    <2> QED
      BY <2>2, <2>3
  <1>8. Restored.graph = before.graph
    BY RestoredIs
  <1>9. CASE Restored.vectors = before.vectors
    <2>1. Restored = before
      <3> HIDE DEF before
      <3> QED
        BY <1>1, <1>4, <1>5, <1>7, <1>8, <1>9, LayersHave
    <2> QED
      BY <2>1
  <1>10. CASE Restored.vectors # before.vectors
    <2>1. job.stage = "commit"
      BY <1>10, RestoredIs DEF BeforeInv
    <2>2. Restored.vectors = Drop(Put(before.vectors, job.sha, Artifact(job.file, job.text)),
                                  {job.sha})
      <3>1. disk.vectors = Put(before.vectors, job.sha, Artifact(job.file, job.text))
        BY <2>1 DEF BeforeInv
      <3> QED
        BY <2>1, <3>1, RestoredIs
    <2>3. job.sha \in DOMAIN before.vectors
      BY <1>2, <1>10, <2>2, PutBack
    <2>4. Restored.vectors = Drop(before.vectors, {job.sha})
      BY <2>2 DEF Put, Drop
    <2>5. Agreed(R, mem, before) /\ job.sha \in R
      BY <2>3
    <2> HIDE DEF before
    <2>6. Agreed(R, mem, Restored)
      BY <1>4, <1>5, <1>7, <1>8, <2>4, <2>5, AgreedWithout
    <2> QED
      BY <1>4, <1>5, <2>5, <2>6 DEF before
  <1> QED
    BY <1>4, <1>5, <1>9, <1>10

\* What is backed stays so while a step works on another source.
LEMMA BackedStays ==
    ASSUME NEW g \in Files, NEW e \in Entries, NEW text, NEW f \in Files, NEW p, NEW s, NEW R,
           StemsApart, Touches(f, p, s), g # f, e.page # p, e.sha \notin R => e.sha # s,
           BackedIn(R, disk, g, e, text)
    PROVE  BackedIn(R, disk', g, e, text)
  <1>1. e.sha \in Contents /\ e.page \in Slugs /\ StemOf[g] \in Stems \ {StemOf[f]}
    BY EntryHas DEF BackedIn, Stems, StemsApart
  <1>2. /\ e.page \in DOMAIN disk'.pages /\ disk'.pages[e.page] = disk.pages[e.page]
        /\ StemOf[g] \in DOMAIN disk'.trees
        /\ disk'.trees[StemOf[g]] = disk.trees[StemOf[g]]
        /\ e.sha \notin R => /\ e.sha \in DOMAIN disk'.vectors
                           /\ disk'.vectors[e.sha] = disk.vectors[e.sha]
        /\ g \in DOMAIN disk'.graph /\ disk'.graph[g] = disk.graph[g]
        /\ g \in DOMAIN disk'.raw
    BY <1>1 DEF Touches, BackedIn
  <1> QED
    BY <1>2 DEF BackedIn

\* The names of a manifest m are those of r, without the entry of f, and those of the
\* entry.
Without(R, m, d, f, r) ==
    /\ r \in Manifests /\ DOMAIN r = DOMAIN m \ {f}
    /\ AllBacked(R, r, d) /\ Derived(m[f])
    /\ m[f].page \notin PagesOf(r) /\ PagesOf(m) = PagesOf(r) \cup {m[f].page}
    /\ m[f].sha \notin R => m[f].sha \notin ShasOf(r)
    /\ \A s \in DOMAIN d.vectors \ {m[f].sha} : OwnedBy(r, d, s)
    /\ StemsOf(m) = StemsOf(r) \cup {StemOf[f]}

LEMMA WithoutOne ==
    ASSUME NEW m \in Manifests, NEW d, NEW R, NEW f \in DOMAIN m, Agreed(R, m, d), StemsApart,
           NEW r, r = Drop(m, {f})
    PROVE  Without(R, m, d, f, r)
  <1>1. AllBacked(R, m, d)
    BY DEF Agreed
  <1>2. r \in Manifests
    BY DropPartial DEF Manifests
  <1>3. DOMAIN r = DOMAIN m \ {f} /\ \A g \in DOMAIN m \ {f} : r[g] = m[g]
    BY DEF Drop
  <1>4. AllBacked(R, r, d)
    BY <1>1, <1>3 DEF AllBacked
  <1>5. Derived(m[f])
    BY <1>1 DEF AllBacked, BackedIn
  <1>6. \A g \in DOMAIN m \ {f} : m[g].page # m[f].page /\ (m[f].sha \notin R => m[g].sha # m[f].sha)
    BY <1>1, AgreedApart
  <1>7. m[f].page \notin PagesOf(r) /\ (m[f].sha \notin R => m[f].sha \notin ShasOf(r))
    BY <1>3, <1>6 DEF PagesOf, ShasOf
  <1>8. PagesOf(m) = PagesOf(r) \cup {m[f].page}
    BY <1>3 DEF PagesOf
  <1>9. \A s \in DOMAIN d.vectors \ {m[f].sha} : OwnedBy(r, d, s)
    BY <1>3 DEF Agreed, OwnedBy
  <1>10. StemsOf(m) = StemsOf(r) \cup {StemOf[f]}
    BY <1>3 DEF StemsOf
  <1> QED
    BY <1>2, <1>3, <1>4, <1>5, <1>7, <1>8, <1>9, <1>10 DEF Without

\* After the sweep the layers agree with the manifest that was committed.
LEMMA SweepAgrees ==
    ASSUME TypeInv, LocalsInv, MemInv, BeforeInv, StemsApart, Sweep,
           NEW R, Agreed(R, Previous, job.before),
           job.sha \notin R => job.sha \notin DOMAIN job.before.vectors
    PROVE  Agreed(R, mem, disk')
  <1> DEFINE b  == job.before
             f  == job.file
             m0 == Previous
             A  == Artifact(f, job.text)
  <1> USE DEF PastTree, PastCopy, PastPage, PastIndex, PastGraph, PastVector
  <1>1. /\ job.stage = "sweep" /\ f \in Files /\ job.text \in Textual
        /\ mem \in Manifests /\ f \in DOMAIN mem /\ mem[f].sha = job.sha
        /\ mem[f].page = job.slug /\ job.slug \in Slugs
        /\ job.existing \in Entries \cup {None}
    BY SweepDoes, JobHas DEF LocalsInv, MemInv, TypeInv, Entry
  <1>2. /\ disk.trees = Put(b.trees, StemOf[f], Tree(f, job.sha, job.text))
        /\ disk.raw = Put(b.raw, f, disk.raw[f])
        /\ disk.pages = Put(b.pages, job.slug, A)
        /\ disk.graph = Put(b.graph, f, job.text)
        /\ disk.vectors = Put(b.vectors, job.sha, A)
        /\ HasEntry(job.existing) => job.slug = job.existing.page
        /\ ~HasEntry(job.existing) => job.slug \notin DOMAIN b.pages
    BY <1>1 DEF BeforeInv
  <1>3. StalePages = {}
    BY <1>1, <1>2 DEF StalePages
  <1>4. /\ disk'.trees = disk.trees /\ disk'.raw = disk.raw /\ disk'.graph = disk.graph
        /\ DOMAIN disk'.pages = DOMAIN disk.pages
        /\ \A s \in DOMAIN disk.pages : disk'.pages[s] = disk.pages[s]
        /\ disk'.index = DOMAIN disk'.pages
        /\ DOMAIN disk'.vectors = DOMAIN disk.vectors \ StaleVectors
        /\ \A s \in DOMAIN disk'.vectors : disk'.vectors[s] = disk.vectors[s]
    BY <1>3, SweepDoes DEF Drop
  <1>5. /\ m0 \in Manifests
        /\ DOMAIN m0 = IF job.existing = None THEN DOMAIN mem \ {f} ELSE DOMAIN mem
        /\ \A g \in DOMAIN mem \ {f} : m0[g] = mem[g]
        /\ job.existing # None => m0[f] = job.existing
    <2>1. CASE job.existing = None
      <3>1. m0 = Drop(mem, {f})
        BY <2>1 DEF Previous
      <3>2. m0 \in Manifests
        BY <1>1, <3>1, DropPartial DEF Manifests
      <3> QED
        BY <1>1, <2>1, <3>1, <3>2 DEF Drop
    <2>2. CASE job.existing # None
      <3>1. m0 = Put(mem, f, job.existing)
        BY <2>2 DEF Previous
      <3>2. m0 \in Manifests
        BY <1>1, <2>2, <3>1, PutPartial DEF Manifests
      <3> QED
        BY <1>1, <2>2, <3>1, <3>2 DEF Put
    <2> QED
      BY <2>1, <2>2
  <1>6. Agreed(R, m0, b) /\ AllBacked(R, m0, b)
    BY DEF Agreed
  <1>7. job.sha \notin R => job.sha \notin DOMAIN b.vectors
    OBVIOUS
  <1>8. job.existing # None => HasEntry(job.existing) /\ f \in DOMAIN m0
    <2>1. HAVE job.existing # None
    <2>2. f \in DOMAIN m0 /\ m0[f] = job.existing
      BY <1>1, <1>5, <2>1
    <2> QED
      BY <1>6, <2>1, <2>2 DEF AllBacked, BackedIn, HasEntry
  <1> HIDE DEF b, f, m0
  <1>9. job.sha \notin StaleVectors
    BY DEF StaleVectors
  <1>10. \A g \in DOMAIN mem \ {f} :
            /\ g \in DOMAIN m0 /\ mem[g].page # job.slug
            /\ mem[g].sha \notin R => mem[g].sha \notin StaleVectors /\ mem[g].sha # job.sha
    <2> SUFFICES ASSUME NEW g \in DOMAIN mem \ {f}
                 PROVE  /\ g \in DOMAIN m0 /\ mem[g].page # job.slug
                        /\ mem[g].sha \notin R =>
                              mem[g].sha \notin StaleVectors /\ mem[g].sha # job.sha
      OBVIOUS
    <2>1. g \in DOMAIN m0 /\ m0[g] = mem[g]
      BY <1>5
    <2>2. mem[g].page \in DOMAIN b.pages /\ (mem[g].sha \notin R => mem[g].sha \in DOMAIN b.vectors)
      BY <1>6, <2>1 DEF AllBacked, BackedIn
    <2>3. CASE job.existing = None
      BY <1>2, <1>7, <2>1, <2>2, <2>3 DEF StaleVectors, HasEntry
    <2>4. CASE job.existing # None
      <3>1. /\ mem[g].page # job.existing.page
            /\ mem[g].sha \notin R => mem[g].sha # job.existing.sha
        <4>1. f \in DOMAIN m0 /\ m0[f] = job.existing /\ g # f
          BY <1>5, <1>8, <2>4
        <4>2. /\ m0[g].page # m0[f].page
              /\ m0[g].sha \notin R => m0[g].sha # m0[f].sha
          BY <1>5, <1>6, <2>1, <4>1, AgreedApart
        <4> QED
          BY <2>1, <4>1, <4>2
      <3>2. mem[g].page # job.slug
        BY <1>2, <1>8, <2>4, <3>1
      <3>3. mem[g].sha \notin R => mem[g].sha # job.sha
        BY <1>7, <2>2
      <3> QED
        BY <2>1, <3>1, <3>2, <3>3 DEF StaleVectors
    <2> QED
      BY <2>3, <2>4
  <1>11. AllBacked(R, mem, disk')
    <2>1. ASSUME NEW g \in DOMAIN mem, g # f PROVE \E t \in Textual : BackedIn(R, disk', g, mem[g], t)
      <3>1. g \in DOMAIN m0 /\ m0[g] = mem[g] /\ g \in Files
        BY <1>1, <1>5, <1>10, <2>1, EntryOf
      <3>2. PICK t \in Textual : BackedIn(R, b, g, mem[g], t)
        BY <1>6, <3>1 DEF AllBacked
      <3>3. StemOf[g] # StemOf[f]
        BY <1>1, <2>1, <3>1 DEF StemsApart
      <3>4. mem[g].page \in DOMAIN disk.pages /\ disk.pages[mem[g].page] = Artifact(g, t)
        BY <1>2, <1>10, <2>1, <3>2 DEF BackedIn, Put
      <3>5. mem[g].sha \notin R =>
               mem[g].sha \in DOMAIN disk.vectors /\ disk.vectors[mem[g].sha] = Artifact(g, t)
        BY <1>2, <1>10, <2>1, <3>2 DEF BackedIn, Put
      <3>6. StemOf[g] \in DOMAIN disk.trees /\ disk.trees[StemOf[g]] = b.trees[StemOf[g]]
        BY <1>2, <3>2, <3>3 DEF BackedIn, Put
      <3>7. g \in DOMAIN disk.graph /\ disk.graph[g] = t /\ g \in DOMAIN disk.raw
        BY <1>2, <2>1, <3>2 DEF BackedIn, Put
      <3>8. mem[g].sha \notin R => mem[g].sha \in DOMAIN disk'.vectors
        BY <1>4, <1>10, <2>1, <3>5
      <3> QED
        BY <1>4, <3>2, <3>4, <3>5, <3>6, <3>7, <3>8 DEF BackedIn
    <2>2. BackedIn(R, disk', f, mem[f], job.text)
      <3>1. job.slug \in DOMAIN disk.pages /\ disk.pages[job.slug] = A
        BY <1>2 DEF Put
      <3>2. job.sha \in DOMAIN disk.vectors /\ disk.vectors[job.sha] = A
        BY <1>2 DEF Put
      <3>3. StemOf[f] \in DOMAIN disk.trees
            /\ disk.trees[StemOf[f]] = Tree(f, job.sha, job.text)
        BY <1>2 DEF Put
      <3>4. f \in DOMAIN disk.graph /\ disk.graph[f] = job.text /\ f \in DOMAIN disk.raw
        BY <1>2 DEF Put
      <3>5. job.sha \in DOMAIN disk'.vectors
        BY <1>4, <1>9, <3>2
      <3>6. Derived(mem[f])
        BY <1>1, EntryOf, EntryHas
      <3> QED
        BY <1>1, <1>4, <3>1, <3>2, <3>3, <3>4, <3>5, <3>6 DEF BackedIn, Tree
    <2> QED
      BY <1>1, <2>1, <2>2 DEF AllBacked
  <1>12. DOMAIN disk'.pages = PagesOf(mem)
    <2>1. DOMAIN disk'.pages = PagesOf(m0) \cup {job.slug}
      BY <1>2, <1>4, <1>6 DEF Agreed, Put
    <2>2. \A g \in DOMAIN m0 : m0[g].page \in PagesOf(mem)
      BY <1>1, <1>2, <1>5, <1>8 DEF PagesOf
    <2>3. \A g \in DOMAIN mem : mem[g].page \in PagesOf(m0) \cup {job.slug}
      BY <1>1, <1>5, <1>10 DEF PagesOf
    <2>4. job.slug \in PagesOf(mem)
      BY <1>1 DEF PagesOf
    <2> QED
      BY <2>1, <2>2, <2>3, <2>4 DEF PagesOf
  <1>13. ASSUME NEW s \in DOMAIN disk'.vectors PROVE OwnedBy(mem, disk', s)
    <2>1. s \notin StaleVectors /\ disk'.vectors[s] = disk.vectors[s]
      BY <1>4
    <2>2. CASE s = job.sha
      <3>1. disk'.vectors[s].of = f
        BY <1>2, <2>1, <2>2 DEF Put, Artifact
      <3> QED
        BY <1>1, <2>2, <3>1 DEF OwnedBy
    <2>3. CASE s # job.sha
      <3>1. s \in DOMAIN b.vectors /\ disk'.vectors[s] = b.vectors[s]
        BY <1>2, <1>4, <2>1, <2>3 DEF Put
      <3>2. PICK g : g = b.vectors[s].of
        OBVIOUS
      <3>3. g \in DOMAIN m0 /\ m0[g].sha = s
        BY <1>6, <3>1, <3>2 DEF Agreed, OwnedBy
      <3>4. g # f
        <4>1. SUFFICES ASSUME g = f PROVE FALSE
          OBVIOUS
        <4>2. job.existing # None /\ job.existing.sha = s
          BY <1>5, <3>3, <4>1
        <4> QED
          BY <1>8, <2>1, <2>3, <4>2 DEF StaleVectors
      <3>5. g \in DOMAIN mem /\ mem[g] = m0[g]
        BY <1>5, <3>3, <3>4
      <3> QED
        BY <3>1, <3>2, <3>3, <3>5 DEF OwnedBy
    <2> QED
      BY <2>2, <2>3
  <1>14. DOMAIN disk'.trees = StemsOf(mem)
    <2>1. DOMAIN disk'.trees = StemsOf(m0) \cup {StemOf[f]}
      BY <1>2, <1>4, <1>6 DEF Agreed, Put
    <2>2. DOMAIN mem = DOMAIN m0 \cup {f}
      BY <1>1, <1>5
    <2> QED
      BY <2>1, <2>2 DEF StemsOf
  <1>15. DOMAIN disk'.graph = DOMAIN mem
    <2>1. DOMAIN disk'.graph = DOMAIN b.graph \cup {f}
      BY <1>2, <1>4 DEF Put
    <2> QED
      BY <1>1, <1>5, <1>6, <2>1 DEF Agreed
  <1>16. DOMAIN disk'.raw = DOMAIN mem
    <2>1. DOMAIN disk'.raw = DOMAIN b.raw \cup {f}
      BY <1>2, <1>4 DEF Put
    <2> QED
      BY <1>1, <1>5, <1>6, <2>1 DEF Agreed
  <1> QED
    BY <1>4, <1>11, <1>12, <1>13, <1>14, <1>15, <1>16 DEF Agreed

\* A removal starts from layers that agree.
LEMMA RemovalStarts ==
    ASSUME TypeInv, StemsApart, Agreed(again, mem, disk), again' = again, NEW f \in DOMAIN mem,
           disk' = disk, job'.file = f, job'.existing = mem[f], job'.stage = "unlink",
           mem' = mem \/ mem' = Drop(mem, {f})
    PROVE  RemovalInv'
  <1>1. PICK r : r = Drop(mem, {f})
    OBVIOUS
  <1>2. /\ r \in Manifests /\ DOMAIN r = DOMAIN mem \ {f}
        /\ AllBacked(again, r, disk) /\ Derived(mem[f])
        /\ mem[f].page \notin PagesOf(r) /\ PagesOf(mem) = PagesOf(r) \cup {mem[f].page}
        /\ mem[f].sha \notin again => mem[f].sha \notin ShasOf(r)
        /\ \A s \in DOMAIN disk.vectors \ {mem[f].sha} : OwnedBy(r, disk, s)
        /\ StemsOf(mem) = StemsOf(r) \cup {StemOf[f]}
    <2>1. mem \in Manifests
      BY DEF TypeInv
    <2>2. Without(again, mem, disk, f, r)
      BY <1>1, <2>1, WithoutOne
    <2> QED
      BY <2>2 DEF Without
  <1>3. Rest' = r
    <2>1. Drop(r, {f}) = r
      BY <1>2, DropAbsent DEF Manifests
    <2>2. Rest' = Drop(mem', {f})
      BY DEF Rest
    <2> QED
      BY <1>1, <2>1, <2>2
  <1>4. /\ DOMAIN disk.pages = PagesOf(mem) /\ disk.index = PagesOf(mem)
        /\ DOMAIN disk.trees = StemsOf(mem)
        /\ DOMAIN disk.graph = DOMAIN mem /\ DOMAIN disk.raw = DOMAIN mem
    BY DEF Agreed
  <1>5. DOMAIN mem = DOMAIN r \cup {f}
    BY <1>2
  <1>6. Until({"unlink"}, job.existing.page)' = {mem[f].page}
        /\ Until({"unlink", "reindex"}, job.existing.page)' = {mem[f].page}
        /\ Until({"unlink", "reindex", "detach"}, job.file)' = {f}
        /\ Until({"unlink", "reindex", "detach", "unembed"}, job.existing.sha)' = {mem[f].sha}
        /\ Until({"unlink", "reindex", "detach", "unembed", "untree"}, StemOf[job.file])'
              = {StemOf[f]}
    BY DEF Until
  <1>7. AllBacked(again', Rest', disk')
    BY <1>2, <1>3
  <1>8. Derived(job'.existing)
    BY <1>2 DEF Derived
  <1>9. \A s \in DOMAIN disk'.vectors \ {mem[f].sha} : OwnedBy(Rest', disk', s)
    BY <1>2, <1>3
  <1> QED
    BY <1>2, <1>3, <1>4, <1>5, <1>6, <1>7, <1>8, <1>9
       DEF RemovalInv, AllBacked, BackedIn, Derived, OwnedBy

\* What is left in the layers belongs to the rest, and the rest is kept.
LEMMA RestStays ==
    ASSUME TypeInv, LocalsInv, StemsApart, RemovalInv,
           Unlink \/ Reindex \/ Detach \/ Unembed \/ Untree \/ Unraw
    PROVE  /\ AllBacked(again, Rest, disk')
           /\ Rest \in Manifests /\ DOMAIN Rest = DOMAIN mem \ {job.file}
           /\ StemOf[job.file] \notin StemsOf(Rest)
  <1> DEFINE r == Rest
  <1>1. r \in Manifests /\ DOMAIN r = DOMAIN mem \ {job.file}
    <2>1. r \in Manifests
      BY DropPartial DEF Rest, TypeInv, Manifests
    <2> QED
      BY <2>1 DEF Rest, Drop
  <1>2. /\ job.file \in Files
        /\ Touches(job.file, job.existing.page, job.existing.sha)
    BY RemovalTouches, UnlinkDoes, ReindexDoes, DetachDoes, UnembedDoes, UntreeDoes,
       UnrawDoes DEF LocalsInv, Removal
  <1>3. /\ AllBacked(again, r, disk)
        /\ job.existing.page \notin PagesOf(r)
        /\ job.existing.sha \notin again => job.existing.sha \notin ShasOf(r)
    BY DEF RemovalInv
  <1> HIDE DEF r
  <1>4. ASSUME NEW g \in DOMAIN r PROVE \E t \in Textual : BackedIn(again, disk', g, r[g], t)
    <2>1. PICK t \in Textual : BackedIn(again, disk, g, r[g], t)
      BY <1>3 DEF AllBacked
    <2>2. g \in Files /\ r[g] \in Entries /\ g # job.file
      BY <1>1, EntryOf
    <2>3. r[g].page # job.existing.page
          /\ (r[g].sha \notin again => r[g].sha # job.existing.sha)
      BY <1>3 DEF PagesOf, ShasOf
    <2>4. BackedIn(again, disk', g, r[g], t)
      BY <1>2, <2>1, <2>2, <2>3, BackedStays
    <2> QED
      BY <2>4
  <1>5. StemOf[job.file] \notin StemsOf(r)
    <2>1. \A g \in DOMAIN r : g \in Files /\ g # job.file
      BY <1>1, EntryOf
    <2> QED
      BY <1>2, <2>1 DEF StemsOf, StemsApart
  <1> QED
    BY <1>1, <1>4, <1>5 DEF AllBacked, r

\* Nothing that the removal leaves is torn.
LEMMA RestIndexable ==
    ASSUME TypeInv, LocalsInv, RemovalInv, job.stage = "reindex"
    PROVE  Indexable
  <1> SUFFICES ASSUME NEW s \in DOMAIN disk.pages PROVE disk.pages[s] # Torn
    BY DEF Indexable
  <1>1. PICK r : r = Rest
    OBVIOUS
  <1>2. DOMAIN disk.pages = PagesOf(r) /\ AllBacked(again, r, disk)
    BY <1>1 DEF RemovalInv, Until
  <1>3. PICK g \in DOMAIN r : s = r[g].page
    BY <1>2 DEF PagesOf
  <1>4. PICK t \in Textual : BackedIn(again, disk, g, r[g], t)
    BY <1>2 DEF AllBacked
  <1>5. g \in Files
    <2>1. r \in Manifests
      BY <1>1, DropPartial DEF Rest, TypeInv, Manifests
    <2> QED
      BY <2>1, EntryOf
  <1> QED
    BY <1>3, <1>4, <1>5, ArtifactType, TextualIsContent DEF BackedIn

\* Each step of the removal takes away what is left in one layer.
LEMMA RemovalGoesOn ==
    ASSUME TypeInv, LocalsInv, StemsApart, RemovalInv, LocalsKept, mem' = mem, again' = again,
           Unlink \/ (Reindex /\ Indexable) \/ Detach \/ Unembed \/ Untree
    PROVE  RemovalInv'
  <1>1. PICK r : r = Rest
    OBVIOUS
  <1>2. Rest' = r /\ AllBacked(again, r, disk') /\ StemOf[job.file] \notin StemsOf(r)
        /\ DOMAIN r = DOMAIN mem \ {job.file}
    BY <1>1, RestStays DEF Rest, LocalsKept
  <1>3. /\ Derived(job.existing)
        /\ job.existing.page \notin PagesOf(r)
        /\ job.existing.sha \notin again => job.existing.sha \notin ShasOf(r)
        /\ DOMAIN disk.pages = PagesOf(r) \cup Until({"unlink"}, job.existing.page)
        /\ disk.index = PagesOf(r) \cup Until({"unlink", "reindex"}, job.existing.page)
        /\ DOMAIN disk.graph = DOMAIN r
              \cup Until({"unlink", "reindex", "detach"}, job.file)
        /\ \A s \in DOMAIN disk.vectors
                    \ Until({"unlink", "reindex", "detach", "unembed"}, job.existing.sha) :
              OwnedBy(r, disk, s)
        /\ DOMAIN disk.trees = StemsOf(r)
              \cup Until({"unlink", "reindex", "detach", "unembed", "untree"},
                         StemOf[job.file])
        /\ DOMAIN disk.raw = DOMAIN r \cup {job.file}
    BY <1>1 DEF RemovalInv
  <1>4. SUFFICES
          /\ DOMAIN disk'.pages = PagesOf(r) \cup Until({"unlink"}, job.existing.page)'
          /\ disk'.index = PagesOf(r) \cup Until({"unlink", "reindex"}, job.existing.page)'
          /\ DOMAIN disk'.graph = DOMAIN r
                \cup Until({"unlink", "reindex", "detach"}, job.file)'
          /\ \A s \in DOMAIN disk'.vectors
                      \ Until({"unlink", "reindex", "detach", "unembed"}, job.existing.sha)' :
                OwnedBy(r, disk', s)
          /\ DOMAIN disk'.trees = StemsOf(r)
                \cup Until({"unlink", "reindex", "detach", "unembed", "untree"},
                           StemOf[job.file])'
          /\ DOMAIN disk'.raw = DOMAIN r \cup {job.file}
    BY <1>2, <1>3 DEF RemovalInv, LocalsKept, Derived, OwnedBy
  <1>5. CASE Unlink
    BY <1>3, <1>5, UnlinkDoes DEF LocalsKept, Until, Drop, OwnedBy
  <1>6. CASE Reindex /\ Indexable
    BY <1>3, <1>6, ReindexDoes DEF LocalsKept, Until, OwnedBy
  <1>7. CASE Detach
    BY <1>2, <1>3, <1>7, DetachDoes DEF LocalsKept, Until, Drop, OwnedBy
  <1>8. CASE Unembed
    BY <1>3, <1>8, UnembedDoes DEF LocalsKept, Until, Drop, OwnedBy
  <1>9. CASE Untree
    BY <1>2, <1>3, <1>9, UntreeDoes DEF LocalsKept, Until, Drop, OwnedBy
  <1> QED
    BY <1>5, <1>6, <1>7, <1>8, <1>9

\* Its last step leaves layers that agree with the rest.
LEMMA RemovalEnds ==
    ASSUME TypeInv, LocalsInv, StemsApart, RemovalInv, Unraw
    PROVE  Agreed(again, Rest, disk')
  <1>1. PICK r : r = Rest
    OBVIOUS
  <1>2. AllBacked(again, r, disk') /\ DOMAIN r = DOMAIN mem \ {job.file}
    BY <1>1, RestStays
  <1>3. /\ DOMAIN disk.pages = PagesOf(r) /\ disk.index = PagesOf(r)
        /\ DOMAIN disk.graph = DOMAIN r
        /\ \A s \in DOMAIN disk.vectors : OwnedBy(r, disk, s)
        /\ DOMAIN disk.trees = StemsOf(r) /\ DOMAIN disk.raw = DOMAIN r \cup {job.file}
    BY <1>1, UnrawDoes DEF RemovalInv, Until
  <1>4. DOMAIN disk'.raw = DOMAIN r
    BY <1>2, <1>3, UnrawDoes DEF Drop
  <1> QED
    BY <1>1, <1>2, <1>3, <1>4, UnrawDoes DEF Agreed, OwnedBy

\* A run that is undisturbed finds what it stored under its hash.
LEMMA NewContent ==
    ASSUME TypeInv, ClaimsInv, NEW f \in Files, source[f] \in Contents \ again,
           Agreed(again, mem, disk), ~(f \in DOMAIN mem /\ CanSkip(mem[f], source[f]))
    PROVE  source[f] \notin DOMAIN disk.vectors
  <1>1. SUFFICES ASSUME source[f] \in DOMAIN disk.vectors PROVE FALSE
    OBVIOUS
  <1>2. PICK g \in DOMAIN mem : mem[g].sha = source[f]
    BY <1>1 DEF Agreed, OwnedBy
  <1>3. g \in Files
    BY EntryOf DEF TypeInv
  <1>4. Owns(f, source[f]) /\ Owns(g, source[f])
    BY <1>2 DEF Owns
  <1>5. g = f
    <2> HIDE DEF Owns
    <2> QED
      BY <1>3, <1>4 DEF ClaimsInv
  <1>6. Derived(mem[f])
    BY <1>2, <1>5 DEF Agreed, AllBacked, BackedIn
  <1> QED
    BY <1>1, <1>2, <1>5, <1>6 DEF CanSkip

\* Only runs cut short and losses are counted as disturbances, and a rebuild of the
\* index that raises.
LEMMA CountsKept ==
    ASSUME TypeInv, LocalsInv, [Next]_vars, ~CutShort, ~LoseManifest,
           ~(Fail /\ job.stage = "index")
    PROVE  count'.cuts = count.cuts /\ count'.losses = count.losses
  <1>1. ASSUME NEW prune \in BOOLEAN, Start(prune)
        PROVE  count'.cuts = count.cuts /\ count'.losses = count.losses
    BY <1>1, StartDoes
  <1>2. CASE Ingest
    BY <1>2, ExamineDoes, ParseDoes, SaveTreeDoes, CopyRawDoes, WritePageDoes,
       RebuildIndexDoes, ReplaceGraphDoes, UpsertVectorsDoes, CommitDoes, SweepDoes
       DEF Ingest
  <1>3. CASE DeleteArtifacts
    BY <1>3, UnlinkDoes, ReindexDoes, DetachDoes, UnembedDoes, UntreeDoes, UnrawDoes,
       ForgetDoes DEF DeleteArtifacts
  <1>4. CASE AllFilesDone \/ Prune \/ Pruned
    BY <1>4, AllFilesDoneDoes, PruneDoes, PrunedDoes
  <1>5. CASE Fail
    BY <1>5, FailDoes
  <1>6. ASSUME NEW f \in Files, NEW c \in Contents \cup {Gone}, Edit(f, c)
        PROVE  count'.cuts = count.cuts /\ count'.losses = count.losses
    BY <1>6, EditDoes
  <1> QED
    BY <1>1, <1>2, <1>3, <1>4, <1>5, <1>6 DEF Next, vars

\* What is undisturbed has been so.
LEMMA NotDisturbed ==
    ASSUME TypeInv, LocalsInv, [Next]_vars, Undisturbed'
    PROVE  Undisturbed /\ ~CutShort /\ ~LoseManifest /\ ~(Fail /\ job.stage = "index")
  <1>1. count.cuts \in Nat /\ count.losses \in Nat
    BY DEF TypeInv, Counts
  <1>2. ~CutShort /\ ~LoseManifest
    BY CutShortDoes, LoseManifestDoes DEF Undisturbed
  <1>3. ~(Fail /\ job.stage = "index")
    BY <1>1, FailDoes DEF Undisturbed
  <1> QED
    BY <1>1, <1>2, <1>3, CountsKept DEF Undisturbed

\* The layers can be indexed while a run goes on undisturbed.
LEMMA TransactionIndexable ==
    ASSUME TypeInv, LocalsInv, BeforeInv, job.stage = "index",
           NEW R, NEW m \in Manifests, Agreed(R, m, job.before)
    PROVE  Indexable
  <1> SUFFICES ASSUME NEW s \in DOMAIN disk.pages PROVE disk.pages[s] # Torn
    BY DEF Indexable
  <1>1. disk.pages = Put(job.before.pages, job.slug, Artifact(job.file, job.text))
    BY DEF BeforeInv, Transaction, PastPage, PastIndex
  <1>2. CASE s = job.slug
    <2>1. job.file \in Files /\ job.text \in Contents
      BY TextualIsContent DEF LocalsInv, Transaction
    <2> QED
      BY <1>1, <1>2, <2>1, ArtifactType DEF Put
  <1>3. CASE s # job.slug
    <2>1. s \in DOMAIN job.before.pages /\ disk.pages[s] = job.before.pages[s]
      BY <1>1, <1>3 DEF Put
    <2>2. PICK g \in DOMAIN m : s = m[g].page
      BY <2>1 DEF Agreed, PagesOf
    <2>3. PICK t \in Textual : BackedIn(R, job.before, g, m[g], t)
      BY DEF Agreed, AllBacked
    <2> QED
      BY <2>1, <2>2, <2>3, EntryOf, ArtifactType, TextualIsContent DEF BackedIn
  <1> QED
    BY <1>2, <1>3

\* The invariant of a run that nothing disturbs.
LEMMA AgreeInit == Init => AgreeInv
  <1> SUFFICES ASSUME Init PROVE AgreeInv
    OBVIOUS
  <1>1. /\ manifest = Nothing /\ DOMAIN Nothing = {} /\ Nothing \in Manifests
        /\ job.stage = "idle" /\ disk = EmptyDisk
    BY NothingPartial, IdleIs DEF Init, Manifests
  <1>2. manifest # Lost
    BY <1>1, ManifestIsNotLost
  <1>3. /\ DOMAIN disk.trees = {} /\ DOMAIN disk.raw = {} /\ DOMAIN disk.pages = {}
        /\ disk.index = {} /\ DOMAIN disk.graph = {} /\ DOMAIN disk.vectors = {}
    BY <1>1 DEF EmptyDisk
  <1>4. PagesOf(manifest) = {} /\ StemsOf(manifest) = {}
    BY <1>1 DEF PagesOf, StemsOf
  <1>5. Agreed(again, manifest, disk)
    BY <1>1, <1>3, <1>4 DEF Agreed, AllBacked
  <1> QED
    BY <1>1, <1>2, <1>5 DEF AgreeInv, Transaction, Removal

\* Every step keeps the layers in agreement with the manifest.
LEMMA AgreeStep ==
    ASSUME TypeInv, LocalsInv, ClaimsInv, MemInv, BeforeInv, AgreeInv,
           StemsApart, [Next]_vars
    PROVE  AgreeInv'
  <1> SUFFICES ASSUME Undisturbed' PROVE AgreeInv'
    BY DEF AgreeInv
  <1> USE DEF Transaction, Removal
  <1>a. Undisturbed /\ ~CutShort /\ ~LoseManifest /\ ~(Fail /\ job.stage = "index")
    BY NotDisturbed
  <1>b. /\ manifest # Lost
        /\ job.stage = "idle" => Agreed(again, manifest, disk)
        /\ job.stage \in {"pick", "parse", "prune"} => Agreed(again, mem, disk)
        /\ job.stage = "parse" /\ job.sha \notin again => job.sha \notin DOMAIN disk.vectors
        /\ job.stage \in {"sweep"} \cup Transaction =>
              /\ Agreed(again, Previous, job.before)
              /\ job.sha \notin again => job.sha \notin DOMAIN job.before.vectors
        /\ job.stage \in Removal => RemovalInv
        /\ job.stage = "forget" => Agreed(again, Rest, disk)
    BY <1>a DEF AgreeInv
  \* Between files.
  <1>c. ASSUME job'.stage \in {"pick", "prune"}, manifest' # Lost, Agreed(again', mem', disk')
        PROVE  AgreeInv'
    BY <1>c DEF AgreeInv
  <1>d. ASSUME job'.stage = "idle", manifest' # Lost, Agreed(again', manifest', disk')
        PROVE  AgreeInv'
    BY <1>d DEF AgreeInv
  <1>e. ASSUME EndRun, manifest' # Lost, Agreed(again', manifest', disk') PROVE AgreeInv'
    BY <1>d, <1>e, Ending, IdleIs
  \* Within a transaction.
  <1>f. ASSUME job.stage \in Transaction, job'.stage \in Transaction,
               manifest' = manifest, mem' = mem, again' = again, job'.file = job.file,
               job'.existing = job.existing, job'.before = job.before, job'.sha = job.sha
        PROVE  AgreeInv'
    <2>1. Previous' = Previous
      BY <1>f DEF Previous
    <2> QED
      BY <1>b, <1>f, <2>1 DEF AgreeInv
  <1>g. job.stage \in Transaction =>
           /\ Agreed(again, mem, job.before)
           /\ job.sha \notin again => job.sha \notin DOMAIN job.before.vectors
           /\ mem = manifest /\ mem \in Manifests
    BY <1>b, PreviousIs DEF MemInv, TypeInv
  <1>h. ASSUME Rollback, job.stage \in Transaction, job.stage # "index" PROVE AgreeInv'
    <2>1. disk' = Restored /\ Agreed(again, mem, Restored)
      BY <1>g, <1>h, RollbackDoes, RestoredIsBefore
    <2> QED
      BY <1>b, <1>e, <1>g, <1>h, <2>1, RollbackDoes
  <1>1. ASSUME NEW prune \in BOOLEAN, Start(prune) PROVE AgreeInv'
    <2>1. mem' = manifest /\ manifest' = manifest
      BY <1>b, <1>1, StartDoes DEF Resumed
    <2> QED
      BY <1>b, <1>c, <1>1, <2>1, StartDoes
  <1>2. CASE Examine
    <2>1. /\ job.stage = "pick" /\ Agreed(again, mem, disk) /\ mem = manifest
          /\ disk' = disk /\ manifest' = manifest /\ source' = source /\ again' = again
      BY <1>b, <1>2, ExamineDoes DEF MemInv
    <2>2. CASE job'.stage = "parse"
      <3>1. PICK f \in job.todo :
               /\ source[f] # Gone /\ ~(f \in DOMAIN mem /\ CanSkip(mem[f], source[f]))
               /\ job'.sha = source[f] /\ mem' = mem
        BY <1>2, <2>2, ExamineDoes, Ending, IdleIs
      <3>2. f \in Files /\ source[f] \in Contents
        BY <3>1, JobHas DEF TypeInv
      <3>3. job'.sha \notin again => job'.sha \notin DOMAIN disk.vectors
        BY <2>1, <3>1, <3>2, NewContent
      <3> QED
        BY <1>b, <2>1, <2>2, <3>1, <3>3 DEF AgreeInv
    <2>3. CASE EndRun
      BY <1>b, <1>e, <2>1, <2>3
    <2>4. CASE job'.stage = "pick" /\ UNCHANGED mem
      BY <1>b, <1>c, <2>1, <2>4
    <2> QED
      BY <1>2, <2>2, <2>3, <2>4, ExamineDoes
  <1>3. CASE Parse
    <2>1. /\ job.stage = "parse" /\ Agreed(again, mem, disk) /\ mem = manifest
          /\ disk' = disk /\ manifest' = manifest /\ again' = again
          /\ job.sha \notin again => job.sha \notin DOMAIN disk.vectors
          /\ job.existing = IF job.file \in DOMAIN mem THEN mem[job.file] ELSE None
      BY <1>b, <1>3, ParseDoes DEF MemInv
    <2>2. CASE EndRun
      BY <1>b, <1>e, <2>1, <2>2
    <2>3. CASE Moved /\ UNCHANGED mem
      BY <1>b, <1>c, <2>1, <2>3 DEF Moved
    <2>4. CASE job.existing # None /\ job'.stage = "unlink" /\ LocalsKept /\ UNCHANGED mem
      <3>1. job.file \in DOMAIN mem /\ job.existing = mem[job.file]
        BY <2>1, <2>4
      <3>2. RemovalInv'
        BY <2>1, <2>4, <3>1, RemovalStarts DEF LocalsKept
      <3> QED
        BY <1>b, <2>1, <2>4, <3>2 DEF AgreeInv
    <2>5. CASE /\ job'.stage = "tree" /\ job'.file = job.file /\ job'.sha = job.sha
               /\ job'.existing = job.existing /\ job'.before = disk /\ UNCHANGED mem
      <3>1. mem \in Manifests
        BY DEF TypeInv
      <3>2. (IF job.existing = None THEN Drop(mem, {job.file})
             ELSE Put(mem, job.file, job.existing)) = mem
        BY <2>1, <3>1, EntryPutBack
      <3>3. Previous' = mem'
        BY <2>5, <3>2 DEF Previous
      <3> QED
        BY <1>b, <2>1, <2>5, <3>3 DEF AgreeInv
    <2> QED
      BY <1>3, <2>2, <2>3, <2>4, <2>5, ParseDoes
  <1>4. CASE SaveTree
    BY <1>f, <1>4, SaveTreeDoes DEF LocalsKept
  <1>5. CASE CopyRaw
    BY <1>f, <1>h, <1>5, CopyRawDoes DEF LocalsKept
  <1>6. CASE WritePage
    BY <1>f, <1>6, WritePageDoes
  <1>7. CASE RebuildIndex
    <2>1. Indexable
      BY <1>g, <1>7, RebuildIndexDoes, TransactionIndexable
    <2> QED
      BY <1>f, <1>7, <2>1, RebuildIndexDoes DEF LocalsKept
  <1>8. CASE ReplaceGraph \/ UpsertVectors
    BY <1>f, <1>8, ReplaceGraphDoes, UpsertVectorsDoes DEF LocalsKept
  <1>9. CASE Commit
    <2>1. /\ job.stage = "commit" /\ job'.stage = "sweep" /\ LocalsKept
          /\ mem' = Put(mem, job.file, Entry(job.sha, job.slug)) /\ manifest' = mem'
          /\ mem' \in Manifests /\ again' = again
          /\ job.existing = IF job.file \in DOMAIN mem THEN mem[job.file] ELSE None
      BY <1>9, CommitDoes DEF MemInv
    <2>2. Previous' = mem
      <3>1. mem \in Partial(Files, Entries)
        BY DEF TypeInv, Manifests
      <3>2. CASE job.file \in DOMAIN mem
        <4>1. job.existing = mem[job.file] /\ job.existing # None
          BY <2>1, <3>2, EntryOf, EntryHas DEF TypeInv
        <4>2. Previous' = Put(mem', job.file, mem[job.file])
          BY <2>1, <4>1 DEF Previous, LocalsKept
        <4> QED
          BY <2>1, <3>1, <3>2, <4>2, PutBack
      <3>3. CASE job.file \notin DOMAIN mem
        <4>1. Previous' = Drop(mem', {job.file})
          BY <2>1, <3>3 DEF Previous, LocalsKept
        <4> QED
          BY <2>1, <3>1, <3>3, <4>1, PutBack
      <3> QED
        BY <3>2, <3>3
    <2>3. manifest' # Lost
      BY <2>1, ManifestIsNotLost
    <2> QED
      BY <1>g, <2>1, <2>2, <2>3 DEF AgreeInv, LocalsKept
  <1>10. CASE Sweep
    <2>1. Agreed(again, mem, disk') /\ again' = again
      BY <1>b, <1>10, SweepDoes, SweepAgrees
    <2> QED
      BY <1>b, <1>c, <1>10, <2>1, SweepDoes DEF Moved
  <1>11. CASE Unlink \/ Detach \/ Unembed \/ Untree
    <2>1. /\ job.stage \in Removal /\ job'.stage \in Removal /\ LocalsKept
          /\ mem' = mem /\ manifest' = manifest /\ again' = again
      BY <1>11, UnlinkDoes, DetachDoes, UnembedDoes, UntreeDoes
    <2>2. RemovalInv'
      BY <1>b, <1>11, <2>1, RemovalGoesOn
    <2> QED
      BY <1>b, <2>1, <2>2 DEF AgreeInv
  <1>12. CASE Reindex
    <2>1. job.stage = "reindex" /\ RemovalInv
      BY <1>b, <1>12, ReindexDoes
    <2>2. Indexable
      BY <2>1, RestIndexable
    <2>3. job'.stage = "detach" /\ LocalsKept /\ mem' = mem /\ manifest' = manifest
          /\ again' = again
      BY <1>12, <2>2, ReindexDoes
    <2>4. RemovalInv'
      BY <1>12, <2>1, <2>2, <2>3, RemovalGoesOn
    <2> QED
      BY <1>b, <2>3, <2>4 DEF AgreeInv
  <1>13. CASE Unraw
    <2>1. /\ job.stage = "unraw" /\ LocalsKept /\ mem' = mem /\ manifest' = manifest
          /\ again' = again
          /\ job'.stage = IF job.todo = {} THEN "prune" ELSE "forget"
      BY <1>13, UnrawDoes
    <2>2. Agreed(again, Rest, disk')
      BY <1>b, <1>13, <2>1, RemovalEnds
    <2>3. CASE job.todo = {}
      <3>1. job.file \notin DOMAIN mem /\ mem \in Partial(Files, Entries)
        BY <2>1, <2>3 DEF MemInv, TypeInv, Manifests
      <3>2. Rest = mem
        BY <3>1, DropAbsent DEF Rest
      <3> QED
        BY <1>b, <1>c, <2>1, <2>2, <2>3, <3>2
    <2>4. CASE job.todo # {}
      <3>1. Rest' = Rest
        BY <2>1 DEF Rest, LocalsKept
      <3> QED
        BY <1>b, <2>1, <2>2, <2>4, <3>1 DEF AgreeInv
    <2> QED
      BY <2>3, <2>4
  <1>14. CASE Forget
    <2>1. /\ job.stage = "forget" /\ job'.stage = "pick" /\ mem' = Rest /\ manifest' = mem'
          /\ disk' = disk /\ mem' \in Manifests /\ again' = again
      BY <1>14, ForgetDoes DEF Moved, Rest
    <2> QED
      BY <1>b, <1>c, <2>1, ManifestIsNotLost
  <1>15. CASE AllFilesDone
    <2>1. job.stage = "pick" /\ mem = manifest /\ disk' = disk /\ manifest' = manifest
          /\ again' = again
      BY <1>15, AllFilesDoneDoes DEF MemInv
    <2> QED
      BY <1>b, <1>c, <1>e, <1>15, <2>1, AllFilesDoneDoes
  <1>16. CASE Prune
    <2>1. PICK f \in DOMAIN mem :
             /\ mem' = Drop(mem, {f}) /\ job'.stage = "unlink"
             /\ job'.file = f /\ job'.existing = mem[f]
      BY <1>16, PruneDoes
    <2>2. job.stage = "prune" /\ disk' = disk /\ manifest' = manifest /\ again' = again
      BY <1>16, PruneDoes
    <2>3. RemovalInv'
      BY <1>b, <2>1, <2>2, RemovalStarts
    <2> QED
      BY <1>b, <2>1, <2>2, <2>3 DEF AgreeInv
  <1>17. CASE Pruned
    <2>1. job.stage = "prune" /\ manifest' = mem /\ EndRun /\ disk' = disk /\ mem \in Manifests
          /\ again' = again
      BY <1>17, PrunedDoes DEF TypeInv
    <2> QED
      BY <1>b, <1>e, <2>1, ManifestIsNotLost
  <1>18. CASE Fail
    <2>1. job.stage \in Transaction /\ job.stage # "index" /\ Rollback
      BY <1>a, <1>18, FailDoes
    <2> QED
      BY <1>h, <2>1
  <1>19. ASSUME UNCHANGED <<disk, manifest, mem, job>>, again \subseteq again'
         PROVE  AgreeInv'
    <2>1. Previous' = Previous /\ Rest' = Rest
      BY <1>19 DEF Previous, Rest
    <2>2. \A m, d : /\ AllBacked(again, m, d) => AllBacked(again', m, d)
                    /\ Agreed(again, m, d) => Agreed(again', m, d)
      BY <1>19, AgreedGrows
    <2>3. /\ Agreed(again', manifest', disk') <=> Agreed(again', manifest, disk)
          /\ Agreed(again', mem', disk') <=> Agreed(again', mem, disk)
          /\ Agreed(again', Previous', job'.before) <=> Agreed(again', Previous, job.before)
          /\ Agreed(again', Rest', disk') <=> Agreed(again', Rest, disk)
      BY <1>19, <2>1
    <2>4. ASSUME RemovalInv PROVE RemovalInv'
      <3>1. AllBacked(again', Rest', disk')
        BY <1>19, <2>1, <2>2, <2>4 DEF RemovalInv
      <3>2. \A sha : OwnedBy(Rest', disk', sha) <=> OwnedBy(Rest, disk, sha)
        BY <1>19, <2>1
      <3> QED
        BY <1>19, <2>1, <2>4, <3>1, <3>2 DEF RemovalInv, Until, Derived
    <2> QED
      BY <1>b, <1>19, <2>2, <2>3, <2>4 DEF AgreeInv
  <1>20. ASSUME NEW f \in Files, NEW c \in Contents \cup {Gone}, Edit(f, c)
         PROVE  AgreeInv'
    BY <1>19, <1>20, EditDoes
  <1>21. CASE UNCHANGED vars
    BY <1>19, <1>21 DEF vars
  <1> QED
    BY <1>a, <1>1, <1>2, <1>3, <1>4, <1>5, <1>6, <1>7, <1>8, <1>9, <1>10, <1>11, <1>12,
       <1>13, <1>14, <1>15, <1>16, <1>17, <1>18, <1>20, <1>21 DEF Next, Ingest, DeleteArtifacts

-----------------------------------------------------------------------------
(* Sources that share a title *)

\* The pages of the entries on disk are apart, also while sources are removed,
\* and that of the removed source is one of them.
PagesInv ==
    Undisturbed /\ job.stage \in {"prune", "forget"} \cup Removal =>
        /\ \A f, g \in DOMAIN manifest : manifest[f].page = manifest[g].page => f = g
        /\ job.stage # "prune" =>
              job.file \in DOMAIN manifest /\ manifest[job.file] = job.existing

\* Initially there are no pages.
LEMMA PagesInit == Init => PagesInv
  BY IdleIs DEF Init, PagesInv, Removal

\* Every step keeps the pages of the entries apart.
LEMMA PagesStep ==
    ASSUME TypeInv, LocalsInv, MemInv, AgreeInv, PagesInv, [Next]_vars
    PROVE  PagesInv'
  <1> USE DEF Removal
  <1> SUFFICES ASSUME Undisturbed', job'.stage \in {"prune", "forget"} \cup Removal
               PROVE  PagesInv'
    BY DEF PagesInv
  <1>1. Undisturbed /\ ~CutShort /\ ~LoseManifest
    BY NotDisturbed
  <1>2. ASSUME job.stage \in {"prune", "forget"} \cup Removal, manifest' = manifest,
               job'.stage # "prune" =>
                  job.stage # "prune" /\ job'.file = job.file /\ job'.existing = job.existing
        PROVE  PagesInv'
    BY <1>1, <1>2 DEF PagesInv
  <1>3. ASSUME job.stage \in {"pick", "parse"}, manifest' = manifest,
               job'.stage # "prune" =>
                  job'.file \in DOMAIN manifest /\ manifest[job'.file] = job'.existing
        PROVE  PagesInv'
    <2>1. manifest = mem /\ mem \in Manifests /\ AllBacked(again, mem, disk)
      BY <1>1, <1>3 DEF MemInv, TypeInv, AgreeInv, Agreed
    <2>2. \A f, g \in DOMAIN manifest : manifest[f].page = manifest[g].page => f = g
      BY <2>1, AgreedApart
    <2> QED
      BY <1>3, <2>2 DEF PagesInv
  <1>4. ASSUME EndRun PROVE FALSE
    BY <1>4, Ending, IdleIs
  <1>5. ASSUME Rollback PROVE FALSE
    BY <1>4, <1>5 DEF Rollback
  <1>6. ASSUME NEW prune \in BOOLEAN, Start(prune) PROVE FALSE
    BY <1>6, StartDoes
  <1>7. CASE Examine
    BY <1>4, <1>7, ExamineDoes
  <1>8. CASE Parse
    <2>1. /\ job.stage = "parse" /\ manifest' = manifest /\ mem = manifest
          /\ job.existing = IF job.file \in DOMAIN mem THEN mem[job.file] ELSE None
      BY <1>8, ParseDoes DEF MemInv
    <2>2. job.existing # None /\ job'.stage = "unlink" /\ LocalsKept
      BY <1>4, <1>8, ParseDoes DEF Moved
    <2> QED
      BY <1>3, <2>1, <2>2 DEF LocalsKept
  <1>9. CASE AllFilesDone
    BY <1>3, <1>4, <1>9, AllFilesDoneDoes
  <1>10. CASE SaveTree \/ CopyRaw \/ WritePage \/ RebuildIndex \/ ReplaceGraph
             \/ UpsertVectors \/ Commit \/ Sweep \/ Forget
    BY <1>5, <1>10, SaveTreeDoes, CopyRawDoes, WritePageDoes, RebuildIndexDoes,
       ReplaceGraphDoes, UpsertVectorsDoes, CommitDoes, SweepDoes, ForgetDoes DEF Moved
  <1>11. CASE Unlink \/ Reindex \/ Detach \/ Unembed \/ Untree \/ Unraw
    BY <1>2, <1>4, <1>11, UnlinkDoes, ReindexDoes, DetachDoes, UnembedDoes, UntreeDoes,
       UnrawDoes DEF LocalsKept
  <1>12. CASE Prune
    <2>1. PICK f \in DOMAIN mem : job'.file = f /\ job'.existing = mem[f]
      BY <1>12, PruneDoes
    <2>2. job.stage = "prune" /\ manifest' = manifest
      BY <1>12, PruneDoes
    <2>3. f \in DOMAIN manifest /\ manifest[f] = mem[f]
      BY <2>1, <2>2 DEF MemInv
    <2> QED
      BY <1>1, <2>1, <2>2, <2>3 DEF PagesInv
  <1>13. CASE Pruned \/ Fail
    BY <1>4, <1>5, <1>13, PrunedDoes, FailDoes
  <1>14. ASSUME UNCHANGED <<manifest, job>> PROVE PagesInv'
    BY <1>1, <1>14 DEF PagesInv
  <1>15. ASSUME NEW f \in Files, NEW c \in Contents \cup {Gone}, Edit(f, c)
         PROVE  PagesInv'
    BY <1>14, <1>15, EditDoes
  <1> QED
    BY <1>1, <1>6, <1>7, <1>8, <1>9, <1>10, <1>11, <1>12, <1>13, <1>14, <1>15
       DEF Next, Ingest, DeleteArtifacts, vars

\* Where the layers agree no page is that of two sources, whatever their titles.
LEMMA AgreedPagesApart ==
    ASSUME TypeInv, LocalsInv, MemInv, BeforeInv, AgreeInv, PagesInv, Undisturbed
    PROVE  Apart
  <1> SUFFICES ASSUME manifest # Lost, NEW g \in DOMAIN manifest \ {job.file},
                      manifest[g].page \in DOMAIN disk.pages
               PROVE  /\ job.stage = "page" => PageSlug # manifest[g].page
                      /\ job.stage \in PastPage => job.slug # manifest[g].page
                      /\ job.stage \in {"forget"} \cup Removal =>
                            job.existing.page # manifest[g].page
    BY DEF Apart
  <1> USE DEF Transaction, Removal, PastPage, PastIndex, PastGraph, PastVector
  <1>1. ASSUME job.stage \in {"sweep"} \cup Transaction
        PROVE  /\ HasEntry(job.existing) => job.existing.page # manifest[g].page
               /\ manifest[g].page \in DOMAIN job.before.pages
    <2>1. PICK m : m = Previous
      OBVIOUS
    <2>2. mem = manifest /\ AllBacked(again, m, job.before) /\ g \in DOMAIN mem
      BY <1>1, <2>1 DEF MemInv, AgreeInv, Agreed
    <2>3. m \in Manifests /\ g \in DOMAIN m /\ m[g] = manifest[g]
      <3>1. mem \in Manifests /\ job.existing \in Entries \cup {None} /\ job.file \in Files
        BY <1>1, JobHas DEF TypeInv, LocalsInv
      <3>2. m \in Manifests
        BY <2>1, <3>1, PutPartial, DropPartial DEF Previous, Manifests
      <3> QED
        BY <2>1, <2>2, <3>2 DEF Previous, Put, Drop
    <2>4. ASSUME HasEntry(job.existing) PROVE job.existing.page # manifest[g].page
      <3>1. job.file \in DOMAIN m /\ m[job.file] = job.existing
        BY <2>1, <2>4 DEF Previous, Put, HasEntry
      <3> QED
        BY <2>2, <2>3, <3>1, AgreedApart
    <2>5. manifest[g].page \in DOMAIN job.before.pages
      BY <2>2, <2>3 DEF AllBacked, BackedIn
    <2> QED
      BY <2>4, <2>5
  <1>2. ASSUME job.stage = "page" PROVE PageSlug # manifest[g].page
    <2>1. job.file \in Files
      BY <1>2 DEF LocalsInv
    <2> QED
      BY <1>1, <1>2, <2>1, PageSlugIs
  <1>3. ASSUME job.stage \in PastPage PROVE job.slug # manifest[g].page
    BY <1>1, <1>3 DEF BeforeInv
  <1>4. ASSUME job.stage \in {"forget"} \cup Removal
        PROVE  job.existing.page # manifest[g].page
    BY <1>4 DEF PagesInv
  <1> QED
    BY <1>2, <1>3, <1>4

-----------------------------------------------------------------------------
(* The theorems *)

\* Initially no transaction is under way.
LEMMA BeforeInit == Init => BeforeInv
  BY IdleIs DEF Init, BeforeInv, Transaction

\* The state keeps its types, and the locals of a run are set when it needs them:
\* whatever is edited, cut short or lost.
THEOREM TypesAreKept == Spec => [](TypeInv /\ LocalsInv)
  <1>1. Init => TypeInv /\ LocalsInv
    BY TypeInit
  <1>2. TypeInv /\ LocalsInv /\ [Next]_vars => (TypeInv /\ LocalsInv)'
    BY TypeStep, LocalsStep
  <1> QED
    BY <1>1, <1>2, PTL DEF Spec

\* What a run knows and what its steps have done, whatever is cut short or lost.
RunInv ==
    /\ TypeInv /\ LocalsInv /\ ClaimsInv /\ MemInv
    /\ DoneInv /\ BeforeInv /\ TextInv /\ NotYetInv

\* It holds initially,
LEMMA RunInit == Init => RunInv
  BY TypeInit, ClaimsInit, MemInit, DoneInit, BeforeInit DEF RunInv

\* and every step keeps it.
LEMMA RunStep ==
    ASSUME RunInv, [Next]_vars
    PROVE  RunInv'
  <1>1. TypeInv' /\ LocalsInv' /\ ClaimsInv' /\ MemInv'
    BY TypeStep, LocalsStep, ClaimsStep, MemStep DEF RunInv
  <1>2. DoneInv' /\ BeforeInv' /\ TextInv' /\ NotYetInv'
    BY DoneStep, BeforeStep, TextStep, NotYetStep DEF RunInv
  <1> QED
    BY <1>1, <1>2 DEF RunInv

\* What the next run would skip as unchanged is what the layers hold, whatever
\* runs were cut short, manifests lost, steps raised and pages torn: of sources
\* whose slugs and titles differ.  Contents may return and be shared: SkipIsSafe
\* speaks of a content until it comes again, and of all others after that.
THEOREM SkippedIsSafe ==
    ASSUME StemsApart, TitlesApart
    PROVE  Spec => []SkipIsSafe
  <1> DEFINE Inv == RunInv /\ TitleInv /\ SafeInv
  <1>1. Init => Inv
    BY RunInit, TitleInit, SafeInit
  <1>2. Inv /\ [Next]_vars => Inv'
    <2> SUFFICES ASSUME Inv, [Next]_vars PROVE Inv'
      OBVIOUS
    <2>1. RunInv' /\ TitleInv'
      BY RunStep, TitleStep DEF RunInv
    <2>2. SafeInv'
      BY TitledApart, SafeStep DEF RunInv
    <2> QED
      BY <2>1, <2>2
  <1>3. Inv => SkipIsSafe
    BY DEF SkipIsSafe, SafeInv, Held
  <1> QED
    BY <1>1, <1>2, <1>3, PTL DEF Spec

\* The same holds of sources that share their title, as long as no run was cut short,
\* no manifest lost, and no rebuild of the index raised.
THEOREM SkippedIsSafeUndisturbed ==
    ASSUME StemsApart
    PROVE  Spec => [](Undisturbed => SkipIsSafe)
  <1> DEFINE Inv == RunInv /\ AgreeInv /\ PagesInv /\ (Undisturbed => SafeInv)
  <1>1. Init => Inv
    BY RunInit, AgreeInit, PagesInit, SafeInit
  <1>2. Inv /\ [Next]_vars => Inv'
    <2> SUFFICES ASSUME Inv, [Next]_vars PROVE Inv'
      OBVIOUS
    <2>1. RunInv' /\ AgreeInv' /\ PagesInv'
      BY RunStep, AgreeStep, PagesStep DEF RunInv
    <2>2. ASSUME Undisturbed' PROVE SafeInv'
      <3>1. Undisturbed
        BY <2>2, NotDisturbed DEF RunInv
      <3> QED
        BY <3>1, AgreedPagesApart, SafeStep DEF RunInv
    <2> QED
      BY <2>1, <2>2
  <1>3. Inv => (Undisturbed => SkipIsSafe)
    BY DEF SkipIsSafe, SafeInv, Held
  <1> QED
    BY <1>1, <1>2, <1>3, PTL DEF Spec

\* Where the layers agree with a manifest there is nothing missing and nothing
\* left over, but for vectors of what came again.
LEMMA AgreedMeans ==
    ASSUME NEW m, Agreed(again, m, disk)
    PROVE  /\ \A f \in DOMAIN m : \E text \in Textual :
                 IF m[f].sha \in again THEN BackedButVectors(f, m[f], text)
                 ELSE Backed(f, m[f], text)
           /\ NoOrphans(m)
  <1>1. ASSUME NEW f \in DOMAIN m
        PROVE  \E text \in Textual : IF m[f].sha \in again THEN BackedButVectors(f, m[f], text)
                                     ELSE Backed(f, m[f], text)
    <2>1. PICK text \in Textual : BackedIn(again, disk, f, m[f], text)
      BY DEF Agreed, AllBacked
    <2> QED
      BY <2>1 DEF BackedIn, Backed, BackedButVectors
  <1>2. NoOrphans(m)
    BY DEF Agreed, NoOrphans, PagesOf, StemsOf, OwnedBy
  <1> QED
    BY <1>1, <1>2

\* As long as no run is cut short and no manifest lost, the layers and the manifest
\* match exactly between two files and between two runs: whatever steps raise and
\* are undone (a rebuild of the index that raises counts as cut short), whatever
\* titles the sources share, and whatever is edited while a run reads it.  Of a
\* content that came again the vectors may be gone, or be of who shares it.
THEOREM LayersAlwaysAgree ==
    ASSUME StemsApart
    PROVE  Spec => []LayersAgree
  <1> DEFINE Inv == RunInv /\ AgreeInv
  <1>1. Init => Inv
    BY RunInit, AgreeInit
  <1>2. Inv /\ [Next]_vars => Inv'
    BY RunStep, AgreeStep DEF RunInv
  <1>3. Inv => LayersAgree
    <2> SUFFICES ASSUME Inv, Undisturbed, job.stage \in {"idle", "pick"},
                        NEW m, m = IF job.stage = "pick" THEN mem ELSE manifest
                 PROVE  /\ \A f \in DOMAIN m : \E text \in Textual :
                              IF m[f].sha \in again THEN BackedButVectors(f, m[f], text)
                              ELSE Backed(f, m[f], text)
                        /\ NoOrphans(m)
      BY DEF LayersAgree
    <2>1. Agreed(again, m, disk)
      BY DEF AgreeInv
    <2> QED
      BY <2>1, AgreedMeans
  <1> QED
    BY <1>1, <1>2, <1>3, PTL DEF Spec

\* A run that ends early, and is not cut short, undoes the transaction it was in: as
\* long as none was cut short before and no manifest lost.  Where the content in work
\* has come again, its vectors may be those of another entry and are not put back.
THEOREM RunsWriteAllOrNothing ==
    ASSUME StemsApart
    PROVE  Spec => AllOrNothing
  <1> DEFINE Inv == RunInv /\ AgreeInv
             Early == (Fail \/ (CopyRaw /\ job'.stage = "idle")) /\ Undisturbed'
                      /\ job.sha \notin again
  <1>1. Init => Inv
    BY RunInit, AgreeInit
  <1>2. Inv /\ [Next]_vars => Inv'
    BY RunStep, AgreeStep DEF RunInv
  <1>3. Inv /\ [Next]_vars => [Early => disk' = job.before]_vars
    <2> SUFFICES ASSUME Inv, [Next]_vars, Early PROVE disk' = job.before
      OBVIOUS
    <2>1. Undisturbed /\ ~(Fail /\ job.stage = "index")
      BY NotDisturbed DEF RunInv
    <2>2. Rollback /\ job.stage \in Transaction /\ job.stage # "index"
      BY <2>1, FailDoes, CopyRawDoes DEF RunInv, Transaction
    <2>3. Agreed(again, mem, job.before) /\ job.sha \notin DOMAIN job.before.vectors
      BY <2>1, <2>2, PreviousIs DEF RunInv, AgreeInv
    <2> QED
      BY <2>2, <2>3, RollbackDoes, RestoredIsBefore DEF RunInv
  <1> QED
    BY <1>1, <1>2, <1>3, PTL DEF Spec, AllOrNothing

=============================================================================
