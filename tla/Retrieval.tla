-------------------------------- MODULE Retrieval --------------------------------
(***************************************************************************)
(* How a question is routed, how the candidates for an answer are ranked   *)
(* across the layers they come from, how far the best is trusted, and      *)
(* whether the answer is written back (hks.routing.router, hks.rerank,     *)
(* hks.retrieval, hks.writeback.gate).                                     *)
(*                                                                         *)
(* Scores are in hundredths.  A candidate is                               *)
(*   [route, score, similarity, overlap, edges, quoted, memory, evidence]  *)
(* similarity and overlap those of a vector, edges the relations of a graph *)
(* candidate and quoted the sources whose evidence was found for them; an  *)
(* item of evidence is [of, text, route, section, ranged].                 *)
(***************************************************************************)
EXTENDS Ordering

LOCAL INSTANCE SequencesExt

CONSTANTS
    Unset,          \* None of the code
    RerankCap       \* the candidates a model is asked about

ASSUME RetrievalAssumption == RerankCap \in Nat

Lesser(a, b) == IF a <= b THEN a ELSE b

-----------------------------------------------------------------------------
(* Routing *)

Routable == {"wiki", "graph", "vector"}

\* load_rules: the rules that are not refused, in order of priority.
RulesValid(rules) ==
    /\ rules.default_route \in Routable
    /\ \A i \in DOMAIN rules.rules :
          /\ rules.rules[i].target_route \in Routable
          /\ rules.rules[i].secondary \in Routable \cup {Unset}
          /\ rules.rules[i].keywords # {}
          /\ i > 1 => rules.rules[i - 1].priority < rules.rules[i].priority

\* route: the first rule with a keyword in the question, else the one that is
\* closest to it in meaning, if any is close at all.
Route(q, rules) ==
    LET hit(i)   == rules.rules[i].keywords \cap q.words # {}
        close(i) == q.close[rules.rules[i].id]
        lexical  == SelectInSeq(rules.rules, LAMBDA r : r.keywords \cap q.words # {})
        closest  == {i \in DOMAIN rules.rules :
                        /\ close(i) > 0
                        /\ \A j \in DOMAIN rules.rules :
                              close(j) < close(i) \/ (close(j) = close(i) /\ i <= j)}
    IN  IF lexical # 0 THEN rules.rules[lexical].target_route
        ELSE IF closest = {} THEN rules.default_route
        ELSE rules.rules[CHOOSE i \in closest : TRUE].target_route

-----------------------------------------------------------------------------
(* Ranking *)

\* The place of a candidate among those of its route, the best being 0.
RankInRoute(cands, i) ==
    Cardinality({j \in DOMAIN cands :
        /\ cands[j].route = cands[i].route
        /\ cands[j].score > cands[i].score \/ (cands[j].score = cands[i].score /\ j < i)})

\* Variant: candidates with the same rank stay in the order they were found in.
Precedes_ByRank(cands, rank, i, j) == rank[i] < rank[j] \/ (rank[i] = rank[j] /\ i < j)

\* The first candidate that was found on the same route.
FirstOf(cands, i) == Least({j \in DOMAIN cands : cands[j].route = cands[i].route})

\* The key of rrf_rerank: 1 / (60 + rank + 1), then the score; the sort is stable,
\* and what it sorts lists the routes in the order they were found in.
Precedes(cands, rank, i, j) ==
    \/ rank[i] < rank[j]
    \/ rank[i] = rank[j] /\ cands[i].score > cands[j].score
    \/ /\ rank[i] = rank[j] /\ cands[i].score = cands[j].score
       /\ FirstOf(cands, i) < FirstOf(cands, j)

\* rrf_rerank
RrfRerank(cands) ==
    LET rank  == [i \in DOMAIN cands |-> RankInRoute(cands, i)]
        order == Listed([i \in DOMAIN cands |->
                            Cardinality({j \in DOMAIN cands : Precedes(cands, rank, j, i)})])
    IN  [k \in DOMAIN order |-> cands[order[k]]]

\* llm_rerank: of what a model answers, each place that exists counts once; the
\* candidates it does not name, or was not asked about, follow in their order.
LlmRerank(cands, ranking) ==
    LET named(i) == {k \in DOMAIN ranking : ranking[k] = i}
        asked(i) == i <= RerankCap /\ named(i) # {}
        order    == InOrder([i \in DOMAIN cands |-> IF asked(i) THEN Least(named(i))
                                                   ELSE Len(ranking) + i])
    IN  [k \in DOMAIN order |-> cands[order[k]]]

\* rerank_candidates: without a model, or an answer of it, by rank.
Rerank(cands, ranking) ==
    IF ranking = Unset THEN RrfRerank(cands) ELSE LlmRerank(cands, ranking)

\* _passes_final_score_gate
PassesGate(c, requested) ==
    c.route = "vector" => c.score >= IF requested = "vector" THEN 20
                                     ELSE IF c.overlap > 0 THEN 40 ELSE 25

-----------------------------------------------------------------------------
(* Trust *)

\* assess: what of a candidate may be written back without being asked for.  A
\* score that is too low makes it ineligible, so no other test follows.
Eligible(c) ==
    CASE c.route = "wiki"      -> FALSE
      [] c.route = "graph"     -> c.score >= 75 /\ c.edges # {} /\ c.quoted # {}
                                  /\ c.evidence # {}
      [] c.route = "vector"    -> c.similarity >= 65 /\ c.evidence # {}
      [] c.route = "page_tree" -> c.score >= 50 /\ \E e \in c.evidence : e.ranged

\* _maybe_writeback, decide: what becomes of an answer, and whether it is
\* written back.  confirmed is what a user answers at a terminal.
Decided(source, eligible, flag, tty, confirmed) ==
    CASE source = Unset  -> "skip-no-source"
      [] source # Unset /\ flag = "yes"  -> "forced-committed"
      [] source # Unset /\ flag = "no"   -> "declined"
      [] source # Unset /\ flag = "auto" ->
            IF eligible THEN "auto-committed" ELSE "auto-skipped-ineligible"
      [] source # Unset /\ flag = "ask"  ->
            IF ~tty THEN "skip-non-tty" ELSE IF confirmed THEN "committed" ELSE "declined"

-----------------------------------------------------------------------------
(* Properties *)

\* The candidate an answer is made of has, without a model, the best score of
\* all, whichever route it was found on: ranks are compared within a route, and
\* no route's best may hide a better one of another.  A model's order loses none
\* and repeats none.
WinnerIsBest(cands, ranking) ==
    LET ranked == Rerank(cands, ranking) IN
    /\ Len(ranked) = Len(cands)
    /\ \A c \in {cands[i] : i \in DOMAIN cands} :
          Cardinality({i \in DOMAIN cands : cands[i] = c})
          = Cardinality({i \in DOMAIN ranked : ranked[i] = c})
    /\ ranking = Unset => \A i \in DOMAIN cands : cands[i].score <= ranked[1].score

==================================================================================
