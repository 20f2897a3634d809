-------------------------------- MODULE Ordering --------------------------------
(***************************************************************************)
(* Sets in an order: sorted() and the slices and filters of it that the    *)
(* code takes.  A key is a function from the elements of a set to numbers. *)
(***************************************************************************)
EXTENDS Integers, Sequences, FiniteSets

Least(S)    == CHOOSE x \in S : \A y \in S : x <= y
Greatest(S) == CHOOSE x \in S : \A y \in S : x >= y

\* The elements at the places 0, 1, ... that they are given.
Listed(place) ==
    [k \in 1 .. Cardinality(DOMAIN place) |-> CHOOSE x \in DOMAIN place : place[x] = k - 1]

\* How many elements have a lower key.
Below(key, x) == Cardinality({y \in DOMAIN key : key[y] < key[x]})

\* By a key that no two elements share.
InOrder(key) == Listed([x \in DOMAIN key |-> Below(key, x)])

\* Numbers, the lowest first, and the elements of a sequence at these places.
Ascending(places) == InOrder([i \in places |-> i])
At(s, places)     == LET order == Ascending(places) IN [k \in DOMAIN order |-> s[order[k]]]

\* By any key, cut at a limit: those that share one may come in any order.
Firsts(key, limit) ==
    {s \in UNION {[1 .. n -> DOMAIN key] : n \in 0 .. limit} :
        LET taken == {s[i] : i \in DOMAIN s}
            left  == DOMAIN key \ taken
        IN  /\ \A i, j \in DOMAIN s : i < j => s[i] # s[j] /\ key[s[i]] <= key[s[j]]
            /\ left # {} => Len(s) = limit
            /\ \A x \in taken, y \in left : key[x] <= key[y]}

=================================================================================
