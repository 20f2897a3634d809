------------------------------- MODULE MCGraph -------------------------------
(* An instance of GraphStore and Graphify for TLC.                           *)
EXTENDS Graphify, TLC

CONSTANTS d1, d2, n1, n2, b1, b2, MaxBuilds, MaxChanges, MaxDeaths

TwoDocs  == {d1, d2}
TwoNodes == {n1, n2}
Titles   == {n1}

\* A source with a title only, and one that relates its title to an entity that
\* the other source may share.
Versions ==
    [d \in TwoDocs |->
        {[nodes |-> Titles, edges |-> {}],
         [nodes |-> {n1, n2}, edges |-> {[of |-> d, from |-> n1, to |-> n2]}]}]

\* Either the graph layer on its own, in any order, or a few changes of it and
\* of the pages beside builders.
Amounts == {[changes |-> Unbounded, builds |-> 0, deaths |-> 0],
            [changes |-> MaxChanges, builds |-> MaxBuilds, deaths |-> MaxDeaths]}

Symmetry == Permutations(TwoDocs) \cup Permutations({b1, b2})
==============================================================================
