---------------------------- MODULE MCWikiWriters ----------------------------
(* Instances of WikiWriters for TLC.                                         *)
EXTENDS WikiWriters, TLC

CONSTANTS p1, p2, v1, v2, m1

TwoSlugs == 1 .. 2

Symmetry == Permutations(Procs) \cup Permutations(Versions)
==============================================================================
