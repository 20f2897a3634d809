------------------------------ MODULE MCWorkspaces ------------------------------
(* An instance of Workspaces for TLC.                                        *)
EXTENDS Workspaces, TLC

CONSTANTS p1, p2, w1, w2, r1, r2, n1, i1, i2, i3, i4

Symmetry == Permutations(Procs) \cup Permutations(Ids)
            \cup Permutations(Roots) \cup Permutations(Inodes)
=================================================================================
