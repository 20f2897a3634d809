------------------------------- MODULE MCIngest -------------------------------
(* Instances of IngestPipeline for TLC.                                      *)
EXTENDS IngestPipeline, TLC

CONSTANTS f1, f2, v1, v2, v3, v4, b1, u1, t1, t2

OneFile  == <<f1>>
TwoFiles == <<f1, f2>>

\* Two relpaths that differ only in their suffix share the stem of their tree;
\* two sources with the same heading share the base of their page slugs.
OwnSlug    == (f1 :> t1) @@ (f2 :> t2)
SharedSlug == (f1 :> t1) @@ (f2 :> t1)

\* Contents are only compared: those of one kind can be permuted.
Symmetry == Permutations(Textual)
===============================================================================
