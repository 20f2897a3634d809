-------------------------------- MODULE MCLint --------------------------------
(* Instances of IngestPipeline beside `ks lint` and `ks source`, for TLC.    *)
EXTENDS Lint, Catalog, TLC

CONSTANTS f1, f2, v1, v2, v3, b1, u1, t1, t2

TwoFiles == <<f1, f2>>

OwnSlug == (f1 :> t1) @@ (f2 :> t2)

\* Contents are only compared: those of one kind can be permuted.
Symmetry == Permutations(Textual)
===============================================================================
