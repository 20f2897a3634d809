------------------------------- MODULE MCWatch -------------------------------
(* Instances of Watch for TLC.                                               *)
EXTENDS Watch, TLC

CONSTANTS p1, p2, f1, f2, ra, rb, v1, v2, b1, e1, u1, c1

TwoProcs == {p1, p2}
TwoFiles == <<f1, f2>>
TwoRoots == <<ra, Raw, rb>>

\* Each root has a relpath of its own.
Apart(x, y) == [r \in {ra, rb} |-> [f \in {f1, f2} |->
                   CASE r = ra /\ f = f1 -> x
                     [] r = rb /\ f = f2 -> y
                     [] OTHER -> {}]]

AllKinds == Apart({v1, b1, e1, u1}, {v2})
Corrupted == Apart({v1, v2, c1}, {v1, v2})

\* Both in the first.
Together == [r \in {ra, rb} |-> [f \in {f1, f2} |-> IF r = ra THEN {v1, v2} ELSE {}]]

\* Calls by their arguments.
Scan(roots)       == [op |-> "scan", roots |-> roots,
                      execute |-> FALSE, prune |-> FALSE, graphify |-> FALSE]
Ingest(r, prune)  == [op |-> "ingest", roots |-> <<r>>,
                      execute |-> TRUE, prune |-> prune, graphify |-> FALSE]
Run(roots, prune) == [op |-> "run", roots |-> roots,
                      execute |-> TRUE, prune |-> prune, graphify |-> FALSE]
Full(roots)       == [Run(roots, FALSE) EXCEPT !.graphify = TRUE]

SoundCalls == {Scan(<<ra>>), Ingest(rb, FALSE), Run(<<ra>>, TRUE), Full(<<rb, ra>>),
               Run(<<>>, TRUE)}
TwoScans   == {Scan(<<ra>>), Run(<<ra>>, FALSE)}
OneRoot    == {Run(<<ra>>, FALSE)}
BothRoots  == {Scan(<<>>), Run(<<ra, rb>>, TRUE)}

\* The first file has been ingested before, with this content or another; the second,
\* if it has, has not changed since, but its vectors may be outworn.
MCInit ==
    /\ Init
    /\ manifest[f1] # Gone /\ manifest[f2] \in {v2, Gone}
    /\ outworn \subseteq {f2}

MCSpec == MCInit /\ [][Next]_vars

Symmetry == Permutations(TwoProcs)
==============================================================================
