---------------------------- MODULE LeaseRegistry ----------------------------
(***************************************************************************)
(* What the leases of the coordination ledger promise, without sessions,   *)
(* files, locks or processes: a register that maps a resource to its       *)
(* present owner and the time until which it owns it.  A resource passes   *)
(* to another agent only after its owner gave it up or its time ran out.   *)
(***************************************************************************)
EXTENDS Integers

CONSTANTS Agents, Resources, None

VARIABLES
    lease,   \* lease[r]: None, or the owner of r and until when
    clock

Held == [owner : Agents, until : Nat]

Init == lease = [r \in Resources |-> None] /\ clock = 0

Available(a, r) ==
    \/ lease[r] = None
    \/ lease[r].owner = a
    \/ lease[r].until <= clock

\* a comes to own r, or owns it for longer or shorter; the registry may forget,
\* in the same step, other leases whose time has run out.
Grant(a, r) ==
    /\ Available(a, r)
    /\ lease' \in [Resources -> Held \cup {None}]
    /\ lease'[r] # None
    /\ lease'[r].owner = a
    /\ \A q \in Resources \ {r} :
          \/ lease'[q] = lease[q]
          \/ lease'[q] = None /\ lease[q].until <= clock
    /\ UNCHANGED clock

GiveUp(a, r) ==
    /\ lease[r] # None
    /\ lease[r].owner = a
    /\ lease' = [lease EXCEPT ![r] = None]
    /\ UNCHANGED clock

Pass == clock' \in Nat /\ UNCHANGED lease

Next ==
    \/ Pass
    \/ \E a \in Agents, r \in Resources : Grant(a, r) \/ GiveUp(a, r)

Spec == Init /\ [][Next]_<<lease, clock>>
==============================================================================
