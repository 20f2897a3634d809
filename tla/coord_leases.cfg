\* Two agents claim, renew and release one resource and leave a handoff note; one
\* process may die.
CONSTANTS
    a1 = a1
    a2 = a2
    a3 = a3
    r1 = r1
    l1 = l1
    l2 = l2
    s1 = s1
    s2 = s2
    h1 = h1
    None = None
    Agents <- Pair
    Resources <- OneRes
    LeaseIds <- TwoLeases
    SessionIds <- NoIds
    HandoffIds <- OneHandoff
    Ops <- LedgerOps
    Ttls = {1}
    MaxClock = 2
    MaxCrashes = 1
    ClockMayRegress = FALSE
SPECIFICATION Spec
SYMMETRY Symmetry
INVARIANTS
    TypeOK
    OneActiveLease
    LeaseExclusion
    EventsHappened
    AuditComplete
    
PROPERTIES
    RegistrySpec
    LeaseLifecycle
