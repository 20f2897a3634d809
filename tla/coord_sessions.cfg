\* Two agents start, heartbeat and close sessions; they block on the lock, one
\* process may die, and the wall clock is also set back.
CONSTANTS
    a1 = a1
    a2 = a2
    a3 = a3
    r1 = r1
    l1 = l1
    l2 = l2
    s1 = s1
    s2 = s2
    h1 = h1
    None = None
    Agents <- Pair
    Resources <- OneRes
    LeaseIds <- NoIds
    SessionIds <- TwoSessions
    HandoffIds <- NoIds
    Ops <- SessionOps
    Ttls = {1}
    MaxClock = 1
    MaxCrashes = 1
    ClockMayRegress = TRUE
SPECIFICATION FairSpec
INVARIANTS
    SessionsAnnounced
PROPERTIES
    SessionLifecycle
    CallsAnswered
