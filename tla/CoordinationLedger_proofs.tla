----------------------- MODULE CoordinationLedger_proofs -----------------------
(***************************************************************************)
(* Proofs about CoordinationLedger, for every set of agents, resources and *)
(* ids and every bound.                                                    *)
(***************************************************************************)
EXTENDS CoordinationLedger, TLAPS

-----------------------------------------------------------------------------
(* The operators on state objects *)

\* An empty state object is well typed and holds no active lease.
LEMMA EmptyLedgerOK == EmptyLedger \in Ledgers /\ OneActiveIn(EmptyLedger)
  BY DEF EmptyLedger, Ledgers, Sessions, Leases, OneActiveIn

\* The expiry step keeps the type, the sessions and the handoffs, and changes
\* a lease only from active to expired, when it has lapsed.
LEMMA SweptOK ==
  ASSUME NEW L \in Ledgers, NEW t \in Nat
  PROVE  /\ Swept(L, t) \in Ledgers
         /\ Swept(L, t).sessions = L.sessions
         /\ Swept(L, t).handoffs = L.handoffs
         /\ \A l \in LeaseIds :
              \/ /\ l \notin Lapsed(L, t)
                 /\ Swept(L, t).leases[l] = L.leases[l]
              \/ /\ l \in Lapsed(L, t)
                 /\ L.leases[l].status = "active"
                 /\ Swept(L, t).leases[l].status = "expired"
                 /\ Swept(L, t).leases[l].res = L.leases[l].res
                 /\ Swept(L, t).leases[l].owner = L.leases[l].owner
                 /\ Swept(L, t).leases[l].expires = L.leases[l].expires
                 /\ L.leases[l].expires <= t
  <1> DEFINE f == [l \in LeaseIds |->
            IF l \in Lapsed(L, t) THEN [L.leases[l] EXCEPT !.status = "expired"]
            ELSE L.leases[l]]
  <1>1. Swept(L, t) = [L EXCEPT !.leases = f]
    BY DEF Swept
  <1>2. f \in [LeaseIds -> Leases]
    BY DEF Ledgers, Leases
  <1>3. /\ Swept(L, t) \in Ledgers /\ Swept(L, t).leases = f
        /\ Swept(L, t).sessions = L.sessions /\ Swept(L, t).handoffs = L.handoffs
    BY <1>1, <1>2 DEF Ledgers
  <1>4. ASSUME NEW l \in LeaseIds
        PROVE  \/ l \notin Lapsed(L, t) /\ f[l] = L.leases[l]
               \/ /\ l \in Lapsed(L, t)
                  /\ L.leases[l].status = "active"
                  /\ f[l].status = "expired"
                  /\ f[l].res = L.leases[l].res
                  /\ f[l].owner = L.leases[l].owner
                  /\ f[l].expires = L.leases[l].expires
                  /\ L.leases[l].expires <= t
    BY DEF Ledgers, Leases, Lapsed
  <1> QED
    BY <1>3, <1>4

\* Putting a lease into a state object changes that entry and nothing else.
LEMMA WithLeaseOK ==
  ASSUME NEW L \in Ledgers, NEW l \in LeaseIds, NEW r \in Resources,
         NEW a \in Agents, NEW until \in Nat
  PROVE  /\ WithLease(L, l, r, a, until) \in Ledgers
         /\ WithLease(L, l, r, a, until).sessions = L.sessions
         /\ WithLease(L, l, r, a, until).handoffs = L.handoffs
         /\ WithLease(L, l, r, a, until).leases =
              [L.leases EXCEPT ![l] = [status |-> "active", res |-> r,
                                       owner |-> a, expires |-> until]]
  BY DEF WithLease, Ledgers, Leases

\* Releasing a lease changes the status of that entry and nothing else.
LEMMA WithReleasedOK ==
  ASSUME NEW L \in Ledgers, NEW l \in LeaseIds
  PROVE  /\ WithReleased(L, l) \in Ledgers
         /\ WithReleased(L, l).sessions = L.sessions
         /\ WithReleased(L, l).handoffs = L.handoffs
         /\ WithReleased(L, l).leases =
              [L.leases EXCEPT ![l] = [L.leases[l] EXCEPT !.status = "released"]]
  BY DEF WithReleased, Ledgers, Leases

\* Putting a session into a state object changes that entry and no other.
LEMMA WithSessionOK ==
  ASSUME NEW L \in Ledgers, NEW s \in SessionIds, NEW a \in Agents,
         NEW status \in {"active", "closed"}
  PROVE  /\ WithSession(L, s, a, status) \in Ledgers
         /\ WithSession(L, s, a, status).leases = L.leases
         /\ WithSession(L, s, a, status).handoffs = L.handoffs
         /\ WithSession(L, s, a, status).sessions[s].status = status
         /\ WithSession(L, s, a, status).sessions[s].agent = a
         /\ \A q \in SessionIds \ {s} :
              WithSession(L, s, a, status).sessions[q] = L.sessions[q]
  BY DEF WithSession, Ledgers, Sessions

\* Writing a handoff note changes that entry and no other.
LEMMA WithHandoffOK ==
  ASSUME NEW L \in Ledgers, NEW h \in HandoffIds, NEW a \in Agents
  PROVE  /\ [L EXCEPT !.handoffs[h] = a] \in Ledgers
         /\ [L EXCEPT !.handoffs[h] = a].leases = L.leases
         /\ [L EXCEPT !.handoffs[h] = a].sessions = L.sessions
         /\ [L EXCEPT !.handoffs[h] = a].handoffs[h] = a
         /\ \A k \in HandoffIds \ {h} :
              [L EXCEPT !.handoffs[h] = a].handoffs[k] = L.handoffs[k]
  BY DEF Ledgers

\* What the arguments of an operation are, by its kind.
LEMMA RequestOK ==
  ASSUME NEW req \in Requests
  PROVE  /\ req.op \in {"claim", "renew", "release"} => req.res \in Resources
         /\ req.op \in {"claim", "renew"} => req.ttl \in Nat \ {0}
         /\ req.op # "none"
  BY ConstantsAssumption DEF Requests

-----------------------------------------------------------------------------
(* The operations, by what they do to the draft *)

Unsaved == {"saving", "announcing", "storing"}

\* What an operation of a, called with req at time t, makes of a state object L
\* it has loaded: a new lease of a, or another expiry or the release of a lease
\* that a owns, and only for the resource it was called for.
Edited(a, req, t, L, M) ==
    /\ M \in Ledgers
    /\ OneActiveIn(L) => OneActiveIn(M)
    /\ \A l \in LeaseIds :
          \/ M.leases[l] = L.leases[l]
          \/ /\ \/ L.leases[l].status = "absent"
                \/ /\ L.leases[l].status = "active"
                   /\ L.leases[l].owner = a
                   /\ L.leases[l].res = req.res
             /\ M.leases[l].owner = a
             /\ M.leases[l].res = req.res
             /\ \/ /\ req.op \in {"claim", "renew"}
                   /\ M.leases[l].status = "active"
                   /\ M.leases[l].expires = t + req.ttl
                \/ /\ req.op = "release"
                   /\ M.leases[l].status = "released"
                   /\ L.leases[l].status = "active"
    /\ req.op \in {"claim", "renew"} =>
          \E l \in LeaseIds : /\ M.leases[l].status = "active"
                              /\ M.leases[l].owner = a
                              /\ M.leases[l].res = req.res

\* The session and handoff operations leave every lease as it was.
LEMMA EditUnchanged ==
  ASSUME NEW a \in Agents, NEW req \in Requests, NEW t \in Nat,
         NEW L \in Ledgers, NEW M \in Ledgers,
         M.leases = L.leases, req.op \notin {"claim", "renew"}
  PROVE  Edited(a, req, t, L, M)
  BY DEF Edited, OneActiveIn

\* A claim or a renewal sets one lease: an absent one where the resource has
\* no active lease, or the active lease of the resource that a owns.
LEMMA EditSet ==
  ASSUME NEW a \in Agents, NEW req \in Requests, NEW t \in Nat,
         NEW L \in Ledgers, NEW l \in LeaseIds,
         req.op \in {"claim", "renew"},
         \/ L.leases[l].status = "absent" /\ ActiveLeases(L, req.res) = {}
         \/ l \in ActiveLeases(L, req.res) /\ L.leases[l].owner = a
  PROVE  Edited(a, req, t, L, WithLease(L, l, req.res, a, t + req.ttl))
  <1>1. req.res \in Resources /\ t + req.ttl \in Nat
    BY RequestOK
  <1>2. PICK M \in Ledgers :
          /\ M = WithLease(L, l, req.res, a, t + req.ttl)
          /\ M.leases = [L.leases EXCEPT ![l] =
              [status |-> "active", res |-> req.res, owner |-> a,
               expires |-> t + req.ttl]]
    BY <1>1, WithLeaseOK
  <1>3. L.leases \in [LeaseIds -> Leases]
    BY DEF Ledgers
  <1>4. /\ M.leases[l] = [status |-> "active", res |-> req.res, owner |-> a,
                          expires |-> t + req.ttl]
        /\ \A k \in LeaseIds \ {l} : M.leases[k] = L.leases[k]
    BY <1>2, <1>3
  <1>5. OneActiveIn(L) => OneActiveIn(M)
    BY <1>4 DEF OneActiveIn, ActiveLeases
  <1> QED
    BY <1>2, <1>4, <1>5 DEF Edited, ActiveLeases

\* A release ends one active lease that a owns.
LEMMA EditRelease ==
  ASSUME NEW a \in Agents, NEW req \in Requests, NEW t \in Nat,
         NEW L \in Ledgers, NEW l \in ActiveLeases(L, req.res),
         req.op = "release", L.leases[l].owner = a
  PROVE  Edited(a, req, t, L, WithReleased(L, l))
  <1>1. l \in LeaseIds /\ L.leases[l].status = "active" /\ L.leases[l].res = req.res
    BY DEF ActiveLeases
  <1>2. PICK M \in Ledgers :
          /\ M = WithReleased(L, l)
          /\ M.leases = [L.leases EXCEPT ![l] = [L.leases[l] EXCEPT !.status = "released"]]
    BY <1>1, WithReleasedOK
  <1>3. L.leases \in [LeaseIds -> Leases]
    BY DEF Ledgers
  <1>4. /\ M.leases[l].status = "released"
        /\ M.leases[l].owner = L.leases[l].owner
        /\ M.leases[l].res = L.leases[l].res
        /\ \A k \in LeaseIds \ {l} : M.leases[k] = L.leases[k]
    BY <1>1, <1>2, <1>3 DEF Leases
  <1>5. OneActiveIn(L) => OneActiveIn(M)
    BY <1>4 DEF OneActiveIn
  <1> QED
    BY <1>1, <1>2, <1>4, <1>5 DEF Edited

\* What a log says and a state object holds: the log says only what happened ...
Truthful(E, L) ==
    /\ \A l \in LeaseIds :
          /\ <<"lease_claimed", l>> \in E => L.leases[l].status # "absent"
          /\ <<"lease_released", l>> \in E => L.leases[l].status = "released"
          /\ <<"lease_expired", l>> \in E => L.leases[l].status = "expired"
    /\ \A h \in HandoffIds : <<"handoff_added", h>> \in E => L.handoffs[h] # None

\* ... it tells the fate of every lease and every handoff ...
Told(E, L) ==
    /\ \A l \in LeaseIds :
          /\ L.leases[l].status # "absent" => <<"lease_claimed", l>> \in E
          /\ L.leases[l].status = "released" => <<"lease_released", l>> \in E
          /\ L.leases[l].status = "expired" => <<"lease_expired", l>> \in E
    /\ \A h \in HandoffIds : L.handoffs[h] # None => <<"handoff_added", h>> \in E

\* ... and it has the start of every session.
Announced(E, L) ==
    \A s \in SessionIds :
        L.sessions[s].status # "absent" => <<"session_started", s>> \in E

\* How the events E that an operation of a builds account for the change from L
\* to M, and which of its writes comes next.
Recorded(a, req, L, M, E, next) ==
    /\ Truthful(E, M)
    /\ \A l \in LeaseIds :
          \/ M.leases[l] = L.leases[l]
          \/ /\ L.leases[l].status = "absent" /\ M.leases[l].status = "active"
             /\ <<"lease_claimed", l>> \in E
          \/ L.leases[l].status = "active" /\ M.leases[l].status = "active"
          \/ /\ L.leases[l].status = "active" /\ M.leases[l].status = "released"
             /\ <<"lease_released", l>> \in E
    /\ \A h \in HandoffIds :
          \/ M.handoffs[h] = L.handoffs[h]
          \/ L.handoffs[h] = None /\ M.handoffs[h] # None /\ <<"handoff_added", h>> \in E
    /\ \A s \in SessionIds :
          \/ M.sessions[s] = L.sessions[s]
          \/ /\ M.sessions[s].agent = a /\ M.sessions[s].status # "absent"
             /\ \/ /\ L.sessions[s].status = "absent"
                   /\ next = "announcing" /\ <<"session_started", s>> \in E
                \/ L.sessions[s].status # "absent" /\ L.sessions[s].agent = a
    /\ next # "saving" => req.op = "start" /\ E \subseteq {"session_started"} \X SessionIds
    /\ next = "storing" => M = L /\ E = {}

\* Reusing a session of the agent writes nothing new.
LEMMA RecordNothing ==
  ASSUME NEW a, NEW req, NEW L \in Ledgers, req.op = "start"
  PROVE  Recorded(a, req, L, L, {}, "storing")
  BY DEF Recorded, Truthful

\* A new session is announced first; a session of the agent that is touched or
\* closed is saved first.
LEMMA RecordSession ==
  ASSUME NEW a \in Agents, NEW req, NEW L \in Ledgers, NEW s \in SessionIds,
         NEW status \in {"active", "closed"}, NEW kind, NEW next,
         \/ /\ L.sessions[s].status = "absent" /\ req.op = "start"
            /\ kind = "session_started" /\ next = "announcing"
         \/ /\ L.sessions[s].status # "absent" /\ L.sessions[s].agent = a
            /\ kind \in {"session_heartbeat", "session_closed"} /\ next = "saving"
  PROVE  Recorded(a, req, L, WithSession(L, s, a, status), {<<kind, s>>}, next)
  <1> DEFINE M == WithSession(L, s, a, status)
  <1>1. M.leases = L.leases /\ M.handoffs = L.handoffs
    BY WithSessionOK
  <1>2. /\ M.sessions[s].status # "absent" /\ M.sessions[s].agent = a
        /\ \A q \in SessionIds \ {s} : M.sessions[q] = L.sessions[q]
    BY WithSessionOK
  <1> HIDE DEF M
  <1>3. Truthful({<<kind, s>>}, M)
    BY DEF Truthful
  <1>4. <<kind, s>> \in {<<kind, s>>}
    OBVIOUS
  <1>5. Recorded(a, req, L, M, {<<kind, s>>}, next)
    BY <1>1, <1>2, <1>3, <1>4 DEF Recorded
  <1> QED
    BY <1>5 DEF M

\* A handoff note is saved first.
LEMMA RecordHandoff ==
  ASSUME NEW a \in Agents, NEW req, NEW L \in Ledgers, NEW h \in HandoffIds,
         L.handoffs[h] = None
  PROVE  Recorded(a, req, L, [L EXCEPT !.handoffs[h] = a], {<<"handoff_added", h>>}, "saving")
  <1> DEFINE M == [L EXCEPT !.handoffs[h] = a]
  <1>1. M.leases = L.leases /\ M.sessions = L.sessions
    BY WithHandoffOK
  <1>2. /\ M.handoffs[h] # None
        /\ \A k \in HandoffIds \ {h} : M.handoffs[k] = L.handoffs[k]
    BY WithHandoffOK, ConstantsAssumption
  <1> HIDE DEF M
  <1>3. Truthful({<<"handoff_added", h>>}, M)
    BY <1>2 DEF Truthful
  <1>4. <<"handoff_added", h>> \in {<<"handoff_added", h>>}
    OBVIOUS
  <1>5. Recorded(a, req, L, M, {<<"handoff_added", h>>}, "saving")
    BY <1>1, <1>2, <1>3, <1>4 DEF Recorded
  <1> QED
    BY <1>5 DEF M

\* A claim is recorded as such when the lease is new.
LEMMA RecordSet ==
  ASSUME NEW a \in Agents, NEW req, NEW L \in Ledgers, NEW l \in LeaseIds,
         NEW r \in Resources, NEW until \in Nat, NEW kind,
         \/ L.leases[l].status = "absent" /\ kind = "lease_claimed"
         \/ L.leases[l].status = "active" /\ kind = "lease_renewed"
  PROVE  Recorded(a, req, L, WithLease(L, l, r, a, until), {<<kind, l>>}, "saving")
  <1>1. PICK M \in Ledgers :
          /\ M = WithLease(L, l, r, a, until)
          /\ M.sessions = L.sessions /\ M.handoffs = L.handoffs
          /\ M.leases = [L.leases EXCEPT ![l] = [status |-> "active", res |-> r,
                                                 owner |-> a, expires |-> until]]
    BY WithLeaseOK
  <1>2. /\ M.leases[l].status = "active"
        /\ \A k \in LeaseIds \ {l} : M.leases[k] = L.leases[k]
    BY <1>1 DEF Ledgers
  <1>3. Truthful({<<kind, l>>}, M)
    BY <1>2 DEF Truthful
  <1>4. <<kind, l>> \in {<<kind, l>>}
    OBVIOUS
  <1> QED
    BY <1>1, <1>2, <1>3, <1>4 DEF Recorded

\* A release is recorded as such.
LEMMA RecordRelease ==
  ASSUME NEW a \in Agents, NEW req, NEW L \in Ledgers, NEW l \in LeaseIds,
         L.leases[l].status = "active"
  PROVE  Recorded(a, req, L, WithReleased(L, l), {<<"lease_released", l>>}, "saving")
  <1>1. PICK M \in Ledgers :
          /\ M = WithReleased(L, l)
          /\ M.sessions = L.sessions /\ M.handoffs = L.handoffs
          /\ M.leases = [L.leases EXCEPT ![l] = [L.leases[l] EXCEPT !.status = "released"]]
    BY WithReleasedOK
  <1>2. /\ M.leases[l].status = "released"
        /\ \A k \in LeaseIds \ {l} : M.leases[k] = L.leases[k]
    BY <1>1 DEF Ledgers, Leases
  <1>3. Truthful({<<"lease_released", l>>}, M)
    BY <1>2 DEF Truthful
  <1>4. <<"lease_released", l>> \in {<<"lease_released", l>>}
    OBVIOUS
  <1> QED
    BY <1>1, <1>2, <1>3, <1>4 DEF Recorded

\* A step of an operation under the lock is an error exit, or goes on to write
\* an edited draft.
LEMMA OperateOK ==
  ASSUME TypeOK, NEW a \in Agents, Operate(a)
  PROVE  /\ pc[a] = "loaded"
         /\ request[a] \in Requests
         /\ \/ Refuse(a)
            \/ \E M \in Ledgers, evs \in SUBSET Events, next \in Unsaved :
                  /\ Commit(a, M, evs, next)
                  /\ Edited(a, request[a], clock, draft[a], M)
                  /\ Recorded(a, request[a], draft[a], M, evs, next)
  <1> DEFINE L == draft[a]
             req == request[a]
             Goal == \/ Refuse(a)
                     \/ \E M \in Ledgers, evs \in SUBSET Events, next \in Unsaved :
                           /\ Commit(a, M, evs, next)
                           /\ Edited(a, req, clock, L, M)
                           /\ Recorded(a, req, L, M, evs, next)
  <1>1. pc[a] = "loaded" /\ req.op # "none"
    BY DEF Operate, StartSession, Heartbeat, CloseSession, SetSession, ClaimLease,
           RenewLease, ReleaseLease, AddHandoff, Running
  <1>2. req \in Requests /\ L \in Ledgers /\ clock \in Nat
    BY <1>1 DEF TypeOK, NoRequest
  <1> HIDE DEF Goal
  <1> SUFFICES Goal
    BY <1>1, <1>2 DEF Goal
  <1>3. ASSUME NEW M \in Ledgers, M.leases = L.leases, req.op \notin {"claim", "renew"},
               NEW evs \in SUBSET Events, NEW next \in Unsaved, Commit(a, M, evs, next),
               Recorded(a, req, L, M, evs, next)
        PROVE  Goal
    <2>1. Edited(a, req, clock, L, M)
      BY <1>2, <1>3, EditUnchanged
    <2> QED
      BY <1>3, <2>1 DEF Goal
  <1>4. CASE StartSession(a)
    <2>0. req.op = "start"
      BY <1>4 DEF StartSession, Running
    <2>1. CASE Commit(a, L, {}, "storing")
      BY <1>2, <1>3, <2>0, <2>1, RecordNothing DEF Unsaved
    <2>2. ASSUME NEW s \in Absent(L.sessions),
                 Commit(a, WithSession(L, s, a, "active"),
                        {<<"session_started", s>>}, "announcing")
          PROVE  Goal
      <3>1. s \in SessionIds /\ L.sessions[s].status = "absent"
        BY <1>2 DEF Absent, Ledgers
      <3>2. /\ WithSession(L, s, a, "active") \in Ledgers
            /\ WithSession(L, s, a, "active").leases = L.leases
        BY <1>2, <3>1, WithSessionOK
      <3>3. {<<"session_started", s>>} \in SUBSET Events
        BY <3>1 DEF Events, EventKinds
      <3>4. Recorded(a, req, L, WithSession(L, s, a, "active"),
                     {<<"session_started", s>>}, "announcing")
        BY <1>2, <2>0, <3>1, RecordSession
      <3> QED
        BY <1>3, <2>0, <2>2, <3>2, <3>3, <3>4 DEF Unsaved
    <2> QED
      BY <1>4, <2>1, <2>2 DEF StartSession
  <1>5. ASSUME NEW op \in {"heartbeat", "close"}, NEW status \in {"active", "closed"},
               NEW kind \in {"session_heartbeat", "session_closed"}, SetSession(a, op, status, kind)
        PROVE  Goal
    <2>0. req.op = op
      BY <1>5 DEF SetSession, Running
    <2>1. CASE Refuse(a)
      BY <2>1 DEF Goal
    <2>2. ASSUME NEW s \in FoundSessions(L, a, req.id),
                 Commit(a, WithSession(L, s, a, status), {<<kind, s>>}, "saving")
          PROVE  Goal
      <3>1. s \in SessionIds /\ L.sessions[s].status # "absent" /\ L.sessions[s].agent = a
        BY DEF FoundSessions, ActiveSessions
      <3>2. /\ WithSession(L, s, a, status) \in Ledgers
            /\ WithSession(L, s, a, status).leases = L.leases
        BY <1>2, <3>1, WithSessionOK
      <3>3. {<<kind, s>>} \in SUBSET Events
        BY <3>1 DEF Events, EventKinds
      <3>4. Recorded(a, req, L, WithSession(L, s, a, status), {<<kind, s>>}, "saving")
        BY <1>2, <3>1, RecordSession
      <3> QED
        BY <1>3, <2>0, <2>2, <3>2, <3>3, <3>4 DEF Unsaved
    <2> QED
      BY <1>5, <2>1, <2>2 DEF SetSession
  <1>6. ASSUME NEW l \in LeaseIds, req.op \in {"claim", "renew"},
               \/ L.leases[l].status = "absent" /\ ActiveLeases(L, req.res) = {}
               \/ l \in ActiveLeases(L, req.res) /\ L.leases[l].owner = a,
               NEW kind \in EventKinds,
               \/ L.leases[l].status = "absent" /\ kind = "lease_claimed"
               \/ L.leases[l].status = "active" /\ kind = "lease_renewed",
               Commit(a, WithLease(L, l, req.res, a, clock + req.ttl),
                      {<<kind, l>>}, "saving")
        PROVE  Goal
    <2>1. Edited(a, req, clock, L, WithLease(L, l, req.res, a, clock + req.ttl))
      BY <1>2, <1>6, EditSet
    <2>2. WithLease(L, l, req.res, a, clock + req.ttl) \in Ledgers
      BY <2>1 DEF Edited
    <2>3. {<<kind, l>>} \in SUBSET Events
      BY DEF Events
    <2>4. req.res \in Resources /\ clock + req.ttl \in Nat
      BY <1>2, <1>6, RequestOK
    <2>5. Recorded(a, req, L, WithLease(L, l, req.res, a, clock + req.ttl),
                   {<<kind, l>>}, "saving")
      BY <1>2, <1>6, <2>4, RecordSet
    <2> QED
      BY <1>6, <2>1, <2>2, <2>3, <2>5 DEF Goal, Unsaved
  <1>7. CASE ClaimLease(a)
    <2>0. req.op = "claim"
      BY <1>7 DEF ClaimLease, Running
    <2>1. CASE Refuse(a)
      BY <2>1 DEF Goal
    <2>2. ASSUME NEW l \in Absent(L.leases), ActiveLeases(L, req.res) = {},
                 Commit(a, WithLease(L, l, req.res, a, clock + req.ttl),
                        {<<"lease_claimed", l>>}, "saving")
          PROVE  Goal
      <3>1. l \in LeaseIds /\ L.leases[l].status = "absent"
        BY <1>2 DEF Absent, Ledgers
      <3> QED
        BY <1>6, <2>0, <2>2, <3>1 DEF EventKinds
    <2>3. ASSUME NEW l \in ActiveLeases(L, req.res), L.leases[l].owner = a,
                 Commit(a, WithLease(L, l, req.res, a, clock + req.ttl),
                        {<<"lease_renewed", l>>}, "saving")
          PROVE  Goal
      <3>1. l \in LeaseIds /\ L.leases[l].status = "active"
        BY DEF ActiveLeases
      <3> QED
        BY <1>6, <2>0, <2>3, <3>1 DEF EventKinds
    <2> QED
      BY <1>7, <2>1, <2>2, <2>3 DEF ClaimLease
  <1>8. CASE RenewLease(a)
    <2>0. req.op = "renew"
      BY <1>8 DEF RenewLease, Running
    <2>1. CASE Refuse(a)
      BY <2>1 DEF Goal
    <2>2. ASSUME NEW l \in FoundLeases(L, req.res, req.id), L.leases[l].owner = a,
                 Commit(a, WithLease(L, l, req.res, a, clock + req.ttl),
                        {<<"lease_renewed", l>>}, "saving")
          PROVE  Goal
      <3>1. l \in ActiveLeases(L, req.res) /\ l \in LeaseIds /\ L.leases[l].status = "active"
        BY DEF FoundLeases, ActiveLeases
      <3> QED
        BY <1>6, <2>0, <2>2, <3>1 DEF EventKinds
    <2> QED
      BY <1>8, <2>1, <2>2 DEF RenewLease
  <1>9. CASE ReleaseLease(a)
    <2>0. req.op = "release"
      BY <1>9 DEF ReleaseLease, Running
    <2>1. CASE Refuse(a)
      BY <2>1 DEF Goal
    <2>2. ASSUME NEW l \in FoundLeases(L, req.res, req.id), L.leases[l].owner = a,
                 Commit(a, WithReleased(L, l), {<<"lease_released", l>>}, "saving")
          PROVE  Goal
      <3>1. l \in ActiveLeases(L, req.res) /\ l \in LeaseIds /\ L.leases[l].status = "active"
        BY DEF FoundLeases, ActiveLeases
      <3>2. Edited(a, req, clock, L, WithReleased(L, l))
        BY <1>2, <2>0, <2>2, <3>1, EditRelease
      <3>3. WithReleased(L, l) \in Ledgers
        BY <3>2 DEF Edited
      <3>4. {<<"lease_released", l>>} \in SUBSET Events
        BY <3>1 DEF Events, EventKinds
      <3>5. Recorded(a, req, L, WithReleased(L, l), {<<"lease_released", l>>}, "saving")
        BY <1>2, <3>1, RecordRelease
      <3> QED
        BY <2>2, <3>2, <3>3, <3>4, <3>5 DEF Goal, Unsaved
    <2> QED
      BY <1>9, <2>1, <2>2 DEF ReleaseLease
  <1>10. CASE AddHandoff(a)
    <2>0. req.op = "handoff"
      BY <1>10 DEF AddHandoff, Running
    <2>1. PICK h \in HandoffIds :
            /\ L.handoffs[h] = None
            /\ Commit(a, [L EXCEPT !.handoffs[h] = a], {<<"handoff_added", h>>}, "saving")
      BY <1>10 DEF AddHandoff
    <2>2. /\ [L EXCEPT !.handoffs[h] = a] \in Ledgers
          /\ [L EXCEPT !.handoffs[h] = a].leases = L.leases
      BY <1>2, WithHandoffOK
    <2>3. {<<"handoff_added", h>>} \in SUBSET Events
      BY DEF Events, EventKinds
    <2>4. Recorded(a, req, L, [L EXCEPT !.handoffs[h] = a],
                   {<<"handoff_added", h>>}, "saving")
      BY <1>2, <2>1, RecordHandoff
    <2> QED
      BY <1>3, <2>0, <2>1, <2>2, <2>3, <2>4 DEF Unsaved
  <1>11. CASE Heartbeat(a)
    BY <1>5, <1>11 DEF Heartbeat, EventKinds
  <1>12. CASE CloseSession(a)
    BY <1>5, <1>12 DEF CloseSession, EventKinds
  <1> QED
    BY <1>4, <1>7, <1>8, <1>9, <1>10, <1>11, <1>12 DEF Operate

-----------------------------------------------------------------------------
(* The steps of the system, by what later proofs need to know of them *)

\* An operation of a writes its edit of the draft.
Edit(a) ==
    /\ pc[a] = "loaded"
    /\ request[a] \in Requests
    /\ \E M \in Ledgers, evs \in SUBSET Events, next \in Unsaved :
          /\ Commit(a, M, evs, next)
          /\ Edited(a, request[a], clock, draft[a], M)
          /\ Recorded(a, request[a], draft[a], M, evs, next)

\* An operation of a fails.
Fail(a) == pc[a] = "loaded" /\ request[a] \in Requests /\ Refuse(a)

Step(a) ==
    \/ \E req \in Requests : Call(a, req)
    \/ Enter(a) \/ Fail(a) \/ Edit(a) \/ Save(a) \/ Append(a) \/ Return(a)
    \/ RecordForcedWriteback(a) \/ Crash(a)

\* Every step is one of these.
LEMMA StepCases ==
  ASSUME TypeOK, [Next]_vars
  PROVE  (\E a \in Agents : Step(a)) \/ Tick \/ SetBack \/ UNCHANGED vars
  <1>1. ASSUME NEW a \in Agents, Operate(a) PROVE Step(a)
    BY <1>1, OperateOK DEF Step, Fail, Edit
  <1> QED
    BY <1>1 DEF Next, Proceed, Step

-----------------------------------------------------------------------------
(* The inductive invariant *)

\* Only the holder of the lock is in the critical section.
LockInv == \A a \in Agents : pc[a] \in Critical => lock = a

\* A claim or a renewal that has been decided has its lease in the draft.
GrantInv ==
    \A a \in Agents :
        pc[a] \in Critical \ {"loaded"} /\ request[a].op \in {"claim", "renew"} =>
            \E l \in LeaseIds : /\ draft[a].leases[l].status = "active"
                                /\ draft[a].leases[l].owner = a
                                /\ draft[a].leases[l].res = request[a].res

\* What an operation has saved is what the ledger holds while it has the lock.
WrittenInv ==
    \A a \in Agents : pc[a] \in {"appending", "returning"} => ledger = draft[a]

\* An unsaved draft is one legal step of every lease away from the ledger; a
\* draft just loaded has at most expired leases that have lapsed.
Expires(x, y) ==
    /\ x.status = "active" /\ y.status = "expired"
    /\ y.res = x.res /\ y.owner = x.owner /\ y.expires = x.expires
    /\ (ClockMayRegress \/ x.expires <= clock)

DraftInv ==
    \A a \in Agents : \A l \in LeaseIds :
        /\ pc[a] = "loaded" => \/ draft[a].leases[l] = ledger.leases[l]
                               \/ Expires(ledger.leases[l], draft[a].leases[l])
        /\ pc[a] \in Unsaved => LeaseEvolves(ledger.leases[l], draft[a].leases[l], a)

IInv == TypeOK /\ LockInv /\ OneActiveLease /\ GrantInv /\ WrittenInv /\ DraftInv

\* The empty runtime satisfies the inductive invariant.
LEMMA InitOK == Init => IInv
  <1> SUFFICES ASSUME Init PROVE IInv
    OBVIOUS
  <1>1. TypeOK
    BY EmptyLedgerOK, ConstantsAssumption DEF Init, TypeOK
  <1>2. OneActiveLease
    BY EmptyLedgerOK DEF Init, OneActiveLease
  <1>3. LockInv /\ GrantInv /\ WrittenInv /\ DraftInv
    BY DEF Init, LockInv, GrantInv, WrittenInv, DraftInv, Critical, Unsaved
  <1> QED
    BY <1>1, <1>2, <1>3 DEF IInv

\* What a claim or a renewal returns is the expiry of its lease.
LEMMA GrantedOK ==
  ASSUME TypeOK, GrantInv, OneActiveLease, NEW a \in Agents,
         pc[a] \in Critical \ {"loaded"}, request[a].op \in {"claim", "renew"}
  PROVE  \E l \in LeaseIds : /\ draft[a].leases[l].status = "active"
                             /\ draft[a].leases[l].owner = a
                             /\ draft[a].leases[l].res = request[a].res
                             /\ draft[a].leases[l].expires = GrantedUntil(a)
                             /\ GrantedUntil(a) \in Nat
  <1>1. PICK k \in LeaseIds : /\ draft[a].leases[k].status = "active"
                              /\ draft[a].leases[k].owner = a
                              /\ draft[a].leases[k].res = request[a].res
    BY DEF GrantInv
  <1> DEFINE l == CHOOSE l \in ActiveLeases(draft[a], request[a].res) : TRUE
  <1>2. l \in ActiveLeases(draft[a], request[a].res)
    BY <1>1 DEF ActiveLeases
  <1>3. l \in LeaseIds /\ l = k
    BY <1>1, <1>2 DEF ActiveLeases, OneActiveLease, OneActiveIn
  <1>4. GrantedUntil(a) = draft[a].leases[k].expires
    BY <1>3 DEF GrantedUntil
  <1>5. draft[a].leases[k].expires \in Nat
    BY DEF TypeOK, Ledgers, Leases
  <1> QED
    BY <1>1, <1>4, <1>5

-----------------------------------------------------------------------------
(* Preservation of the types *)

\* The end of an operation keeps the types.
LEMMA LeaveType ==
  ASSUME TypeOK, NEW a \in Agents, NEW belief \in [Agents -> [Resources -> Nat]],
         Leave(a, belief), UNCHANGED <<ledger, events, clock, crashes>>
  PROVE  TypeOK'
  BY EmptyLedgerOK DEF TypeOK, Leave, Forget

\* Every step of an agent keeps the types.
LEMMA TypeStep ==
  ASSUME TypeOK, GrantInv, OneActiveLease, NEW a \in Agents, Step(a)
  PROVE  TypeOK'
  <1>1. ASSUME NEW req \in Requests, Call(a, req) PROVE TypeOK'
    <2>1. req.op \in {"claim", "renew", "release"} => req.res \in Resources
      BY RequestOK
    <2>2. req.op \in {"claim", "renew"} => clock + req.ttl \in Nat
      BY RequestOK DEF TypeOK
    <2>3. believes' \in [Agents -> [Resources -> Nat]]
      <3>1. CASE req.op = "release"
        BY <1>1, <2>1, <3>1 DEF TypeOK, Call
      <3>2. CASE req.op \in {"claim", "renew"}
        <4>1. Lesser(believes[a][req.res], clock + req.ttl) \in Nat
          BY <2>1, <2>2, <3>2 DEF TypeOK, Lesser
        <4>2. believes' = [believes EXCEPT ![a][req.res] =
                             Lesser(believes[a][req.res], clock + req.ttl)]
          BY <1>1, <3>2 DEF Call
        <4> QED
          BY <2>1, <3>2, <4>1, <4>2 DEF TypeOK
      <3>3. CASE req.op \notin {"claim", "renew", "release"}
        BY <1>1, <3>3 DEF TypeOK, Call
      <3> QED
        BY <3>1, <3>2, <3>3
    <2> QED
      BY <1>1, <2>3 DEF TypeOK, Call
  <1>2. CASE Enter(a)
    <2>1. Swept(ledger, clock) \in Ledgers
      BY SweptOK DEF TypeOK
    <2>2. {"lease_expired"} \X Lapsed(ledger, clock) \in SUBSET Events
      BY DEF Lapsed, Events, EventKinds
    <2>3. draft' \in [Agents -> Ledgers] /\ outbox' \in [Agents -> SUBSET Events]
      BY <1>2, <2>1, <2>2 DEF TypeOK, Enter
    <2> QED
      BY <1>2, <2>3 DEF TypeOK, Enter, Critical
  <1>3. CASE Fail(a)
    <2> DEFINE belief == IF request[a].op \in {"claim", "renew"}
                         THEN [believes EXCEPT ![a][request[a].res] = 0] ELSE believes
    <2>1. belief \in [Agents -> [Resources -> Nat]]
      BY <1>3, RequestOK DEF TypeOK, Fail
    <2>2. Leave(a, belief) /\ UNCHANGED <<ledger, events, clock, crashes>>
      BY <1>3 DEF Fail, Refuse
    <2> QED
      BY <2>1, <2>2, LeaveType
  <1>4. CASE Edit(a)
    BY <1>4 DEF TypeOK, Edit, Commit, Decide, Unsaved, Critical
  <1>5. CASE Save(a)
    BY <1>5 DEF TypeOK, Save, Critical
  <1>6. CASE Append(a)
    BY <1>6 DEF TypeOK, Append, Critical
  <1>7. CASE Return(a)
    <2> DEFINE belief == IF request[a].op \in {"claim", "renew"}
                         THEN [believes EXCEPT ![a][request[a].res] = GrantedUntil(a)]
                         ELSE believes
    <2>1. belief \in [Agents -> [Resources -> Nat]]
      <3>1. CASE request[a].op \in {"claim", "renew"}
        <4>1. GrantedUntil(a) \in Nat
          BY <1>7, <3>1, GrantedOK DEF Return, Critical
        <4> QED
          BY <3>1, <4>1 DEF TypeOK
      <3> QED
        BY <3>1 DEF TypeOK
    <2>2. Leave(a, belief) /\ UNCHANGED <<ledger, events, clock, crashes>>
      BY <1>7 DEF Return
    <2> QED
      BY <2>1, <2>2, LeaveType
  <1>8. CASE RecordForcedWriteback(a)
    BY <1>8 DEF TypeOK, RecordForcedWriteback, Events, EventKinds
  <1>9. CASE Crash(a)
    <2>1. events' \subseteq Events
      BY <1>9 DEF TypeOK, Crash, Forget
    <2> QED
      BY <1>9, <2>1, EmptyLedgerOK DEF TypeOK, Crash, Forget
  <1> QED
    BY <1>1, <1>2, <1>3, <1>4, <1>5, <1>6, <1>7, <1>8, <1>9 DEF Step

\* So does every change of the clock.
LEMMA TypeClock ==
  ASSUME TypeOK, Tick \/ SetBack PROVE TypeOK'
  BY DEF TypeOK, Tick, SetBack

-----------------------------------------------------------------------------
(* Preservation of the rest of the inductive invariant *)

\* Only the holder of the lock is in the critical section, after every step.
LEMMA LockStep ==
  ASSUME TypeOK, LockInv, NEW a \in Agents, Step(a) PROVE LockInv'
  <1> USE ConstantsAssumption DEF TypeOK, LockInv
  <1>1. ASSUME NEW req \in Requests, Call(a, req) PROVE LockInv'
    BY <1>1 DEF Call, Critical
  <1>2. CASE Enter(a)
    BY <1>2 DEF Enter
  <1>3. CASE Fail(a)
    BY <1>3 DEF Fail, Refuse, Leave, Forget, Critical
  <1>4. CASE Edit(a)
    BY <1>4 DEF Edit, Commit, Decide, Critical
  <1>5. CASE Save(a)
    BY <1>5 DEF Save, Critical
  <1>6. CASE Append(a)
    BY <1>6 DEF Append, Critical
  <1>7. CASE Return(a)
    BY <1>7 DEF Return, Leave, Forget, Critical
  <1>8. CASE RecordForcedWriteback(a)
    BY <1>8 DEF RecordForcedWriteback
  <1>9. CASE Crash(a)
    BY <1>9 DEF Crash, Forget, Critical
  <1> QED
    BY <1>1, <1>2, <1>3, <1>4, <1>5, <1>6, <1>7, <1>8, <1>9 DEF Step

\* An agent other than the one that steps in the critical section is not in it.
LEMMA Alone ==
  ASSUME LockInv, NEW a \in Agents, NEW b \in Agents \ {a},
         pc[a] \in Critical \/ lock = None
  PROVE  pc[b] \notin Critical
  BY ConstantsAssumption DEF LockInv

\* The expiry step activates no lease.
LEMMA SweptOneActive ==
  ASSUME NEW L \in Ledgers, NEW t \in Nat, OneActiveIn(L)
  PROVE  OneActiveIn(Swept(L, t))
  BY SweptOK DEF OneActiveIn

\* No step puts a second active lease on a resource, in the file or in a draft.
LEMMA OneActiveStep ==
  ASSUME TypeOK, OneActiveLease, NEW a \in Agents, Step(a) PROVE OneActiveLease'
  <1> USE DEF OneActiveLease
  <1>1. ASSUME NEW req \in Requests, Call(a, req) PROVE OneActiveLease'
    BY <1>1 DEF Call
  <1>2. CASE Enter(a)
    <2>1. OneActiveIn(Swept(ledger, clock))
      BY SweptOneActive DEF TypeOK
    <2>2. \A b \in Agents : OneActiveIn(draft'[b])
      BY <1>2, <2>1 DEF Enter, TypeOK
    <2> QED
      BY <1>2, <2>2 DEF Enter
  <1>3. CASE Fail(a)
    BY <1>3, EmptyLedgerOK DEF Fail, Refuse, Leave, Forget, TypeOK
  <1>4. CASE Edit(a)
    BY <1>4 DEF Edit, Edited, Commit, Decide, TypeOK
  <1>5. CASE Save(a)
    BY <1>5 DEF Save
  <1>6. CASE Append(a)
    BY <1>6 DEF Append
  <1>7. CASE Return(a)
    BY <1>7, EmptyLedgerOK DEF Return, Leave, Forget, TypeOK
  <1>8. CASE RecordForcedWriteback(a)
    BY <1>8 DEF RecordForcedWriteback
  <1>9. CASE Crash(a)
    BY <1>9, EmptyLedgerOK DEF Crash, Forget, TypeOK
  <1> QED
    BY <1>1, <1>2, <1>3, <1>4, <1>5, <1>6, <1>7, <1>8, <1>9 DEF Step

\* A claim or renewal about to be written holds the lease it will report.
LEMMA GrantStep ==
  ASSUME TypeOK, GrantInv, NEW a \in Agents, Step(a) PROVE GrantInv'
  <1> USE DEF GrantInv
  <1>1. ASSUME NEW req \in Requests, Call(a, req) PROVE GrantInv'
    BY <1>1 DEF Call, Critical, TypeOK
  <1>2. CASE Enter(a)
    <2>1. /\ pc'[a] = "loaded" /\ UNCHANGED request
          /\ \A b \in Agents \ {a} : pc'[b] = pc[b] /\ draft'[b] = draft[b]
      BY <1>2 DEF Enter, TypeOK
    <2> QED
      BY <2>1
  <1>3. CASE Fail(a)
    BY <1>3 DEF Fail, Refuse, Leave, Forget, Critical, TypeOK
  <1>4. CASE Edit(a)
    BY <1>4 DEF Edit, Edited, Commit, Decide, TypeOK
  <1>5. CASE Save(a)
    BY <1>5 DEF Save, Critical, TypeOK
  <1>6. CASE Append(a)
    BY <1>6 DEF Append, Critical, TypeOK
  <1>7. CASE Return(a)
    BY <1>7 DEF Return, Leave, Forget, Critical, TypeOK
  <1>8. CASE RecordForcedWriteback(a)
    BY <1>8 DEF RecordForcedWriteback
  <1>9. CASE Crash(a)
    BY <1>9 DEF Crash, Forget, Critical, TypeOK
  <1> QED
    BY <1>1, <1>2, <1>3, <1>4, <1>5, <1>6, <1>7, <1>8, <1>9 DEF Step

\* What has been saved and not yet been answered is still what the file holds.
LEMMA WrittenStep ==
  ASSUME TypeOK, LockInv, WrittenInv, NEW a \in Agents, Step(a) PROVE WrittenInv'
  <1> USE DEF WrittenInv
  <1>1. ASSUME NEW req \in Requests, Call(a, req) PROVE WrittenInv'
    BY <1>1 DEF Call, TypeOK
  <1>2. CASE Enter(a)
    BY <1>2 DEF Enter, TypeOK
  <1>3. CASE Fail(a)
    BY <1>3 DEF Fail, Refuse, Leave, Forget, TypeOK
  <1>4. CASE Edit(a)
    BY <1>4 DEF Edit, Commit, Decide, Unsaved, TypeOK
  <1>5. CASE Save(a)
    <2>1. \A b \in Agents \ {a} : pc'[b] \notin Critical
      BY <1>5, Alone DEF Save, Critical, TypeOK
    <2>2. ledger' = draft'[a]
      BY <1>5 DEF Save
    <2> QED
      BY <2>1, <2>2 DEF Critical
  <1>6. CASE Append(a)
    BY <1>6 DEF Append, TypeOK
  <1>7. CASE Return(a)
    BY <1>7 DEF Return, Leave, Forget, TypeOK
  <1>8. CASE RecordForcedWriteback(a)
    BY <1>8 DEF RecordForcedWriteback
  <1>9. CASE Crash(a)
    BY <1>9 DEF Crash, Forget, TypeOK
  <1> QED
    BY <1>1, <1>2, <1>3, <1>4, <1>5, <1>6, <1>7, <1>8, <1>9 DEF Step

\* An edit of a loaded draft is one step of each lease away from the ledger.
LEMMA EditEvolves ==
  ASSUME TypeOK, DraftInv, NEW a \in Agents, pc[a] = "loaded",
         NEW M, Edited(a, request[a], clock, draft[a], M), NEW l \in LeaseIds
  PROVE  LeaseEvolves(ledger.leases[l], M.leases[l], a)
  BY DEF DraftInv, Edited, LeaseEvolves, Expires

\* A draft is at most one step in the life of each lease ahead of the file.
LEMMA DraftStep ==
  ASSUME TypeOK, LockInv, DraftInv, NEW a \in Agents, Step(a) PROVE DraftInv'
  <1> USE DEF DraftInv, LeaseEvolves, Expires
  <1>1. ASSUME NEW req \in Requests, Call(a, req) PROVE DraftInv'
    BY <1>1 DEF Call, Unsaved, TypeOK
  <1>2. CASE Enter(a)
    <2>1. \A l \in LeaseIds : \/ draft'[a].leases[l] = ledger.leases[l]
                               \/ Expires(ledger.leases[l], draft'[a].leases[l])
      <3>1. CASE request[a].op \in {"claim", "renew"}
        <4>1. draft'[a] = Swept(ledger, clock)
          BY <1>2, <3>1 DEF Enter, TypeOK
        <4> QED
          BY <4>1, SweptOK DEF TypeOK
      <3>2. CASE request[a].op \notin {"claim", "renew"}
        BY <1>2, <3>2 DEF Enter, TypeOK
      <3> QED
        BY <3>1, <3>2
    <2>2. \A b \in Agents \ {a} : pc'[b] \notin Critical
      BY <1>2, Alone DEF Enter, TypeOK
    <2> QED
      BY <1>2, <2>1, <2>2 DEF Enter, Critical, Unsaved, TypeOK
  <1>3. CASE Fail(a)
    BY <1>3 DEF Fail, Refuse, Leave, Forget, Unsaved, TypeOK
  <1>4. CASE Edit(a)
    <2>1. PICK M \in Ledgers, evs \in SUBSET Events, next \in Unsaved :
            Commit(a, M, evs, next) /\ Edited(a, request[a], clock, draft[a], M)
      BY <1>4 DEF Edit
    <2>2. \A l \in LeaseIds : LeaseEvolves(ledger.leases[l], M.leases[l], a)
      BY <1>4, <2>1, EditEvolves DEF Edit
    <2>3. /\ draft' = [draft EXCEPT ![a] = M] /\ pc' = [pc EXCEPT ![a] = next]
          /\ UNCHANGED <<ledger, clock>>
      BY <2>1 DEF Commit, Decide
    <2> QED
      BY <2>2, <2>3 DEF Unsaved, TypeOK
  <1>5. CASE Save(a)
    <2>1. \A b \in Agents \ {a} : pc'[b] \notin Critical
      BY <1>5, Alone DEF Save, Critical, TypeOK
    <2> QED
      BY <1>5, <2>1 DEF Save, Critical, Unsaved, TypeOK
  <1>6. CASE Append(a)
    BY <1>6 DEF Append, Unsaved, TypeOK
  <1>7. CASE Return(a)
    BY <1>7 DEF Return, Leave, Forget, Unsaved, TypeOK
  <1>8. CASE RecordForcedWriteback(a)
    BY <1>8 DEF RecordForcedWriteback
  <1>9. CASE Crash(a)
    BY <1>9 DEF Crash, Forget, Unsaved, TypeOK
  <1> QED
    BY <1>1, <1>2, <1>3, <1>4, <1>5, <1>6, <1>7, <1>8, <1>9 DEF Step

\* The clock disturbs none of these but the expiry times, which only pass.
LEMMA RestClock ==
  ASSUME TypeOK, IInv, Tick \/ SetBack PROVE IInv'
  <1>1. /\ UNCHANGED <<ledger, lock, pc, request, draft>>
        /\ clock <= clock' \/ ClockMayRegress
        /\ clock' \in Nat
    BY DEF Tick, SetBack, TypeOK
  <1>2. TypeOK'
    BY TypeClock
  <1>3. (LockInv /\ OneActiveLease /\ GrantInv /\ WrittenInv)'
    BY <1>1 DEF IInv, LockInv, OneActiveLease, GrantInv, WrittenInv
  <1>4. \A x, y \in Leases : Expires(x, y) => Expires(x, y)'
    BY <1>1 DEF Expires, TypeOK, Leases
  <1>5. \A x, y \in Leases : \A a \in Agents :
          LeaseEvolves(x, y, a) => LeaseEvolves(x, y, a)'
    BY <1>1 DEF LeaseEvolves, TypeOK, Leases
  <1>6. /\ \A l \in LeaseIds : ledger.leases[l] \in Leases
        /\ \A a \in Agents : \A l \in LeaseIds : draft[a].leases[l] \in Leases
    BY DEF TypeOK, Ledgers
  <1>7. DraftInv'
    BY <1>1, <1>4, <1>5, <1>6 DEF IInv, DraftInv
  <1> QED
    BY <1>2, <1>3, <1>7 DEF IInv

\* The strengthening is inductive: one case per action.
LEMMA Inductive == IInv /\ [Next]_vars => IInv'
  <1> SUFFICES ASSUME IInv, [Next]_vars PROVE IInv'
    OBVIOUS
  <1>1. ASSUME NEW a \in Agents, Step(a) PROVE IInv'
    BY <1>1, TypeStep, LockStep, OneActiveStep, GrantStep, WrittenStep, DraftStep
    DEF IInv
  <1>2. CASE Tick \/ SetBack
    BY <1>2, RestClock DEF IInv
  <1>3. CASE UNCHANGED vars
    BY <1>3 DEF vars, IInv, TypeOK, LockInv, OneActiveLease, GrantInv, WrittenInv,
                DraftInv, LeaseEvolves, Expires
  <1> QED
    BY <1>1, <1>2, <1>3, StepCases DEF IInv

\* The inductive invariant of the coordination service: types, mutual exclusion
\* by the flock, one active lease per resource, and what the drafts may hold.
THEOREM Invariance == Spec => []IInv
  BY InitOK, Inductive, PTL DEF Spec

\* The ledger, the log and every operation keep their types (models.py,
\* service.py), for any agents, resources, ids and bounds.
THEOREM TypesHold == Spec => []TypeOK
  <1>1. IInv => TypeOK
    BY DEF IInv
  <1> QED
    BY <1>1, Invariance, PTL

\* spec 007 FR-011 and FR-012: no interleaving of claims, crashes and clock
\* changes gives a resource two active leases.
THEOREM OneLeasePerResource == Spec => []OneActiveLease
  <1>1. IInv => OneActiveLease
    BY DEF IInv
  <1> QED
    BY <1>1, Invariance, PTL

\* A lease never changes hands and never comes back: released and expired are
\* final, only the owner renews or releases, and only under the lock.
THEOREM LeasesFollowLifecycle == Spec => LeaseLifecycle
  <1> DEFINE Legal == \A l \in LeaseIds :
                        LeaseEvolves(ledger.leases[l], ledger'.leases[l], lock)
  <1>1. ASSUME IInv, [Next]_vars PROVE [Legal]_vars
    <2>1. ASSUME UNCHANGED ledger PROVE Legal
      BY <2>1 DEF LeaseEvolves
    <2>2. ASSUME NEW a \in Agents, Step(a) PROVE Legal
      <3>1. CASE Save(a)
        <4>1. lock = a
          BY <1>1, <3>1 DEF IInv, LockInv, Save, Critical
        <4> QED
          BY <1>1, <3>1, <4>1 DEF IInv, DraftInv, Save, Unsaved
      <3>2. CASE ~Save(a)
        BY <2>1, <2>2, <3>2 DEF Step, Call, Enter, Fail, Refuse, Edit, Commit, Decide, Append,
                                Return, RecordForcedWriteback, Crash, Leave, Forget
      <3> QED
        BY <3>1, <3>2
    <2>3. CASE Tick \/ SetBack
      BY <2>1, <2>3 DEF Tick, SetBack
    <2> QED
      BY <1>1, <2>2, <2>3, StepCases DEF IInv, vars
  <1> QED
    BY <1>1, Invariance, PTL DEF Spec, LeaseLifecycle

-----------------------------------------------------------------------------
(* What the agents believe *)

Backed(L, a, r, until) ==
    \E l \in LeaseIds : /\ L.leases[l].status = "active"
                        /\ L.leases[l].owner = a
                        /\ L.leases[l].res = r
                        /\ L.leases[l].expires >= until

\* Whoever relies on a lease has one at least as long, in the ledger and in
\* every draft that may replace it; and relies on no more than a pending
\* operation of its own will leave it.
BeliefInv ==
    \A a \in Agents :
        /\ \A r \in Resources : believes[a][r] > clock =>
              /\ Backed(ledger, a, r, believes[a][r])
              /\ \A b \in Agents : pc[b] \in {"loaded"} \cup Unsaved =>
                    Backed(draft[b], a, r, believes[a][r])
        /\ pc[a] # "idle" /\ request[a].op = "release" =>
              believes[a][request[a].res] = 0
        /\ pc[a] \in {"waiting", "loaded"} /\ request[a].op \in {"claim", "renew"} =>
              believes[a][request[a].res] <= clock + request[a].ttl

\* A shorter belief, or one that still lies ahead, is backed by the same lease.
LEMMA BackedLess ==
  ASSUME NEW L \in Ledgers, NEW a \in Agents, NEW r \in Resources,
         NEW m \in Nat, NEW n \in Nat, m <= n, Backed(L, a, r, n)
  PROVE  Backed(L, a, r, m)
  BY DEF Backed, Ledgers, Leases

\* The expiry step takes no lease that still lies ahead.
LEMMA BackedSwept ==
  ASSUME NEW L \in Ledgers, NEW a \in Agents, NEW r \in Resources,
         NEW t \in Nat, NEW n \in Nat, n > t, Backed(L, a, r, n)
  PROVE  Backed(Swept(L, t), a, r, n)
  <1>1. PICK l \in LeaseIds : /\ L.leases[l].status = "active"
                              /\ L.leases[l].owner = a
                              /\ L.leases[l].res = r
                              /\ L.leases[l].expires >= n
    BY DEF Backed
  <1>2. L.leases[l].expires \in Nat
    BY DEF Ledgers, Leases
  <1>3. Swept(L, t).leases[l] = L.leases[l]
    BY <1>1, <1>2, SweptOK
  <1> QED
    BY <1>1, <1>3 DEF Backed

\* The edits of an agent leave what other agents rely on, and what it relies on
\* itself after its call.
LEMMA BackedEdited ==
  ASSUME TypeOK, BeliefInv, NEW a \in Agents, NEW b \in Agents, NEW r \in Resources,
         pc[a] = "loaded", believes[b][r] > clock, request[a] \in Requests,
         NEW M, Edited(a, request[a], clock, draft[a], M)
  PROVE  Backed(M, b, r, believes[b][r])
  <1>1. PICK l \in LeaseIds : /\ draft[a].leases[l].status = "active"
                              /\ draft[a].leases[l].owner = b
                              /\ draft[a].leases[l].res = r
                              /\ draft[a].leases[l].expires >= believes[b][r]
    BY DEF BeliefInv, Backed
  <1>2. CASE M.leases[l] = draft[a].leases[l]
    BY <1>1, <1>2 DEF Backed
  <1>3. CASE M.leases[l] # draft[a].leases[l]
    <2>1. /\ b = a /\ r = request[a].res
          /\ M.leases[l].owner = a /\ M.leases[l].res = r
          /\ \/ /\ request[a].op \in {"claim", "renew"}
                /\ M.leases[l].status = "active"
                /\ M.leases[l].expires = clock + request[a].ttl
             \/ request[a].op = "release"
      BY <1>1, <1>3 DEF Edited
    <2>2. request[a].op # "release"
      BY <2>1 DEF BeliefInv, TypeOK
    <2>3. believes[a][r] <= clock + request[a].ttl
      BY <2>1, <2>2 DEF BeliefInv
    <2> QED
      BY <2>1, <2>2, <2>3 DEF Backed
  <1> QED
    BY <1>2, <1>3

\* Nobody relies on anything at first.
LEMMA BeliefInit == Init => BeliefInv
  BY DEF Init, BeliefInv, Unsaved

\* A step of an agent keeps what everyone relies on.
LEMMA BeliefStep ==
  ASSUME IInv, BeliefInv, NEW a \in Agents, Step(a) PROVE BeliefInv'
  <1> USE DEF IInv
  <1>0. TypeOK'
    BY TypeStep
  <1>1. ASSUME NEW req \in Requests, Call(a, req) PROVE BeliefInv'
    <2>1. \A b \in Agents : \A r \in Resources :
            /\ believes'[b][r] <= believes[b][r]
            /\ believes'[b][r] \in Nat /\ believes[b][r] \in Nat
      <3>1. req.op \in {"claim", "renew", "release"} => req.res \in Resources
        BY RequestOK
      <3>2. req.op \in {"claim", "renew"} => clock + req.ttl \in Nat
        BY RequestOK DEF TypeOK
      <3>3. \A m, n \in Nat : Lesser(m, n) <= m
        BY DEF Lesser
      <3> QED
        BY <1>0, <1>1, <3>1, <3>2, <3>3 DEF Call, TypeOK
    <2>2. /\ UNCHANGED <<ledger, clock, draft>>
          /\ pc[a] = "idle" /\ pc' = [pc EXCEPT ![a] = "waiting"]
          /\ request' = [request EXCEPT ![a] = req]
      BY <1>1 DEF Call
    <2>3. ASSUME NEW b \in Agents, NEW r \in Resources, believes'[b][r] > clock
          PROVE  /\ Backed(ledger, b, r, believes'[b][r])
                 /\ \A c \in Agents : pc'[c] \in {"loaded"} \cup Unsaved =>
                       Backed(draft[c], b, r, believes'[b][r])
      <3>1. believes[b][r] > clock
        BY <2>1, <2>3 DEF TypeOK
      <3> QED
        BY <2>1, <2>2, <3>1, BackedLess DEF BeliefInv, TypeOK, Unsaved
    <2>4. req.op = "release" => believes'[a][req.res] = 0
      BY <1>1, RequestOK DEF Call, TypeOK
    <2>5. req.op \in {"claim", "renew"} => believes'[a][req.res] <= clock + req.ttl
      <3>1. \A m, n \in Nat : Lesser(m, n) <= n
        BY DEF Lesser
      <3>2. req.op \in {"claim", "renew"} =>
              /\ req.res \in Resources /\ clock + req.ttl \in Nat
              /\ believes'[a][req.res] = Lesser(believes[a][req.res], clock + req.ttl)
        BY <1>1, RequestOK DEF Call, TypeOK
      <3> QED
        BY <3>1, <3>2 DEF TypeOK
    <2>6. \A b \in Agents \ {a} : /\ believes'[b] = believes[b]
                                 /\ request'[b] = request[b] /\ pc'[b] = pc[b]
      BY <1>1 DEF Call, TypeOK
    <2>7. pc'[a] = "waiting" /\ request'[a] = req
      BY <2>2 DEF TypeOK
    <2> QED
      BY <2>2, <2>3, <2>4, <2>5, <2>6, <2>7 DEF BeliefInv
  <1>2. CASE Enter(a)
    <2>1. /\ UNCHANGED <<ledger, clock, request, believes>>
          /\ pc[a] = "waiting" /\ pc' = [pc EXCEPT ![a] = "loaded"]
          /\ draft'[a] \in {ledger, Swept(ledger, clock)}
      BY <1>2 DEF Enter, TypeOK
    <2>2. \A b \in Agents \ {a} : pc'[b] \notin Critical /\ pc'[b] = pc[b]
      BY <1>2, Alone DEF Enter, TypeOK
    <2>3. \A b \in Agents : \A r \in Resources : believes[b][r] > clock =>
            Backed(draft'[a], b, r, believes[b][r])
      BY <2>1, BackedSwept DEF BeliefInv, TypeOK
    <2>4. pc'[a] = "loaded"
      BY <2>1 DEF TypeOK
    <2> QED
      BY <2>1, <2>2, <2>3, <2>4 DEF BeliefInv, Critical, Unsaved
  <1>3. CASE Fail(a)
    <2>1. /\ UNCHANGED <<ledger, clock>> /\ pc' = [pc EXCEPT ![a] = "idle"]
          /\ \A b \in Agents \ {a} : /\ request'[b] = request[b] /\ draft'[b] = draft[b]
                                     /\ believes'[b] = believes[b]
          /\ \A r \in Resources : believes'[a][r] \in {0, believes[a][r]}
      BY <1>3, RequestOK DEF Fail, Refuse, Leave, Forget, TypeOK
    <2>2. pc'[a] = "idle" /\ \A b \in Agents \ {a} : pc'[b] = pc[b]
      BY <2>1 DEF TypeOK
    <2> QED
      BY <2>1, <2>2 DEF BeliefInv, Unsaved, TypeOK
  <1>4. CASE Edit(a)
    <2>1. PICK M \in Ledgers, evs \in SUBSET Events, next \in Unsaved :
            Commit(a, M, evs, next) /\ Edited(a, request[a], clock, draft[a], M)
      BY <1>4 DEF Edit
    <2>2. /\ UNCHANGED <<ledger, clock, request, believes>>
          /\ pc'[a] = next /\ draft'[a] = M
          /\ \A b \in Agents \ {a} : pc'[b] = pc[b] /\ draft'[b] = draft[b]
      BY <2>1 DEF Commit, Decide, TypeOK
    <2>3. \A b \in Agents : \A r \in Resources : believes[b][r] > clock =>
            Backed(M, b, r, believes[b][r])
      BY <1>4, <2>1, BackedEdited DEF Edit
    <2> QED
      BY <1>4, <2>2, <2>3 DEF BeliefInv, Unsaved, Edit
  <1>5. CASE Save(a)
    <2>1. /\ ledger' = draft[a] /\ UNCHANGED <<clock, request, draft, believes>>
          /\ pc[a] \in Unsaved /\ pc'[a] \in {"appending", "returning"}
          /\ \A b \in Agents \ {a} : pc'[b] = pc[b]
      BY <1>5 DEF Save, Unsaved, TypeOK
    <2>2. \A b \in Agents : pc'[b] \in {"loaded"} \cup Unsaved => pc[b] \in {"loaded"} \cup Unsaved
      BY <2>1 DEF Unsaved
    <2> QED
      BY <2>1, <2>2 DEF BeliefInv, Unsaved
  <1>6. CASE Append(a)
    <2>1. /\ UNCHANGED <<ledger, clock, request, draft, believes>>
          /\ \A b \in Agents \ {a} : pc'[b] = pc[b]
          /\ \/ pc[a] = "appending" /\ pc'[a] = "returning"
             \/ pc[a] = "announcing" /\ pc'[a] = "storing"
      BY <1>6 DEF Append, TypeOK
    <2> QED
      BY <2>1 DEF BeliefInv, Unsaved
  <1>7. CASE Return(a)
    <2>1. /\ UNCHANGED <<ledger, clock>>
          /\ pc'[a] = "idle" /\ \A b \in Agents \ {a} : pc'[b] = pc[b]
          /\ \A b \in Agents \ {a} : /\ request'[b] = request[b] /\ draft'[b] = draft[b]
                                     /\ believes'[b] = believes[b]
      BY <1>7 DEF Return, Leave, Forget, TypeOK
    <2>2. \A b \in Agents : pc'[b] \notin Critical
      BY <1>7, <2>1, Alone DEF Return, Critical
    <2>3. ASSUME NEW r \in Resources, believes'[a][r] > clock
          PROVE  Backed(ledger, a, r, believes'[a][r])
      <3>1. CASE request[a].op \in {"claim", "renew"} /\ r = request[a].res
        <4>1. believes'[a][r] = GrantedUntil(a)
          BY <1>7, <3>1 DEF Return, Leave, Forget, TypeOK
        <4>2. ledger = draft[a]
          BY <1>7 DEF Return, WrittenInv
        <4> QED
          BY <1>7, <3>1, <4>1, <4>2, GrantedOK DEF Return, Critical, Backed
      <3>2. CASE request[a].op \in {"claim", "renew"} /\ r # request[a].res
        <4>1. believes'[a][r] = believes[a][r]
          BY <1>7, <3>2 DEF Return, Leave, Forget, TypeOK
        <4> QED
          BY <2>3, <4>1 DEF BeliefInv
      <3>3. CASE request[a].op \notin {"claim", "renew"}
        <4>1. believes'[a][r] = believes[a][r]
          BY <1>7, <3>3 DEF Return, Leave, Forget, TypeOK
        <4> QED
          BY <2>3, <4>1 DEF BeliefInv
      <3> QED
        BY <3>1, <3>2, <3>3
    <2> QED
      BY <2>1, <2>2, <2>3 DEF BeliefInv, Critical, Unsaved
  <1>8. CASE RecordForcedWriteback(a)
    BY <1>8 DEF RecordForcedWriteback, BeliefInv
  <1>9. CASE Crash(a)
    <2>1. /\ UNCHANGED <<ledger, clock, believes>>
          /\ pc'[a] = "idle" /\ \A b \in Agents \ {a} : pc'[b] = pc[b]
          /\ \A b \in Agents \ {a} : request'[b] = request[b] /\ draft'[b] = draft[b]
      BY <1>9 DEF Crash, Forget, TypeOK
    <2> QED
      BY <2>1 DEF BeliefInv, Unsaved
  <1> QED
    BY <1>1, <1>2, <1>3, <1>4, <1>5, <1>6, <1>7, <1>8, <1>9 DEF Step

\* So does every step, if the clock is not set back.
LEMMA BeliefInductive ==
  ASSUME ~ClockMayRegress PROVE IInv /\ BeliefInv /\ [Next]_vars => BeliefInv'
  <1> SUFFICES ASSUME IInv, BeliefInv, [Next]_vars PROVE BeliefInv'
    OBVIOUS
  <1>1. CASE Tick
    <2>1. /\ UNCHANGED <<ledger, pc, request, draft, believes>>
          /\ clock' = clock + 1 /\ clock \in Nat
      BY <1>1 DEF Tick, IInv, TypeOK
    <2>2. \A b \in Agents : \A r \in Resources :
            believes[b][r] > clock' => believes[b][r] > clock
      BY <2>1 DEF IInv, TypeOK
    <2>3. ASSUME NEW b \in Agents, pc[b] \in {"waiting", "loaded"},
                 request[b].op \in {"claim", "renew"}
          PROVE  believes[b][request[b].res] <= clock' + request[b].ttl
      <3>1. request[b] \in Requests
        BY <2>3 DEF IInv, TypeOK, NoRequest
      <3>2. request[b].res \in Resources /\ request[b].ttl \in Nat
        BY <2>3, <3>1, RequestOK
      <3>3. believes[b][request[b].res] \in Nat
        BY <3>2 DEF IInv, TypeOK
      <3> QED
        BY <2>1, <2>3, <3>2, <3>3 DEF BeliefInv
    <2> QED
      BY <2>1, <2>2, <2>3 DEF BeliefInv
  <1>2. CASE SetBack
    BY <1>2 DEF SetBack
  <1>3. CASE UNCHANGED vars
    BY <1>3 DEF vars, BeliefInv
  <1> QED
    BY <1>1, <1>2, <1>3, StepCases, BeliefStep DEF IInv

\* What leases are for: with a clock that is not set back, two agents never
\* take themselves to own the same resource at the same time, whatever was
\* lost in crashes between the ledger, the log and the answer.
THEOREM AgentsExcludeEachOther ==
  ASSUME ~ClockMayRegress PROVE Spec => []LeaseExclusion
  <1>1. ASSUME IInv, BeliefInv PROVE LeaseExclusion
    <2> SUFFICES ASSUME NEW a \in Agents, NEW b \in Agents, NEW r \in Resources,
                        believes[a][r] > clock, believes[b][r] > clock
                 PROVE  a = b
      BY DEF LeaseExclusion
    <2>1. Backed(ledger, a, r, believes[a][r]) /\ Backed(ledger, b, r, believes[b][r])
      BY <1>1 DEF BeliefInv
    <2> QED
      BY <1>1, <2>1 DEF Backed, IInv, OneActiveLease, OneActiveIn
  <1> QED
    BY <1>1, BeliefInit, BeliefInductive, Invariance, PTL DEF Spec

\* With a clock that is not set back, the readers that take no lock (status and
\* lint) never show the resource of a caller that takes itself to own it as
\* free: between any two steps of any operations, after any deaths.
THEOREM HoldersAreAlwaysShown ==
  ASSUME ~ClockMayRegress PROVE Spec => []HoldersAreShown
  <1>1. ASSUME IInv, BeliefInv PROVE HoldersAreShown
    <2> SUFFICES ASSUME NEW a \in Agents, NEW r \in Resources, believes[a][r] > clock
                 PROVE  \E l \in LeaseIds :
                           LET lease == ledger.leases[l] IN
                           /\ lease.res = r /\ lease.owner = a
                           /\ ViewedStatus(lease, clock) = "active"
                           /\ l \notin StaleLeases(ledger, clock)
      BY DEF HoldersAreShown
    <2>1. Backed(ledger, a, r, believes[a][r])
      BY <1>1 DEF BeliefInv
    <2>2. PICK l \in LeaseIds : /\ ledger.leases[l].status = "active"
                                /\ ledger.leases[l].owner = a
                                /\ ledger.leases[l].res = r
                                /\ ledger.leases[l].expires >= believes[a][r]
      BY <2>1 DEF Backed
    <2>3. /\ ledger.leases[l].expires \in Nat
          /\ believes[a][r] \in Nat /\ clock \in Nat
      BY <1>1 DEF IInv, TypeOK, Ledgers, Leases
    <2>4. ~(ledger.leases[l].expires <= clock)
      BY <2>2, <2>3
    <2> QED
      BY <2>2, <2>4 DEF ViewedStatus, StaleLeases
  <1> QED
    BY <1>1, BeliefInit, BeliefInductive, Invariance, PTL DEF Spec

-----------------------------------------------------------------------------
(* The log *)

\* What an operation that has just loaded its draft has changed in it, and that
\* nothing is pending outside the lock.
LoadedInv ==
    \A a \in Agents :
        /\ pc[a] \in {"idle", "waiting"} => outbox[a] = {}
        /\ pc[a] = "loaded" =>
              /\ draft[a].sessions = ledger.sessions
              /\ draft[a].handoffs = ledger.handoffs
              /\ request[a].op \notin {"claim", "renew"} => outbox[a] = {}
              /\ \A l \in LeaseIds :
                    \/ draft[a].leases[l] = ledger.leases[l]
                    \/ /\ request[a].op \in {"claim", "renew"}
                       /\ ledger.leases[l].status = "active"
                       /\ draft[a].leases[l].status = "expired"
                       /\ <<"lease_expired", l>> \in outbox[a]

\* The log is never ahead of the ledger, and an outbox never of its draft; what
\* is appended before the save is only the start of a session.
TruthInv ==
    /\ Truthful(events, ledger)
    /\ \A a \in Agents :
          /\ pc[a] \in Critical => Truthful(outbox[a], draft[a])
          /\ pc[a] = "announcing" => outbox[a] \subseteq {"session_started"} \X SessionIds
          /\ pc[a] \in {"storing", "returning"} => outbox[a] \subseteq events
          /\ pc[a] \in Unsaved => \A h \in HandoffIds :
                ledger.handoffs[h] # None => draft[a].handoffs[h] # None

\* A draft changes only sessions of its agent, and new ones.
SessionInv ==
    /\ \A s \in SessionIds :
          ledger.sessions[s].status = "absent" => ledger.sessions[s].agent = None
    /\ \A a \in Agents : pc[a] \in Unsaved => \A s \in SessionIds :
          \/ draft[a].sessions[s] = ledger.sessions[s]
          \/ /\ draft[a].sessions[s].status # "absent"
             /\ draft[a].sessions[s].agent = a
             /\ ledger.sessions[s].agent \in {None, a}

\* Before a session is saved its start is in the log.
AnnounceInv ==
    /\ Announced(events, ledger)
    /\ \A a \in Agents :
          /\ pc[a] = "announcing" => Announced(events \cup outbox[a], draft[a])
          /\ pc[a] \in {"saving", "storing"} => Announced(events, draft[a])

\* While no process has died, the log and the outbox of the running operation
\* tell all of its draft, and the log tells all of the ledger except between
\* the two writes of an operation.
AuditInv ==
    crashes = 0 =>
        /\ (\A a \in Agents : pc[a] # "appending") => Told(events, ledger)
        /\ \A a \in Agents : pc[a] \in Critical => Told(events \cup outbox[a], draft[a])

LogInv == LoadedInv /\ TruthInv /\ SessionInv /\ AnnounceInv /\ AuditInv

\* A step of a changes nothing of what another agent is doing.
LEMMA Others ==
  ASSUME TypeOK, NEW a \in Agents, Step(a), NEW b \in Agents \ {a}
  PROVE  /\ pc'[b] = pc[b] /\ request'[b] = request[b]
         /\ draft'[b] = draft[b] /\ outbox'[b] = outbox[b]
  <1>1. ASSUME NEW req \in Requests, Call(a, req)
        PROVE  /\ pc'[b] = pc[b] /\ request'[b] = request[b]
               /\ draft'[b] = draft[b] /\ outbox'[b] = outbox[b]
    BY <1>1 DEF Call, TypeOK
  <1>2. CASE Enter(a)
    BY <1>2 DEF Enter, TypeOK
  <1>3. CASE Fail(a)
    BY <1>3 DEF Fail, Refuse, Leave, Forget, TypeOK
  <1>4. CASE Edit(a)
    BY <1>4 DEF Edit, Commit, Decide, TypeOK
  <1>5. CASE Save(a)
    BY <1>5 DEF Save, TypeOK
  <1>6. CASE Append(a)
    BY <1>6 DEF Append, TypeOK
  <1>7. CASE Return(a)
    BY <1>7 DEF Return, Leave, Forget, TypeOK
  <1>8. CASE RecordForcedWriteback(a)
    BY <1>8 DEF RecordForcedWriteback
  <1>9. CASE Crash(a)
    BY <1>9 DEF Crash, Forget, TypeOK
  <1> QED
    BY <1>1, <1>2, <1>3, <1>4, <1>5, <1>6, <1>7, <1>8, <1>9 DEF Step

\* The steps after which a is not under the lock: what may have reached the log,
\* and that no process but a dead one leaves out what it had to append.
Outside(a) ==
    /\ pc'[a] \in {"idle", "waiting"}
    /\ outbox'[a] = {}
    /\ UNCHANGED ledger
    /\ events \subseteq events'
    /\ events' \subseteq events \cup {<<"forced_writeback", None>>}
                         \cup (IF pc[a] \in {"appending", "announcing"} THEN outbox[a] ELSE {})
    /\ crashes' = 0 => crashes = 0 /\ pc[a] # "appending"

\* The steps of an agent, by what they do under the lock.
LEMMA LogCases ==
  ASSUME TypeOK, LoadedInv, NEW a \in Agents, Step(a)
  PROVE  Outside(a) \/ Enter(a) \/ Edit(a) \/ Save(a) \/ Append(a)
  <1>1. ASSUME NEW req \in Requests, Call(a, req) PROVE Outside(a)
    BY <1>1 DEF Call, TypeOK, Outside, LoadedInv
  <1>2. CASE Fail(a)
    BY <1>2 DEF Fail, Refuse, Leave, Forget, TypeOK, Outside
  <1>3. CASE Return(a)
    BY <1>3 DEF Return, Leave, Forget, TypeOK, Outside
  <1>4. CASE RecordForcedWriteback(a)
    BY <1>4 DEF RecordForcedWriteback, Outside, LoadedInv
  <1>5. CASE Crash(a)
    BY <1>5 DEF Crash, Forget, TypeOK, Outside
  <1> QED
    BY <1>1, <1>2, <1>3, <1>4, <1>5 DEF Step

\* What Enter and Edit do to the state of their agent.
LEMMA EnterOwn ==
  ASSUME TypeOK, LoadedInv, NEW a \in Agents, Enter(a)
  PROVE  /\ pc'[a] = "loaded" /\ UNCHANGED <<ledger, events, request, crashes>>
         /\ draft'[a].sessions = ledger.sessions
         /\ draft'[a].handoffs = ledger.handoffs
         /\ request[a].op \notin {"claim", "renew"} => outbox'[a] = {}
         /\ \A l \in LeaseIds :
               \/ draft'[a].leases[l] = ledger.leases[l]
               \/ /\ request[a].op \in {"claim", "renew"}
                  /\ ledger.leases[l].status = "active"
                  /\ draft'[a].leases[l].status = "expired"
                  /\ <<"lease_expired", l>> \in outbox'[a]
         /\ \A e \in outbox'[a] : \E l \in LeaseIds :
               e = <<"lease_expired", l>> /\ draft'[a].leases[l].status = "expired"
  <1>1. pc'[a] = "loaded" /\ UNCHANGED <<ledger, events, request, crashes>>
    BY DEF Enter, TypeOK
  <1>2. CASE request[a].op \in {"claim", "renew"}
    <2>1. /\ draft'[a] = Swept(ledger, clock)
          /\ outbox'[a] = {"lease_expired"} \X Lapsed(ledger, clock)
      BY <1>2 DEF Enter, TypeOK
    <2>2. \A l \in Lapsed(ledger, clock) :
            l \in LeaseIds /\ <<"lease_expired", l>> \in outbox'[a]
      BY <2>1 DEF Lapsed
    <2>3. \A e \in outbox'[a] : \E l \in Lapsed(ledger, clock) : e = <<"lease_expired", l>>
      BY <2>1
    <2>4. /\ Swept(ledger, clock).sessions = ledger.sessions
          /\ Swept(ledger, clock).handoffs = ledger.handoffs
          /\ \A l \in LeaseIds :
                \/ /\ l \notin Lapsed(ledger, clock)
                   /\ Swept(ledger, clock).leases[l] = ledger.leases[l]
                \/ /\ l \in Lapsed(ledger, clock)
                   /\ ledger.leases[l].status = "active"
                   /\ Swept(ledger, clock).leases[l].status = "expired"
      BY SweptOK DEF TypeOK
    <2> QED
      BY <1>1, <1>2, <2>1, <2>2, <2>3, <2>4
  <1>3. CASE request[a].op \notin {"claim", "renew"}
    BY <1>1, <1>3 DEF Enter, TypeOK, LoadedInv
  <1> QED
    BY <1>2, <1>3

\* The edit of a, with the events that go with it.
LEMMA EditOwn ==
  ASSUME TypeOK, NEW a \in Agents, Edit(a)
  PROVE  \E M \in Ledgers, E \in SUBSET Events, next \in Unsaved :
            /\ pc[a] = "loaded" /\ pc'[a] = next
            /\ UNCHANGED <<ledger, events, request, crashes>>
            /\ draft'[a] = M /\ outbox'[a] = outbox[a] \cup E
            /\ Recorded(a, request[a], draft[a], M, E, next)
            /\ Edited(a, request[a], clock, draft[a], M)
  BY DEF Edit, Commit, Decide, TypeOK

\* What is loaded is the ledger, but for leases the operation has expired.
LEMMA LoadedStep ==
  ASSUME TypeOK, LockInv, LoadedInv, NEW a \in Agents, Step(a) PROVE LoadedInv'
  <1>0. \A b \in Agents \ {a} : /\ pc'[b] = pc[b] /\ request'[b] = request[b]
                               /\ draft'[b] = draft[b] /\ outbox'[b] = outbox[b]
    BY Others
  <1>1. CASE Outside(a)
    BY <1>0, <1>1 DEF Outside, LoadedInv
  <1>2. CASE Enter(a)
    BY <1>0, <1>2, EnterOwn DEF LoadedInv
  <1>3. CASE Edit(a)
    BY <1>0, <1>3, EditOwn DEF LoadedInv, Unsaved
  <1>4. CASE Save(a)
    <2>1. \A b \in Agents \ {a} : pc'[b] # "loaded"
      BY <1>0, <1>4, Alone DEF Save, Critical
    <2> QED
      BY <1>0, <1>4, <2>1 DEF Save, TypeOK, LoadedInv
  <1>5. CASE Append(a)
    BY <1>0, <1>5 DEF Append, TypeOK, LoadedInv
  <1> QED
    BY <1>1, <1>2, <1>3, <1>4, <1>5, LogCases

\* A truthful set of events stays truthful of what an operation makes of the
\* state object, and so does a part of it.
LEMMA TruthRecorded ==
  ASSUME NEW a, NEW req, NEW L, NEW M, NEW E, NEW F, NEW next,
         Truthful(F, L), Recorded(a, req, L, M, E, next)
  PROVE  Truthful(F \cup E, M)
  BY DEF Truthful, Recorded

\* No step makes the log say what has not happened.
LEMMA TruthStep ==
  ASSUME TypeOK, LockInv, WrittenInv, DraftInv, LoadedInv, TruthInv,
         NEW a \in Agents, Step(a)
  PROVE  TruthInv'
  <1>0. \A b \in Agents \ {a} : /\ pc'[b] = pc[b] /\ request'[b] = request[b]
                               /\ draft'[b] = draft[b] /\ outbox'[b] = outbox[b]
    BY Others
  <1>1. CASE Outside(a)
    <2>1. /\ pc'[a] \notin Critical /\ UNCHANGED ledger
          /\ pc'[a] \notin Unsaved \cup {"announcing", "storing", "returning"}
      BY <1>1 DEF Outside, Critical, Unsaved
    <2>2. Truthful(events', ledger)
      <3>1. CASE pc[a] = "appending"
        <4>1. Truthful(outbox[a], ledger)
          BY <3>1 DEF TruthInv, Critical, WrittenInv
        <4> QED
          BY <1>1, <4>1 DEF Outside, TruthInv, Truthful
      <3>2. CASE pc[a] = "announcing"
        BY <1>1, <3>2 DEF Outside, TruthInv, Truthful
      <3>3. CASE pc[a] \notin {"appending", "announcing"}
        BY <1>1, <3>3 DEF Outside, TruthInv, Truthful
      <3> QED
        BY <3>1, <3>2, <3>3
    <2>3. events \subseteq events'
      BY <1>1 DEF Outside
    <2> QED
      BY <1>0, <2>1, <2>2, <2>3 DEF TruthInv
  <1>2. CASE Enter(a)
    <2>1. /\ pc'[a] = "loaded" /\ UNCHANGED <<ledger, events>>
          /\ \A e \in outbox'[a] : \E l \in LeaseIds :
                e = <<"lease_expired", l>> /\ draft'[a].leases[l].status = "expired"
      BY <1>2, EnterOwn
    <2>2. Truthful(outbox'[a], draft'[a])
      BY <2>1 DEF Truthful
    <2> QED
      BY <1>0, <2>1, <2>2 DEF TruthInv, Unsaved
  <1>3. CASE Edit(a)
    <2>1. PICK M \in Ledgers, E \in SUBSET Events, next \in Unsaved :
            /\ pc[a] = "loaded" /\ pc'[a] = next
            /\ UNCHANGED <<ledger, events>>
            /\ draft'[a] = M /\ outbox'[a] = outbox[a] \cup E
            /\ Recorded(a, request[a], draft[a], M, E, next)
      BY <1>3, EditOwn
    <2>2. Truthful(outbox'[a], draft'[a])
      BY <2>1, TruthRecorded DEF TruthInv, Critical
    <2>3. /\ next = "announcing" => outbox'[a] \subseteq {"session_started"} \X SessionIds
          /\ next = "storing" => outbox'[a] \subseteq events
      BY <2>1 DEF Recorded, LoadedInv
    <2>4. \A h \in HandoffIds : ledger.handoffs[h] # None => M.handoffs[h] # None
      BY <2>1 DEF Recorded, LoadedInv
    <2> QED
      BY <1>0, <2>1, <2>2, <2>3, <2>4 DEF TruthInv, Unsaved
  <1>4. CASE Save(a)
    <2>1. /\ pc[a] \in {"saving", "storing"} /\ pc'[a] \in {"appending", "returning"}
          /\ pc'[a] = "returning" => pc[a] = "storing"
          /\ ledger' = draft[a] /\ UNCHANGED <<events, draft, outbox>>
      BY <1>4 DEF Save, TypeOK
    <2>2. \A b \in Agents \ {a} : pc'[b] \notin Critical
      BY <1>0, <2>1, Alone DEF Critical
    <2>3. Truthful(events, draft[a])
      BY <2>1 DEF TruthInv, Truthful, DraftInv, LeaseEvolves, Unsaved
    <2> QED
      BY <2>1, <2>2, <2>3 DEF TruthInv, Critical, Unsaved
  <1>5. CASE Append(a)
    <2>1. /\ \/ pc[a] = "appending" /\ pc'[a] = "returning"
             \/ pc[a] = "announcing" /\ pc'[a] = "storing"
          /\ events' = events \cup outbox[a] /\ UNCHANGED <<ledger, draft, outbox>>
      BY <1>5 DEF Append, TypeOK
    <2>2. Truthful(events', ledger)
      <3>1. CASE pc[a] = "appending"
        <4>1. Truthful(outbox[a], ledger)
          BY <3>1 DEF TruthInv, Critical, WrittenInv
        <4> QED
          BY <2>1, <4>1 DEF TruthInv, Truthful
      <3>2. CASE pc[a] = "announcing"
        BY <2>1, <3>2 DEF TruthInv, Truthful
      <3> QED
        BY <2>1, <3>1, <3>2
    <2> QED
      BY <1>0, <2>1, <2>2 DEF TruthInv, Critical, Unsaved
  <1> QED
    BY <1>1, <1>2, <1>3, <1>4, <1>5, LogCases

\* No step lets an operation touch the session of another agent.
LEMMA SessionStep ==
  ASSUME TypeOK, LockInv, LoadedInv, SessionInv, NEW a \in Agents, Step(a)
  PROVE  SessionInv'
  <1>0. \A b \in Agents \ {a} : pc'[b] = pc[b] /\ draft'[b] = draft[b]
    BY Others
  <1>1. CASE Outside(a)
    BY <1>0, <1>1 DEF Outside, SessionInv, Unsaved
  <1>2. CASE Enter(a)
    BY <1>0, <1>2, EnterOwn DEF SessionInv, Unsaved
  <1>3. CASE Edit(a)
    <2>1. PICK M \in Ledgers, E \in SUBSET Events, next \in Unsaved :
            /\ pc[a] = "loaded" /\ UNCHANGED ledger /\ draft'[a] = M
            /\ Recorded(a, request[a], draft[a], M, E, next)
      BY <1>3, EditOwn
    <2>2. draft[a].sessions = ledger.sessions
      BY <2>1 DEF LoadedInv
    <2>3. \A s \in SessionIds :
             \/ M.sessions[s] = ledger.sessions[s]
             \/ /\ M.sessions[s].status # "absent" /\ M.sessions[s].agent = a
                /\ ledger.sessions[s].agent \in {None, a}
      <3> TAKE s \in SessionIds
      <3>1. \/ M.sessions[s] = draft[a].sessions[s]
            \/ /\ M.sessions[s].agent = a /\ M.sessions[s].status # "absent"
               /\ \/ draft[a].sessions[s].status = "absent"
                  \/ draft[a].sessions[s].agent = a
        BY <2>1 DEF Recorded
      <3>2. ledger.sessions[s].status = "absent" => ledger.sessions[s].agent = None
        BY DEF SessionInv
      <3> QED
        BY <2>2, <3>1, <3>2
    <2> QED
      BY <1>0, <2>1, <2>3 DEF SessionInv
  <1>4. CASE Save(a)
    <2>1. /\ pc[a] \in Unsaved /\ pc'[a] \notin Unsaved /\ ledger' = draft[a]
      BY <1>4 DEF Save, TypeOK, Unsaved
    <2>2. \A b \in Agents \ {a} : pc'[b] \notin Unsaved
      BY <1>0, <2>1, Alone DEF Critical, Unsaved
    <2> QED
      BY <2>1, <2>2 DEF SessionInv
  <1>5. CASE Append(a)
    BY <1>0, <1>5 DEF Append, TypeOK, SessionInv, Unsaved
  <1> QED
    BY <1>1, <1>2, <1>3, <1>4, <1>5, LogCases

\* No step saves a session before its start is in the log.
LEMMA AnnounceStep ==
  ASSUME TypeOK, LockInv, LoadedInv, AnnounceInv, NEW a \in Agents, Step(a)
  PROVE  AnnounceInv'
  <1>0. \A b \in Agents \ {a} : pc'[b] = pc[b] /\ draft'[b] = draft[b] /\ outbox'[b] = outbox[b]
    BY Others
  <1>1. CASE Outside(a)
    BY <1>0, <1>1 DEF Outside, AnnounceInv, Announced
  <1>2. CASE Enter(a)
    BY <1>0, <1>2, EnterOwn DEF AnnounceInv
  <1>3. CASE Edit(a)
    <2>1. PICK M \in Ledgers, E \in SUBSET Events, next \in Unsaved :
            /\ pc[a] = "loaded" /\ pc'[a] = next /\ UNCHANGED <<ledger, events>>
            /\ draft'[a] = M /\ outbox'[a] = outbox[a] \cup E
            /\ Recorded(a, request[a], draft[a], M, E, next)
      BY <1>3, EditOwn
    <2>2. Announced(events, draft[a])
      BY <2>1 DEF LoadedInv, AnnounceInv, Announced
    <2>3. /\ next = "announcing" => Announced(events \cup outbox'[a], M)
          /\ next # "announcing" => Announced(events, M)
      BY <2>1, <2>2 DEF Recorded, Announced
    <2> QED
      BY <1>0, <2>1, <2>3 DEF AnnounceInv
  <1>4. CASE Save(a)
    <2>1. /\ pc[a] \in {"saving", "storing"} /\ pc'[a] \in {"appending", "returning"}
          /\ ledger' = draft[a] /\ UNCHANGED events
      BY <1>4 DEF Save, TypeOK
    <2> QED
      BY <1>0, <2>1, <1>4 DEF AnnounceInv, Save
  <1>5. CASE Append(a)
    <2>1. /\ \/ pc[a] = "appending" /\ pc'[a] = "returning"
             \/ pc[a] = "announcing" /\ pc'[a] = "storing"
          /\ events' = events \cup outbox[a] /\ UNCHANGED <<ledger, draft, outbox>>
      BY <1>5 DEF Append, TypeOK
    <2> QED
      BY <1>0, <2>1 DEF AnnounceInv, Announced
  <1> QED
    BY <1>1, <1>2, <1>3, <1>4, <1>5, LogCases

\* Without crashes, no step leaves anything out of the log.
LEMMA AuditStep ==
  ASSUME TypeOK, LockInv, WrittenInv, LoadedInv, TruthInv, AuditInv,
         NEW a \in Agents, Step(a)
  PROVE  AuditInv'
  <1> SUFFICES ASSUME crashes' = 0 PROVE AuditInv'
    BY DEF AuditInv
  <1>0. \A b \in Agents \ {a} : pc'[b] = pc[b] /\ draft'[b] = draft[b] /\ outbox'[b] = outbox[b]
    BY Others
  <1>1. CASE Outside(a)
    <2>1. crashes = 0 /\ pc[a] # "appending" /\ UNCHANGED ledger /\ events \subseteq events'
      BY <1>1 DEF Outside
    <2>2. pc'[a] \notin Critical
      BY <1>1 DEF Outside, Critical
    <2> QED
      BY <1>0, <2>1, <2>2 DEF AuditInv, Told, Critical
  <1>2. CASE Enter(a)
    <2>1. /\ pc'[a] = "loaded" /\ UNCHANGED <<ledger, events, crashes>>
          /\ draft'[a].handoffs = ledger.handoffs
          /\ \A l \in LeaseIds :
               \/ draft'[a].leases[l] = ledger.leases[l]
               \/ /\ ledger.leases[l].status = "active"
                  /\ draft'[a].leases[l].status = "expired"
                  /\ <<"lease_expired", l>> \in outbox'[a]
      BY <1>2, EnterOwn
    <2>2. \A b \in Agents : pc[b] # "appending"
      BY <1>2, ConstantsAssumption DEF Enter, LockInv, Critical
    <2>3. Told(events, ledger)
      BY <2>1, <2>2 DEF AuditInv
    <2>4. Told(events \cup outbox'[a], draft'[a])
      BY <2>1, <2>3 DEF Told
    <2> QED
      BY <1>0, <2>1, <2>3, <2>4 DEF AuditInv
  <1>3. CASE Edit(a)
    <2>1. PICK M \in Ledgers, E \in SUBSET Events, next \in Unsaved :
            /\ pc[a] = "loaded" /\ pc'[a] = next /\ UNCHANGED <<ledger, events, crashes>>
            /\ draft'[a] = M /\ outbox'[a] = outbox[a] \cup E
            /\ Recorded(a, request[a], draft[a], M, E, next)
      BY <1>3, EditOwn
    <2>2. Told(events \cup outbox[a], draft[a])
      BY <2>1 DEF AuditInv, Critical
    <2>3. Told(events \cup outbox'[a], M)
      BY <2>1, <2>2 DEF Recorded, Told
    <2> QED
      BY <1>0, <2>1, <2>3 DEF AuditInv, Unsaved
  <1>4. CASE Save(a)
    <2>1. /\ pc[a] \in {"saving", "storing"}
          /\ \/ pc[a] = "saving" /\ pc'[a] = "appending"
             \/ pc[a] = "storing" /\ pc'[a] = "returning"
          /\ ledger' = draft[a] /\ UNCHANGED <<events, draft, outbox, crashes>>
      BY <1>4 DEF Save, TypeOK
    <2>2. Told(events \cup outbox[a], draft[a])
      BY <2>1 DEF AuditInv, Critical
    <2>3. pc[a] = "storing" => events \cup outbox[a] = events
      BY DEF TruthInv
    <2>4. \A b \in Agents \ {a} : pc'[b] \notin Critical
      BY <1>0, <2>1, Alone DEF Critical
    <2>5. \A b \in Agents : pc'[b] \in Critical => Told(events' \cup outbox'[b], draft'[b])
      BY <2>1, <2>2, <2>4
    <2>6. pc'[a] # "appending" => Told(events', ledger')
      BY <2>1, <2>2, <2>3
    <2> QED
      BY <2>5, <2>6 DEF AuditInv
  <1>5. CASE Append(a)
    <2>1. /\ \/ pc[a] = "appending" /\ pc'[a] = "returning"
             \/ pc[a] = "announcing" /\ pc'[a] = "storing"
          /\ events' = events \cup outbox[a] /\ UNCHANGED <<ledger, draft, outbox, crashes>>
      BY <1>5 DEF Append, TypeOK
    <2>2. Told(events \cup outbox[a], draft[a])
      BY <2>1 DEF AuditInv, Critical
    <2>3. \A b \in Agents \ {a} : pc'[b] \notin Critical
      BY <1>0, <2>1, Alone DEF Critical
    <2>4. Told(events', ledger)
      <3>1. CASE pc[a] = "appending"
        BY <2>1, <2>2, <3>1 DEF WrittenInv
      <3>2. CASE pc[a] = "announcing"
        <4>1. \A b \in Agents : pc[b] # "appending"
          BY <1>0, <2>3, <3>2 DEF Critical
        <4> QED
          BY <2>1, <4>1 DEF AuditInv, Told
      <3> QED
        BY <2>1, <3>1, <3>2
    <2>5. Told(events' \cup outbox'[a], draft'[a])
      BY <2>1, <2>2 DEF Told
    <2> QED
      BY <2>1, <2>3, <2>4, <2>5 DEF AuditInv
  <1> QED
    BY <1>1, <1>2, <1>3, <1>4, <1>5, LogCases

\* The invariants of the log hold at first ...
LEMMA LogInit == Init => LogInv
  <1> SUFFICES ASSUME Init PROVE LogInv
    OBVIOUS
  <1>1. LoadedInv /\ SessionInv
    BY DEF Init, LoadedInv, SessionInv, EmptyLedger, Unsaved
  <1>2. TruthInv
    BY DEF Init, TruthInv, Truthful, EmptyLedger, Critical, Unsaved
  <1>3. AnnounceInv /\ AuditInv
    BY DEF Init, AnnounceInv, AuditInv, Announced, Told, EmptyLedger, Critical
  <1> QED
    BY <1>1, <1>2, <1>3 DEF LogInv

\* ... and every step keeps them.
LEMMA LogInductive == IInv /\ LogInv /\ [Next]_vars => LogInv'
  <1> SUFFICES ASSUME IInv, LogInv, [Next]_vars PROVE LogInv'
    OBVIOUS
  <1>1. ASSUME NEW a \in Agents, Step(a) PROVE LogInv'
    BY <1>1, LoadedStep, TruthStep, SessionStep, AnnounceStep, AuditStep DEF IInv, LogInv
  <1>2. CASE Tick \/ SetBack \/ UNCHANGED vars
    <2>1. UNCHANGED <<ledger, events, pc, request, draft, outbox, crashes>>
      BY <1>2 DEF Tick, SetBack, vars
    <2> QED
      BY <2>1 DEF LogInv, LoadedInv, TruthInv, SessionInv, AnnounceInv, AuditInv
  <1> QED
    BY <1>1, <1>2, StepCases DEF IInv

\* What events.jsonl, the outboxes and the drafts say of the ledger, in every
\* reachable state.
THEOREM LogInvariance == Spec => [](IInv /\ LogInv)
  BY Invariance, LogInit, LogInductive, PTL DEF Spec

\* Whatever process dies wherever, the log is never ahead of the ledger about a
\* lease or a handoff (service.py: these operations save before they append).
THEOREM LogIsTrue == Spec => []EventsHappened
  <1>1. IInv /\ LogInv => EventsHappened
    BY DEF LogInv, TruthInv, Truthful, EventsHappened
  <1> QED
    BY <1>1, LogInvariance, PTL

\* Whatever process dies wherever, every session in the ledger has its
\* session_started event (service.py: start_session appends before it saves).
THEOREM SessionsAreAnnounced == Spec => []SessionsAnnounced
  <1>1. IInv /\ LogInv => SessionsAnnounced
    BY DEF LogInv, AnnounceInv, Announced, SessionsAnnounced
  <1> QED
    BY <1>1, LogInvariance, PTL

\* spec 007 FR-021: while no process has died, the log tells the fate of every
\* lease and handoff whenever the lock is free.
THEOREM LogIsComplete == Spec => []AuditComplete
  <1>1. ASSUME IInv, LogInv PROVE AuditComplete
    <2> SUFFICES ASSUME crashes = 0, lock = None PROVE AuditComplete
      BY DEF AuditComplete
    <2>1. \A a \in Agents : pc[a] # "appending"
      BY <1>1, ConstantsAssumption DEF IInv, LockInv, Critical
    <2>2. Told(events, ledger)
      BY <1>1, <2>1 DEF LogInv, AuditInv
    <2> QED
      BY <2>2 DEF Told, AuditComplete
  <1> QED
    BY <1>1, LogInvariance, PTL

\* A session is only ever changed by the agent that started it, and only under
\* the lock, whatever id an operation is called with.
THEOREM SessionsStayWithTheirAgent == Spec => SessionLifecycle
  <1> DEFINE Legal == \A s \in SessionIds :
                        LET x == ledger.sessions[s]
                            y == ledger'.sessions[s]
                        IN  y # x => y.agent = lock /\ x.agent \in {None, lock}
  <1>1. ASSUME IInv, LogInv, [Next]_vars PROVE [Legal]_vars
    <2>1. ASSUME UNCHANGED ledger PROVE Legal
      BY <2>1
    <2>2. ASSUME NEW a \in Agents, Step(a) PROVE Legal
      <3>1. CASE Save(a)
        <4>1. lock = a /\ pc[a] \in Unsaved /\ ledger' = draft[a]
          BY <1>1, <3>1 DEF IInv, LockInv, Save, Critical, Unsaved
        <4> QED
          BY <1>1, <4>1 DEF LogInv, SessionInv
      <3>2. CASE ~Save(a)
        <4>1. UNCHANGED ledger
          BY <1>1, <2>2, <3>2, LogCases DEF IInv, LogInv, Outside, Enter, Edit, Commit,
             Decide, Append
        <4> QED
          BY <2>1, <4>1
      <3> QED
        BY <3>1, <3>2
    <2>3. CASE Tick \/ SetBack
      BY <2>1, <2>3 DEF Tick, SetBack
    <2> QED
      BY <1>1, <2>2, <2>3, StepCases DEF IInv, vars
  <1> QED
    BY <1>1, LogInvariance, PTL DEF Spec, SessionLifecycle

-----------------------------------------------------------------------------
(* The lease registry *)

\* What an unsaved draft changes about the leases: the one the operation was
\* called for, and for a claim or a renewal those it has expired.  An active lease
\* has an owner.
ChangeInv ==
    /\ \A l \in LeaseIds :
          ledger.leases[l].status = "active" => ledger.leases[l].owner \in Agents
    /\ \A a \in Agents : pc[a] \in Unsaved => \A l \in LeaseIds :
           \/ draft[a].leases[l] = ledger.leases[l]
           \/ /\ request[a].op \in {"claim", "renew"}
              /\ ledger.leases[l].status = "active"
              /\ draft[a].leases[l].status = "expired"
           \/ /\ draft[a].leases[l].owner = a
              /\ draft[a].leases[l].res = request[a].res
              /\ \/ ledger.leases[l].status = "absent"
                 \/ /\ ledger.leases[l].status = "active"
                    /\ ledger.leases[l].owner = a
                    /\ ledger.leases[l].res = request[a].res
              /\ \/ /\ request[a].op \in {"claim", "renew"}
                    /\ draft[a].leases[l].status = "active"
                 \/ /\ request[a].op = "release"
                    /\ draft[a].leases[l].status = "released"
                    /\ ledger.leases[l].status = "active"

\* No operation prepares any other change of the leases.
LEMMA ChangeStep ==
  ASSUME TypeOK, LockInv, LoadedInv, ChangeInv, NEW a \in Agents, Step(a)
  PROVE  ChangeInv'
  <1>0. \A b \in Agents \ {a} : /\ pc'[b] = pc[b] /\ draft'[b] = draft[b]
                               /\ request'[b] = request[b]
    BY Others
  <1>1. CASE Outside(a)
    BY <1>0, <1>1 DEF Outside, ChangeInv, Unsaved
  <1>2. CASE Enter(a)
    BY <1>0, <1>2, EnterOwn DEF ChangeInv, Unsaved
  <1>3. CASE Edit(a)
    <2>1. PICK M \in Ledgers, E \in SUBSET Events, next \in Unsaved :
            /\ pc[a] = "loaded" /\ UNCHANGED <<ledger, request>> /\ draft'[a] = M
            /\ Edited(a, request[a], clock, draft[a], M)
      BY <1>3, EditOwn
    <2>2. ASSUME NEW l \in LeaseIds
          PROVE  \/ M.leases[l] = ledger.leases[l]
                 \/ /\ request[a].op \in {"claim", "renew"}
                    /\ ledger.leases[l].status = "active"
                    /\ M.leases[l].status = "expired"
                 \/ /\ M.leases[l].owner = a
                    /\ M.leases[l].res = request[a].res
                    /\ \/ ledger.leases[l].status = "absent"
                       \/ /\ ledger.leases[l].status = "active"
                          /\ ledger.leases[l].owner = a
                          /\ ledger.leases[l].res = request[a].res
                    /\ \/ /\ request[a].op \in {"claim", "renew"}
                          /\ M.leases[l].status = "active"
                       \/ /\ request[a].op = "release"
                          /\ M.leases[l].status = "released"
                          /\ ledger.leases[l].status = "active"
      <3>1. \/ draft[a].leases[l] = ledger.leases[l]
            \/ /\ request[a].op \in {"claim", "renew"}
               /\ ledger.leases[l].status = "active"
               /\ draft[a].leases[l].status = "expired"
        BY <2>1 DEF LoadedInv
      <3>2. \/ M.leases[l] = draft[a].leases[l]
            \/ /\ \/ draft[a].leases[l].status = "absent"
                  \/ /\ draft[a].leases[l].status = "active"
                     /\ draft[a].leases[l].owner = a
                     /\ draft[a].leases[l].res = request[a].res
               /\ M.leases[l].owner = a
               /\ M.leases[l].res = request[a].res
               /\ \/ /\ request[a].op \in {"claim", "renew"}
                     /\ M.leases[l].status = "active"
                  \/ /\ request[a].op = "release"
                     /\ M.leases[l].status = "released"
                     /\ draft[a].leases[l].status = "active"
        BY <2>1 DEF Edited
      <3> QED
        BY <3>1, <3>2
    <2> QED
      BY <1>0, <2>1, <2>2 DEF ChangeInv
  <1>4. CASE Save(a)
    <2>1. /\ pc[a] \in Unsaved /\ pc'[a] \notin Unsaved
      BY <1>4 DEF Save, TypeOK, Unsaved
    <2>2. \A b \in Agents \ {a} : pc'[b] \notin Unsaved
      BY <1>0, <2>1, Alone DEF Critical, Unsaved
    <2>3. \A l \in LeaseIds :
            draft[a].leases[l].status = "active" => draft[a].leases[l].owner \in Agents
      BY <2>1 DEF ChangeInv
    <2>4. ledger' = draft[a]
      BY <1>4 DEF Save
    <2> QED
      BY <2>1, <2>2, <2>3, <2>4 DEF ChangeInv
  <1>5. CASE Append(a)
    BY <1>0, <1>5 DEF Append, TypeOK, ChangeInv, Unsaved
  <1> QED
    BY <1>1, <1>2, <1>3, <1>4, <1>5, LogCases

\* Every reachable state has what the refinement needs.
LEMMA ChangeInvariance == Spec => [](IInv /\ ChangeInv)
  <1>1. Init => ChangeInv
    BY DEF Init, ChangeInv, Unsaved, EmptyLedger
  <1>2. ASSUME IInv, LogInv, ChangeInv, [Next]_vars PROVE ChangeInv'
    <2>1. ASSUME NEW a \in Agents, Step(a) PROVE ChangeInv'
      BY <1>2, <2>1, ChangeStep DEF IInv, LogInv
    <2>2. CASE Tick \/ SetBack \/ UNCHANGED vars
      <3>1. UNCHANGED <<ledger, pc, request, draft>>
        BY <2>2 DEF Tick, SetBack, vars
      <3> QED
        BY <1>2, <3>1 DEF ChangeInv
    <2> QED
      BY <1>2, <2>1, <2>2, StepCases DEF IInv
  <1> QED
    BY <1>1, <1>2, LogInvariance, PTL DEF Spec

\* The lease of each resource that a state object holds.
HeldIn(L) ==
    [r \in Resources |->
        IF ActiveLeases(L, r) = {} THEN None
        ELSE LET l == CHOOSE l \in ActiveLeases(L, r) : TRUE
             IN  [owner |-> L.leases[l].owner, until |-> L.leases[l].expires]]

Holding(owner, until) == [owner |-> owner, until |-> until]

\* What the registry notes of a lease.
LEMMA HoldingOK ==
  ASSUME NEW a \in Agents, NEW n \in Nat
  PROVE  /\ Holding(a, n) \in [owner : Agents, until : Nat] /\ Holding(a, n) # None
         /\ Holding(a, n).owner = a /\ Holding(a, n).until = n
  BY NoneIsNoLease DEF Holding

\* A resource without an active lease is free ...
LEMMA HeldNone ==
  ASSUME NEW L, NEW r \in Resources, ActiveLeases(L, r) = {}
  PROVE  HeldIn(L)[r] = None
  BY DEF HeldIn

\* ... and one with an active lease is held by its owner: there is no other.
LEMMA HeldActive ==
  ASSUME NEW L \in Ledgers, OneActiveIn(L), NEW r \in Resources,
         NEW l \in ActiveLeases(L, r)
  PROVE  HeldIn(L)[r] = Holding(L.leases[l].owner, L.leases[l].expires)
  <1> DEFINE k == CHOOSE k \in ActiveLeases(L, r) : TRUE
  <1>1. k \in ActiveLeases(L, r)
    OBVIOUS
  <1>2. k = l
    BY <1>1 DEF ActiveLeases, OneActiveIn
  <1>3. HeldIn(L)[r] = [owner |-> L.leases[k].owner, until |-> L.leases[k].expires]
    BY DEF HeldIn
  <1> QED
    BY <1>2, <1>3 DEF Holding

\* The save of a claim or a renewal is a grant of the registry: the resource was
\* free, its own, or its lease had run out, and so had every other that goes.
LEMMA SaveGrants ==
  ASSUME ~ClockMayRegress, IInv, ChangeInv, NEW a \in Agents, Save(a),
         request[a].op \in {"claim", "renew"}
  PROVE  request[a].res \in Resources /\ Registry!Grant(a, request[a].res)
  <1> DEFINE r == request[a].res
             L == draft[a]
  <1>1. ledger' = L /\ UNCHANGED clock /\ pc[a] \in Unsaved /\ pc[a] \in Critical \ {"loaded"}
    BY DEF Save, Unsaved, Critical
  <1>2. r \in Resources
    BY <1>1, RequestOK DEF IInv, TypeOK, NoRequest
  <1>3. ledger \in Ledgers /\ L \in Ledgers /\ clock \in Nat
    BY DEF IInv, TypeOK
  <1>4. OneActiveIn(ledger) /\ OneActiveIn(L)
    BY DEF IInv, OneActiveLease
  <1>5. HeldLease = HeldIn(ledger) /\ HeldLease' = HeldIn(L)
    BY <1>1 DEF HeldLease, HeldIn, ActiveLeases
  <1>6. PICK k \in LeaseIds : /\ L.leases[k].status = "active" /\ L.leases[k].owner = a
                              /\ L.leases[k].res = r
    BY <1>1 DEF IInv, GrantInv
  <1>7. ASSUME NEW l \in LeaseIds, ledger.leases[l].status = "active",
               L.leases[l] # ledger.leases[l]
        PROVE  \/ /\ ledger.leases[l].owner = a /\ ledger.leases[l].res = r
                  /\ L.leases[l].res = r /\ L.leases[l].status = "active"
               \/ ledger.leases[l].expires <= clock /\ L.leases[l].status = "expired"
    <2>1. CASE L.leases[l].status = "expired"
      BY <1>1, <1>7, <2>1 DEF IInv, DraftInv, LeaseEvolves
    <2>2. CASE L.leases[l].status # "expired"
      BY <1>1, <1>7, <2>2 DEF ChangeInv
    <2> QED
      BY <2>1, <2>2
  <1>8. ASSUME NEW l \in LeaseIds, L.leases[l].status = "active"
        PROVE  /\ L.leases[l].owner \in Agents
               /\ \/ L.leases[l] = ledger.leases[l]
                  \/ L.leases[l].res = r
    BY <1>1, <1>8 DEF ChangeInv
  <1>9. \A l \in LeaseIds : L.leases[l].expires \in Nat /\ ledger.leases[l].expires \in Nat
    BY <1>3 DEF Ledgers, Leases
  <1> HIDE DEF r, L
  <1>10. Registry!Available(a, r)
    <2>1. CASE ActiveLeases(ledger, r) = {}
      BY <1>2, <1>5, <2>1, HeldNone DEF Registry!Available
    <2>2. ASSUME NEW l \in ActiveLeases(ledger, r) PROVE Registry!Available(a, r)
      <3>1. l \in LeaseIds /\ ledger.leases[l].status = "active" /\ ledger.leases[l].res = r
        BY DEF ActiveLeases
      <3>2. HeldLease[r] = Holding(ledger.leases[l].owner, ledger.leases[l].expires)
        BY <1>2, <1>3, <1>4, <1>5, HeldActive
      <3>3. ledger.leases[l].owner = a \/ ledger.leases[l].expires <= clock
        BY <1>4, <1>6, <1>7, <3>1 DEF OneActiveIn
      <3>4. ledger.leases[l].owner \in Agents
        BY <3>1 DEF ChangeInv
      <3>5. HeldLease[r].owner = a \/ HeldLease[r].until <= clock
        BY <1>9, <3>1, <3>2, <3>3, <3>4, HoldingOK
      <3> QED
        BY <3>5 DEF Registry!Available
    <2> QED
      BY <2>1, <2>2
  <1>11. ASSUME NEW q \in Resources
         PROVE  HeldIn(L)[q] \in [owner : Agents, until : Nat] \cup {None}
    <2>1. CASE ActiveLeases(L, q) = {}
      BY <2>1, HeldNone
    <2>2. ASSUME NEW l \in ActiveLeases(L, q)
          PROVE  HeldIn(L)[q] \in [owner : Agents, until : Nat]
      <3>1. l \in LeaseIds /\ L.leases[l].status = "active"
        BY DEF ActiveLeases
      <3>2. HeldIn(L)[q] = Holding(L.leases[l].owner, L.leases[l].expires)
        BY <1>3, <1>4, HeldActive
      <3> QED
        BY <1>8, <1>9, <3>1, <3>2, HoldingOK
    <2> QED
      BY <2>1, <2>2
  <1>12. HeldLease' \in [Resources -> Registry!Held \cup {None}]
    <2>1. HeldIn(L) = [q \in Resources |-> HeldIn(L)[q]]
      BY DEF HeldIn
    <2> QED
      BY <1>5, <1>11, <2>1 DEF Registry!Held
  <1>13. HeldLease'[r] # None /\ HeldLease'[r].owner = a
    <2>1. k \in ActiveLeases(L, r)
      BY <1>6 DEF ActiveLeases
    <2>2. HeldIn(L)[r] = Holding(a, L.leases[k].expires)
      BY <1>2, <1>3, <1>4, <1>6, <2>1, HeldActive
    <2> QED
      BY <1>5, <1>9, <2>2, HoldingOK
  <1>14. ASSUME NEW q \in Resources \ {r}
         PROVE  \/ HeldLease'[q] = HeldLease[q]
                \/ HeldLease'[q] = None /\ HeldLease[q].until <= clock
    <2>1. ASSUME NEW l \in ActiveLeases(L, q) PROVE HeldIn(L)[q] = HeldIn(ledger)[q]
      <3>1. l \in LeaseIds /\ L.leases[l].status = "active" /\ L.leases[l].res = q
        BY DEF ActiveLeases
      <3>2. L.leases[l] = ledger.leases[l]
        BY <1>8, <3>1
      <3>3. l \in ActiveLeases(ledger, q)
        BY <3>1, <3>2 DEF ActiveLeases
      <3>4. HeldIn(L)[q] = Holding(L.leases[l].owner, L.leases[l].expires)
        BY <1>3, <1>4, HeldActive
      <3>5. HeldIn(ledger)[q] = Holding(ledger.leases[l].owner, ledger.leases[l].expires)
        BY <1>3, <1>4, <3>3, HeldActive
      <3> QED
        BY <3>2, <3>4, <3>5
    <2>2. CASE ActiveLeases(L, q) = {} /\ ActiveLeases(ledger, q) = {}
      BY <1>5, <2>2, HeldNone
    <2>3. ASSUME ActiveLeases(L, q) = {}, NEW l \in ActiveLeases(ledger, q)
          PROVE  HeldIn(L)[q] = None /\ HeldIn(ledger)[q].until <= clock
      <3>1. l \in LeaseIds /\ ledger.leases[l].status = "active" /\ ledger.leases[l].res = q
        BY DEF ActiveLeases
      <3>2. L.leases[l] # ledger.leases[l]
        BY <2>3, <3>1 DEF ActiveLeases
      <3>3. ledger.leases[l].expires <= clock
        BY <1>7, <3>1, <3>2
      <3>4. HeldIn(ledger)[q] = Holding(ledger.leases[l].owner, ledger.leases[l].expires)
        BY <1>3, <1>4, HeldActive
      <3>5. ledger.leases[l].owner \in Agents
        BY <3>1 DEF ChangeInv
      <3>6. HeldIn(ledger)[q].until = ledger.leases[l].expires
        BY <1>9, <3>1, <3>4, <3>5, HoldingOK
      <3> QED
        BY <2>3, <3>3, <3>6, HeldNone
    <2> QED
      BY <1>5, <2>1, <2>2, <2>3
  <1>15. Registry!Grant(a, r)
    BY <1>1, <1>10, <1>12, <1>13, <1>14 DEF Registry!Grant
  <1> QED
    BY <1>2, <1>15 DEF r

\* The save of any other operation gives up the lease it released, or leaves the
\* registry as it was.
LEMMA SaveGivesUp ==
  ASSUME IInv, ChangeInv, NEW a \in Agents, Save(a),
         request[a].op \notin {"claim", "renew"}
  PROVE  \/ UNCHANGED <<HeldLease, clock>>
         \/ \E r \in Resources : Registry!GiveUp(a, r)
  <1> DEFINE L == draft[a]
  <1>1. ledger' = L /\ UNCHANGED clock /\ pc[a] \in Unsaved
    BY DEF Save, Unsaved
  <1>2. ledger \in Ledgers /\ L \in Ledgers
    BY DEF IInv, TypeOK
  <1>3. OneActiveIn(ledger) /\ OneActiveIn(L)
    BY DEF IInv, OneActiveLease
  <1>4. HeldLease = HeldIn(ledger) /\ HeldLease' = HeldIn(L)
    BY <1>1 DEF HeldLease, HeldIn, ActiveLeases
  <1>5. ASSUME NEW l \in LeaseIds, L.leases[l] # ledger.leases[l]
        PROVE  /\ request[a].op = "release" /\ L.leases[l].status = "released"
               /\ ledger.leases[l].status = "active" /\ ledger.leases[l].owner = a
               /\ ledger.leases[l].res = request[a].res
    BY <1>1, <1>5 DEF ChangeInv
  <1>6. \A l \in LeaseIds : ledger.leases[l].expires \in Nat
    BY <1>2 DEF Ledgers, Leases
  <1>7. pc[a] # "idle"
    BY <1>1 DEF Unsaved
  <1> HIDE DEF L
  <1>8. CASE \A l \in LeaseIds : L.leases[l] = ledger.leases[l]
    <2>1. \A r \in Resources : ActiveLeases(L, r) = ActiveLeases(ledger, r)
      BY <1>8 DEF ActiveLeases
    <2>2. ASSUME NEW r \in Resources PROVE HeldIn(L)[r] = HeldIn(ledger)[r]
      <3>1. CASE ActiveLeases(ledger, r) = {}
        BY <2>1, <3>1, HeldNone
      <3>2. ASSUME NEW l \in ActiveLeases(ledger, r) PROVE HeldIn(L)[r] = HeldIn(ledger)[r]
        <4>1. HeldIn(L)[r] = Holding(L.leases[l].owner, L.leases[l].expires)
          BY <1>2, <1>3, <2>1, HeldActive
        <4>2. HeldIn(ledger)[r] = Holding(ledger.leases[l].owner, ledger.leases[l].expires)
          BY <1>2, <1>3, HeldActive
        <4>3. L.leases[l] = ledger.leases[l]
          BY <1>8 DEF ActiveLeases
        <4> QED
          BY <4>1, <4>2, <4>3
      <3> QED
        BY <3>1, <3>2
    <2>3. HeldIn(L) = HeldIn(ledger)
      <3>1. /\ HeldIn(L) = [r \in Resources |-> HeldIn(L)[r]]
            /\ HeldIn(ledger) = [r \in Resources |-> HeldIn(ledger)[r]]
        BY DEF HeldIn
      <3> QED
        BY <2>2, <3>1
    <2> QED
      BY <1>1, <1>4, <2>3
  <1>9. ASSUME NEW k \in LeaseIds, L.leases[k] # ledger.leases[k]
        PROVE  \E r \in Resources : Registry!GiveUp(a, r)
    <2> DEFINE r == request[a].res
    <2>1. /\ request[a].op = "release" /\ L.leases[k].status = "released"
          /\ ledger.leases[k].status = "active" /\ ledger.leases[k].owner = a
          /\ ledger.leases[k].res = r
      BY <1>5, <1>9
    <2>2. r \in Resources
      BY <1>7, <2>1, RequestOK DEF IInv, TypeOK, NoRequest
    <2> HIDE DEF r
    <2>3. k \in ActiveLeases(ledger, r)
      BY <2>1 DEF ActiveLeases
    <2>4. HeldIn(ledger)[r] # None /\ HeldIn(ledger)[r].owner = a
      <3>1. HeldIn(ledger)[r] = Holding(a, ledger.leases[k].expires)
        BY <1>2, <1>3, <2>1, <2>2, <2>3, HeldActive
      <3> QED
        BY <1>6, <3>1, HoldingOK
    <2>5. \A l \in LeaseIds \ {k} : L.leases[l] = ledger.leases[l]
      BY <1>3, <1>5, <2>1 DEF OneActiveIn, r
    <2>6. ActiveLeases(L, r) = {}
      BY <1>3, <2>1, <2>5 DEF ActiveLeases, OneActiveIn
    <2>7. HeldIn(L)[r] = None
      BY <2>2, <2>6, HeldNone
    <2>8. ASSUME NEW q \in Resources \ {r} PROVE HeldIn(L)[q] = HeldIn(ledger)[q]
      <3>1. ActiveLeases(L, q) = ActiveLeases(ledger, q)
        BY <2>1, <2>5 DEF ActiveLeases
      <3>2. CASE ActiveLeases(ledger, q) = {}
        BY <3>1, <3>2, HeldNone
      <3>3. ASSUME NEW l \in ActiveLeases(ledger, q) PROVE HeldIn(L)[q] = HeldIn(ledger)[q]
        <4>1. HeldIn(L)[q] = Holding(L.leases[l].owner, L.leases[l].expires)
          BY <1>2, <1>3, <3>1, HeldActive
        <4>2. HeldIn(ledger)[q] = Holding(ledger.leases[l].owner, ledger.leases[l].expires)
          BY <1>2, <1>3, HeldActive
        <4>3. L.leases[l] = ledger.leases[l]
          BY <2>1, <2>5 DEF ActiveLeases
        <4> QED
          BY <4>1, <4>2, <4>3
      <3> QED
        BY <3>2, <3>3
    <2>9. HeldIn(L) = [HeldIn(ledger) EXCEPT ![r] = None]
      <3>1. /\ HeldIn(L) = [q \in Resources |-> HeldIn(L)[q]]
            /\ HeldIn(ledger) = [q \in Resources |-> HeldIn(ledger)[q]]
        BY DEF HeldIn
      <3> QED
        BY <2>7, <2>8, <3>1
    <2> QED
      BY <1>1, <1>4, <2>2, <2>4, <2>9 DEF Registry!GiveUp
  <1> QED
    BY <1>8, <1>9

\* With a clock that is not set back, the ledger implements the lease registry:
\* every save of a claim or a renewal is a grant, every save of a release gives
\* a lease up, and no other step changes who holds what.
THEOREM LedgerImplementsRegistry ==
  ASSUME ~ClockMayRegress PROVE Spec => RegistrySpec
  <1>1. ASSUME Init PROVE Registry!Init
    <2>1. \A r \in Resources : ActiveLeases(ledger, r) = {}
      BY <1>1 DEF Init, EmptyLedger, ActiveLeases
    <2> QED
      BY <1>1, <2>1 DEF Registry!Init, HeldLease, Init
  <1>2. ASSUME IInv, ChangeInv, [Next]_vars
        PROVE  [Registry!Next]_<<HeldLease, clock>>
    <2>1. ASSUME UNCHANGED ledger PROVE UNCHANGED HeldLease
      BY <2>1 DEF HeldLease, ActiveLeases
    <2>2. ASSUME NEW a \in Agents, Step(a) PROVE [Registry!Next]_<<HeldLease, clock>>
      <3>1. CASE Save(a)
        BY <1>2, <3>1, SaveGrants, SaveGivesUp DEF Registry!Next
      <3>2. CASE ~Save(a)
        <4>1. UNCHANGED <<ledger, clock>>
          BY <2>2, <3>2 DEF Step, Call, Enter, Fail, Refuse, Edit, Commit, Decide, Append,
                            Return, RecordForcedWriteback, Crash, Leave, Forget
        <4> QED
          BY <2>1, <4>1
      <3> QED
        BY <3>1, <3>2
    <2>3. CASE Tick \/ SetBack
      <3>1. clock' \in Nat /\ UNCHANGED ledger
        BY <1>2, <2>3 DEF Tick, SetBack, IInv, TypeOK
      <3> QED
        BY <2>1, <3>1 DEF Registry!Next, Registry!Pass
    <2>4. CASE UNCHANGED vars
      BY <2>1, <2>4 DEF vars
    <2> QED
      BY <1>2, <2>2, <2>3, <2>4, StepCases DEF IInv
  <1> QED
    BY <1>1, <1>2, ChangeInvariance, PTL DEF Spec, RegistrySpec, Registry!Spec

================================================================================
