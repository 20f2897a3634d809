-------------------------- MODULE CoordinationLedger --------------------------
(***************************************************************************)
(* The multi-agent coordination ledger of hks.coordination: the CLI, MCP   *)
(* and HTTP callers of several agents each run one service operation at a  *)
(* time.  An operation takes the flock of coordination/.lock (blocking),   *)
(* loads state.json into a private draft, edits the draft, replaces        *)
(* state.json atomically, appends to events.jsonl and drops the lock.  A   *)
(* caller's process may die between any two of these steps; the kernel     *)
(* then drops its flock, and what it had not written is lost.              *)
(***************************************************************************)
EXTENDS Integers, FiniteSets

CONSTANTS
    Agents,           \* agent ids; each agent runs one operation at a time
    Resources,        \* resource keys
    LeaseIds,         \* the uuid4 ids the run can draw, for leases ...
    SessionIds,       \* ... for sessions
    HandoffIds,       \* ... and for handoff notes
    None,             \* "no agent", "no id given"
    Ops,              \* the operations the callers use
    Ttls,             \* ttl_seconds values (1 .. 86400 in the code)
    MaxClock,         \* bound on the wall clock
    MaxCrashes,       \* bound on the number of processes that die
    ClockMayRegress   \* whether the wall clock may be set back

AllOps == {"start", "heartbeat", "close", "claim", "renew", "release",
           "handoff", "forced_writeback"}

ASSUME ConstantsAssumption ==
    /\ Ops \subseteq AllOps
    /\ Ttls \subseteq Nat \ {0}
    /\ MaxClock \in Nat
    /\ MaxCrashes \in Nat
    /\ ClockMayRegress \in BOOLEAN
    /\ None \notin Agents

\* None stands for "no lease" as well.
ASSUME NoneIsNoLease == None \notin [owner : Agents, until : Nat]

VARIABLES
    ledger,    \* state.json
    events,    \* the facts in events.jsonl, as <<event_type, id>>
    lock,      \* the holder of the flock, or None
    clock,     \* the wall clock
    pc,        \* pc[a]: where a's running operation stands
    request,   \* request[a]: the arguments of that operation
    draft,     \* draft[a]: the state object it loaded and edits
    outbox,    \* outbox[a]: the events it has built and not yet appended
    believes,  \* believes[a][r]: until when a takes itself to own r (0: not)
    crashes    \* processes that have died so far

vars == <<ledger, events, lock, clock, pc, request, draft, outbox, believes,
          crashes>>

-----------------------------------------------------------------------------
(* Data *)

Sessions == [status : {"absent", "active", "closed"}, agent : Agents \cup {None}]
Leases   == [status : {"absent", "active", "released", "expired"},
             res : Resources \cup {None}, owner : Agents \cup {None},
             expires : Nat]
Ledgers  == [sessions : [SessionIds -> Sessions],
             leases   : [LeaseIds -> Leases],
             handoffs : [HandoffIds -> Agents \cup {None}]]

EmptyLedger ==
    [sessions |-> [s \in SessionIds |-> [status |-> "absent", agent |-> None]],
     leases   |-> [l \in LeaseIds |-> [status |-> "absent", res |-> None,
                                       owner |-> None, expires |-> 0]],
     handoffs |-> [h \in HandoffIds |-> None]]

Requests ==
         [op : {"start", "handoff"}]
    \cup [op : {"heartbeat", "close"}, id : SessionIds \cup {None}]
    \cup [op : {"claim"}, res : Resources, ttl : Ttls]
    \cup [op : {"renew"}, res : Resources, ttl : Ttls, id : LeaseIds \cup {None}]
    \cup [op : {"release"}, res : Resources, id : LeaseIds \cup {None}]

NoRequest == [op |-> "none"]

EventKinds == {"session_started", "session_heartbeat", "session_closed",
               "lease_claimed", "lease_renewed", "lease_released",
               "lease_expired", "handoff_added", "forced_writeback"}
Events == EventKinds \X (SessionIds \cup LeaseIds \cup HandoffIds \cup {None})

Critical == {"loaded", "saving", "appending", "announcing", "storing",
             "returning"}

-----------------------------------------------------------------------------
(* Lookups and edits of a state object *)

Absent(entries) == {i \in DOMAIN entries : entries[i].status = "absent"}

ActiveSessions(L, a) ==
    {s \in SessionIds : /\ L.sessions[s].status = "active"
                        /\ L.sessions[s].agent = a}

\* (Operators commented "Variant" are faults the properties must detect.)
\* Variant: the owner of a session found by id is not checked.
FoundSessions_AnyOwner(L, a, id) ==
    IF id = None THEN ActiveSessions(L, a)
    ELSE {s \in SessionIds : s = id /\ L.sessions[s].status # "absent"}

\* _find_session: an explicit id may name a closed session of the agent.
FoundSessions(L, a, id) ==
    IF id = None THEN ActiveSessions(L, a)
    ELSE {s \in SessionIds : /\ s = id
                             /\ L.sessions[s].status # "absent"
                             /\ L.sessions[s].agent = a}

ActiveLeases(L, r) ==
    {l \in LeaseIds : L.leases[l].status = "active" /\ L.leases[l].res = r}

\* Variant: a lease found by id is accepted in any status.
FoundLeases_AnyStatus(L, r, id) ==
    {l \in LeaseIds : L.leases[l].res = r /\ id = l}

\* _find_lease followed by the check of its status.
FoundLeases(L, r, id) ==
    {l \in ActiveLeases(L, r) : id \in {None, l}}

\* Variant: expiry without the comparison of expires_at.
Lapsed_AllActive(L, t) == {l \in LeaseIds : L.leases[l].status = "active"}

\* _expire_leases: the leases it ends at time t, and the object it leaves.
Lapsed(L, t) ==
    {l \in LeaseIds : L.leases[l].status = "active" /\ L.leases[l].expires <= t}

Swept(L, t) ==
    [L EXCEPT !.leases =
        [l \in LeaseIds |->
            IF l \in Lapsed(L, t) THEN [L.leases[l] EXCEPT !.status = "expired"]
            ELSE L.leases[l]]]

WithSession(L, s, a, status) ==
    [L EXCEPT !.sessions[s] = [status |-> status, agent |-> a]]

WithLease(L, l, r, a, until) ==
    [L EXCEPT !.leases[l] =
        [status |-> "active", res |-> r, owner |-> a, expires |-> until]]

\* Variant: a status outside the schema.
WithReleased_Closed(L, l) == [L EXCEPT !.leases[l].status = "closed"]

WithReleased(L, l) == [L EXCEPT !.leases[l].status = "released"]

\* The lease status that `status` reports without taking the lock.
ViewedStatus(lease, t) ==
    IF lease.status = "active" /\ lease.expires <= t THEN "expired"
    ELSE lease.status

\* Variant: lint takes every active lease for a stale one.
StaleLeases_AllActive(L, t) == {l \in LeaseIds : L.leases[l].status = "active"}

\* The leases that `lint` reports as stale_lease, again without the lock.
StaleLeases(L, t) ==
    {l \in LeaseIds : L.leases[l].status = "active" /\ L.leases[l].expires <= t}

-----------------------------------------------------------------------------
(* The caller *)

Init ==
    /\ ledger = EmptyLedger
    /\ events = {}
    /\ lock = None
    /\ clock = 0
    /\ pc = [a \in Agents |-> "idle"]
    /\ request = [a \in Agents |-> NoRequest]
    /\ draft = [a \in Agents |-> EmptyLedger]
    /\ outbox = [a \in Agents |-> {}]
    /\ believes = [a \in Agents |-> [r \in Resources |-> 0]]
    /\ crashes = 0

Lesser(m, n) == IF m <= n THEN m ELSE n

\* Bound: a run has finitely many ids; a caller starts an operation that draws
\* one only while ids remain for every operation under way.
IdsRemain(op) ==
    LET underWay == Cardinality({a \in Agents : pc[a] # "idle" /\ request[a].op = op})
    IN  CASE op = "claim"   -> Cardinality(Absent(ledger.leases)) > underWay
          [] op = "start"   -> Cardinality(Absent(ledger.sessions)) > underWay
          [] op = "handoff" ->
                Cardinality({h \in HandoffIds : ledger.handoffs[h] = None}) > underWay
          [] OTHER          -> TRUE

\* A caller that asks for a release stops relying on the lease, and one that
\* asks for a claim or a renewal relies on no more than it asked for: the
\* answer may never come.
Call(a, req) ==
    /\ pc[a] = "idle"
    /\ req.op \in Ops
    /\ IdsRemain(req.op)
    /\ pc' = [pc EXCEPT ![a] = "waiting"]
    /\ request' = [request EXCEPT ![a] = req]
    /\ believes' =
         CASE req.op = "release" -> [believes EXCEPT ![a][req.res] = 0]
           [] req.op \in {"claim", "renew"} ->
                 [believes EXCEPT ![a][req.res] = Lesser(@, clock + req.ttl)]
           [] OTHER -> believes
    /\ UNCHANGED <<ledger, events, lock, clock, draft, outbox, crashes>>

-----------------------------------------------------------------------------
(* The service: one action per step under the lock *)

\* Variant: no mutual exclusion.
Enter_Unlocked(a) ==
    /\ pc[a] = "waiting"
    /\ lock' = a
    /\ pc' = [pc EXCEPT ![a] = "loaded"]
    /\ draft' = [draft EXCEPT ![a] = Swept(ledger, clock)]
    /\ UNCHANGED <<ledger, events, clock, request, outbox, believes, crashes>>

\* Variant: the events of the expiry step are dropped.
Enter_Silent(a) == Enter_Unlocked(a) /\ lock = None

\* flock, load, and the first reading of the clock, by which claim and renew
\* expire the leases that have lapsed.
Enter(a) ==
    /\ pc[a] = "waiting"
    /\ lock = None
    /\ lock' = a
    /\ pc' = [pc EXCEPT ![a] = "loaded"]
    /\ IF request[a].op \in {"claim", "renew"}
       THEN /\ draft' = [draft EXCEPT ![a] = Swept(ledger, clock)]
            /\ outbox' = [outbox EXCEPT ![a] =
                             {"lease_expired"} \X Lapsed(ledger, clock)]
       ELSE /\ draft' = [draft EXCEPT ![a] = ledger]
            /\ UNCHANGED outbox
    /\ UNCHANGED <<ledger, events, clock, request, believes, crashes>>

\* The operation has its new state object L and its further events.
Decide(a, L, evs) ==
    /\ draft' = [draft EXCEPT ![a] = L]
    /\ outbox' = [outbox EXCEPT ![a] = @ \cup evs]
    /\ UNCHANGED <<ledger, events, lock, clock, request, believes, crashes>>

\* Variant: every operation appends its events before it saves.
Commit_LogFirst(a, L, evs, next) ==
    Decide(a, L, evs) /\ pc' = [pc EXCEPT ![a] = "announcing"]

\* Variant: every operation saves before it appends its events.
Commit_SaveFirst(a, L, evs, next) ==
    Decide(a, L, evs) /\ pc' = [pc EXCEPT ![a] = "saving"]

\* next is the first of the writes it goes on to.
Commit(a, L, evs, next) ==
    Decide(a, L, evs) /\ pc' = [pc EXCEPT ![a] = next]

\* The process is gone, and its locals with it.
Forget(a) ==
    /\ pc' = [pc EXCEPT ![a] = "idle"]
    /\ request' = [request EXCEPT ![a] = NoRequest]
    /\ draft' = [draft EXCEPT ![a] = EmptyLedger]
    /\ outbox' = [outbox EXCEPT ![a] = {}]

\* Variant: the lock is not dropped.
Leave_Locked(a, belief) == Forget(a) /\ believes' = belief /\ UNCHANGED lock

\* The end of an operation: the lock is dropped.
Leave(a, belief) == Forget(a) /\ believes' = belief /\ lock' = None

\* The operation raises before it has written anything; what it expired in its
\* draft is dropped with it.  The caller learns that it owns nothing there.
Refuse(a) ==
    /\ Leave(a, IF request[a].op \in {"claim", "renew"}
                THEN [believes EXCEPT ![a][request[a].res] = 0] ELSE believes)
    /\ UNCHANGED <<ledger, events, clock, crashes>>

Running(a, op) == pc[a] = "loaded" /\ request[a].op = op

\* start_session appends its event before it saves, and writes no event when
\* it finds a session of the agent to reuse.
StartSession(a) ==
    /\ Running(a, "start")
    /\ LET L == draft[a] IN
       IF ActiveSessions(L, a) = {}
       THEN \E s \in Absent(L.sessions) :
               Commit(a, WithSession(L, s, a, "active"),
                      {<<"session_started", s>>}, "announcing")
       ELSE Commit(a, L, {}, "storing")

\* heartbeat and close_session: any session found by id is accepted, so a
\* heartbeat makes a closed one active again.
SetSession(a, op, status, kind) ==
    /\ Running(a, op)
    /\ LET found == FoundSessions(draft[a], a, request[a].id) IN
       IF found = {} THEN Refuse(a)
       ELSE \E s \in found :
               Commit(a, WithSession(draft[a], s, a, status), {<<kind, s>>}, "saving")

Heartbeat(a)    == SetSession(a, "heartbeat", "active", "session_heartbeat")
CloseSession(a) == SetSession(a, "close", "closed", "session_closed")

\* claim_lease, after its expiry step: it reads the clock a second time.
ClaimLease(a) ==
    /\ Running(a, "claim")
    /\ LET L      == draft[a]
           r      == request[a].res
           until  == clock + request[a].ttl
           active == ActiveLeases(L, r)
       IN  IF active = {}
           THEN \E l \in Absent(L.leases) :
                   Commit(a, WithLease(L, l, r, a, until),
                          {<<"lease_claimed", l>>}, "saving")
           ELSE \E l \in active :
                   IF L.leases[l].owner # a THEN Refuse(a)
                   ELSE Commit(a, WithLease(L, l, r, a, until),
                               {<<"lease_renewed", l>>}, "saving")

RenewLease(a) ==
    /\ Running(a, "renew")
    /\ LET L     == draft[a]
           r     == request[a].res
           found == FoundLeases(L, r, request[a].id)
       IN  IF found = {} THEN Refuse(a)
           ELSE \E l \in found :
                   IF L.leases[l].owner # a THEN Refuse(a)
                   ELSE Commit(a, WithLease(L, l, r, a, clock + request[a].ttl),
                               {<<"lease_renewed", l>>}, "saving")

\* release_lease does not expire lapsed leases first: their owner may still
\* release one.
ReleaseLease(a) ==
    /\ Running(a, "release")
    /\ LET L     == draft[a]
           found == FoundLeases(L, request[a].res, request[a].id)
       IN  IF found = {} THEN Refuse(a)
           ELSE \E l \in found :
                   IF L.leases[l].owner # a THEN Refuse(a)
                   ELSE Commit(a, WithReleased(L, l), {<<"lease_released", l>>},
                               "saving")

AddHandoff(a) ==
    /\ Running(a, "handoff")
    /\ \E h \in {i \in HandoffIds : draft[a].handoffs[i] = None} :
          Commit(a, [draft[a] EXCEPT !.handoffs[h] = a],
                 {<<"handoff_added", h>>}, "saving")

\* save: a temporary file and a rename, one step for every reader.
Save(a) ==
    /\ pc[a] \in {"saving", "storing"}
    /\ ledger' = draft[a]
    /\ pc' = [pc EXCEPT ![a] = IF @ = "saving" THEN "appending" ELSE "returning"]
    /\ UNCHANGED <<events, lock, clock, request, draft, outbox, believes, crashes>>

\* append_events
Append(a) ==
    /\ pc[a] \in {"appending", "announcing"}
    /\ events' = events \cup outbox[a]
    /\ pc' = [pc EXCEPT ![a] = IF @ = "appending" THEN "returning" ELSE "storing"]
    /\ UNCHANGED <<ledger, lock, clock, request, draft, outbox, believes, crashes>>

\* What the response of a claim or a renewal tells its caller.
GrantedUntil(a) ==
    LET l == CHOOSE l \in ActiveLeases(draft[a], request[a].res) : TRUE
    IN  draft[a].leases[l].expires

Return(a) ==
    /\ pc[a] = "returning"
    /\ Leave(a, IF request[a].op \in {"claim", "renew"}
                THEN [believes EXCEPT ![a][request[a].res] = GrantedUntil(a)]
                ELSE believes)
    /\ UNCHANGED <<ledger, events, clock, crashes>>

\* commands/query.py records a forced write-back in the same events.jsonl, and
\* takes no lock to do it.
RecordForcedWriteback(a) ==
    /\ "forced_writeback" \in Ops
    /\ pc[a] = "idle"
    /\ events' = events \cup {<<"forced_writeback", None>>}
    /\ UNCHANGED <<ledger, lock, clock, pc, request, draft, outbox, believes, crashes>>

-----------------------------------------------------------------------------
(* The environment *)

\* The process of a dies.  What it was appending may have reached the file in
\* part; the agent itself goes on, with what it believed.
Crash(a) ==
    /\ crashes < MaxCrashes
    /\ pc[a] # "idle"
    /\ \E written \in IF pc[a] \in {"appending", "announcing"}
                      THEN SUBSET outbox[a] ELSE {{}} :
          events' = events \cup written
    /\ lock' = IF lock = a THEN None ELSE lock
    /\ Forget(a)
    /\ crashes' = crashes + 1
    /\ UNCHANGED <<ledger, clock, believes>>

Tick ==
    /\ clock < MaxClock
    /\ clock' = clock + 1
    /\ UNCHANGED <<ledger, events, lock, pc, request, draft, outbox, believes, crashes>>

SetBack ==
    /\ ClockMayRegress
    /\ clock > 0
    /\ clock' = clock - 1
    /\ UNCHANGED <<ledger, events, lock, pc, request, draft, outbox, believes, crashes>>

Operate(a) ==
    \/ StartSession(a) \/ Heartbeat(a)  \/ CloseSession(a)
    \/ ClaimLease(a)   \/ RenewLease(a) \/ ReleaseLease(a)
    \/ AddHandoff(a)

Proceed(a) == Operate(a) \/ Save(a) \/ Append(a) \/ Return(a)

Next ==
    \/ \E a \in Agents : \/ \E req \in Requests : Call(a, req)
                         \/ Enter(a)
                         \/ Proceed(a)
                         \/ RecordForcedWriteback(a)
                         \/ Crash(a)
    \/ Tick
    \/ SetBack

Spec == Init /\ [][Next]_vars

\* A process that holds the lock keeps running, and the kernel does not pass
\* over a blocked flock forever.
Fairness ==
    \A a \in Agents : WF_vars(Proceed(a)) /\ SF_vars(Enter(a))

FairSpec == Spec /\ Fairness

-----------------------------------------------------------------------------
(* Properties *)

\* Every variable keeps its type: state.json stays within its schema
\* (models.py), and every operation within its steps.
TypeOK ==
    /\ ledger \in Ledgers
    /\ events \subseteq Events
    /\ lock \in Agents \cup {None}
    /\ clock \in Nat
    /\ pc \in [Agents -> {"idle", "waiting"} \cup Critical]
    /\ request \in [Agents -> Requests \cup {NoRequest}]
    /\ draft \in [Agents -> Ledgers]
    /\ outbox \in [Agents -> SUBSET Events]
    /\ believes \in [Agents -> [Resources -> Nat]]
    /\ crashes \in Nat

\* spec 007 FR-011 and FR-012: a resource has at most one active lease, in the
\* file and in every state object an operation is about to save.
OneActiveIn(L) ==
    \A k, l \in LeaseIds :
        /\ L.leases[k].status = "active"
        /\ L.leases[l].status = "active"
        /\ L.leases[k].res = L.leases[l].res
        => k = l

OneActiveLease == OneActiveIn(ledger) /\ \A a \in Agents : OneActiveIn(draft[a])

\* What the leases are for: two agents never take themselves to own the same
\* resource at the same time, whatever answers were lost in a crash.
LeaseExclusion ==
    \A a, b \in Agents : \A r \in Resources :
        believes[a][r] > clock /\ believes[b][r] > clock => a = b

\* An event about a lease or a handoff is never ahead of the ledger: these
\* operations save before they append, so what the log says has happened.
EventsHappened ==
    /\ \A l \in LeaseIds :
          LET status == ledger.leases[l].status IN
          /\ <<"lease_claimed", l>> \in events => status # "absent"
          /\ <<"lease_released", l>> \in events => status = "released"
          /\ <<"lease_expired", l>> \in events => status = "expired"
    /\ \A h \in HandoffIds :
          <<"handoff_added", h>> \in events => ledger.handoffs[h] # None

\* start_session appends first: a session in the ledger has its
\* session_started event, even if processes died in the meantime.
SessionsAnnounced ==
    \A s \in SessionIds :
        ledger.sessions[s].status # "absent" => <<"session_started", s>> \in events

\* spec 007 FR-021 (audit and replay): while no process has died, the log tells
\* the fate of every lease and handoff whenever nobody holds the lock.
AuditComplete ==
    crashes = 0 /\ lock = None =>
        /\ \A l \in LeaseIds :
              LET status == ledger.leases[l].status IN
              /\ status # "absent" => <<"lease_claimed", l>> \in events
              /\ status = "released" => <<"lease_released", l>> \in events
              /\ status = "expired" => <<"lease_expired", l>> \in events
        /\ \A h \in HandoffIds :
              ledger.handoffs[h] # None => <<"handoff_added", h>> \in events

\* `status` and `lint` read state.json without the lock, between any two steps
\* of other operations, and judge expires_at by their own reading of the clock.
\* What they show is not against its holder: as long as a caller takes itself
\* to own a resource, status shows a lease of its own on it as active, and lint
\* does not report that lease as stale.
HoldersAreShown ==
    \A a \in Agents : \A r \in Resources : believes[a][r] > clock =>
        \E l \in LeaseIds :
            LET lease == ledger.leases[l] IN
            /\ lease.res = r /\ lease.owner = a
            /\ ViewedStatus(lease, clock) = "active"
            /\ l \notin StaleLeases(ledger, clock)

\* One step in the life of a lease, taken by the holder a of the lock: it is
\* claimed by a, renewed or released by its owner a, or expired.
LeaseEvolves(x, y, a) ==
    \/ y = x
    \/ x.status = "absent" /\ y.status = "active" /\ y.owner = a
    \/ /\ x.status = "active" /\ y.res = x.res /\ y.owner = x.owner
       /\ \/ y.status \in {"active", "released"} /\ x.owner = a
          \/ y.status = "expired" /\ y.expires = x.expires
             /\ (ClockMayRegress \/ x.expires <= clock)

\* Released and expired leases never change again, a lease never changes hands,
\* only its owner renews or releases it, and it expires only when its time has
\* come; all of it only under the lock.
LeaseLifecycle ==
    [][\A l \in LeaseIds :
          LeaseEvolves(ledger.leases[l], ledger'.leases[l], lock)]_vars

\* A session is only ever changed by the agent that started it.
SessionLifecycle ==
    [][\A s \in SessionIds :
          LET x == ledger.sessions[s]
              y == ledger'.sessions[s]
          IN  y # x => y.agent = lock /\ x.agent \in {None, lock}]_vars

\* docs/main.md: an agent does not get a second active session.  It does: its
\* late heartbeat for a closed session (by id) makes that one active again
\* beside the session it has started since.
OneActiveSession ==
    \A s, t \in SessionIds :
        /\ ledger.sessions[s].status = "active" /\ ledger.sessions[t].status = "active"
        /\ ledger.sessions[s].agent = ledger.sessions[t].agent
        => s = t

\* Every blocked caller is answered or dies: the lock is never left held, and
\* an operation never stops half way with it.
CallsAnswered ==
    \A a \in Agents : pc[a] # "idle" ~> pc[a] = "idle"

\* The ledger implements the lease registry.
HeldLease ==
    [r \in Resources |->
        IF ActiveLeases(ledger, r) = {} THEN None
        ELSE LET l == CHOOSE l \in ActiveLeases(ledger, r) : TRUE
             IN  [owner |-> ledger.leases[l].owner, until |-> ledger.leases[l].expires]]

Registry == INSTANCE LeaseRegistry WITH lease <- HeldLease

RegistrySpec == Registry!Spec

=============================================================================
