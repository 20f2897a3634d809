------------------------------- MODULE Workspaces -------------------------------
(***************************************************************************)
(* The registry of workspaces (hks.workspace): a file outside of every     *)
(* runtime that names their roots.  Commands load it, change it and save   *)
(* it anew, without a lock, through one temporary file beside it; others   *)
(* look a workspace up, judge its root and query it.                       *)
(***************************************************************************)
EXTENDS Integers, FiniteSets

CONSTANTS
    Procs,          \* the processes that run workspace commands
    Ids, Roots,     \* workspace ids, and the roots they may name
    Notes,          \* labels, tags and metadata a record may be given
    Inodes,         \* the files that the names of registry and temp file stand for
    None,           \* no value
    Corrupt,        \* a text that is not a registry of the supported version
    MaxUpdates, MaxKills, MaxUpsets     \* bounds

ASSUME WorkspacesAssumption ==
    /\ {None, Corrupt} \cap (Ids \cup Roots \cup Notes \cup Inodes) = {}
    /\ None # Corrupt
    /\ {MaxUpdates, MaxKills, MaxUpsets} \subseteq Nat

\* WorkspaceRecord; a registry holds records by id.
Records == [ks_root : Roots, note : Notes \cup {None}, created_at : Nat]

\* No file, and what is not a registry, are told from every registry.
ASSUME TextsAssumption ==
    \A I \in SUBSET Ids : None \notin [I -> Records] /\ Corrupt \notin [I -> Records]

VARIABLES
    dir,        \* the inodes of workspaces.json and of its temporary file
    heap,       \* what each inode holds
    proc,       \* where each process stands
    ready,      \* the roots that exist and have a manifest that can be read
    time,       \* of the last update
    count,      \* kills and upsets so far
    overlapped  \* whether two updates were ever under way at once

wsVars == <<dir, heap, proc, ready, time, count, overlapped>>

NoRecords == [i \in {} |-> None]
IsRegistry(text) == text # None /\ text # Corrupt

Updates == [kind : {"register"}, id : Ids, ks_root : Roots, note : Notes \cup {None},
            force : BOOLEAN]
           \cup [kind : {"remove"}, id : Ids]
Calls   == [kind : {"use"}, id : Ids, ks_root : {None}]
           \cup [kind : {"query"}, id : Ids, ks_root : Roots \cup {None}]

Idle == [pc |-> "idle", op |-> None, next |-> None, inode |-> None, ks_root |-> None]

WsInit ==
    /\ dir = [file |-> None, tmp |-> None]
    /\ heap = [i \in Inodes |-> None]
    /\ proc = [p \in Procs |-> Idle]
    /\ ready = {}
    /\ time = 0
    /\ count = [kills |-> 0, upsets |-> 0]
    /\ overlapped = FALSE

-----------------------------------------------------------------------------
(* register_workspace, remove_workspace *)

\* load_registry: no file is an empty registry.
Registry == IF dir.file = None THEN NoRecords ELSE heap[dir.file]

Updating == {p \in Procs : proc[p].pc \in {"open", "write", "replace"}}

\* Variant: a root that is registered already is replaced without being forced.
Refused_Never(registry, op) == op.kind = "remove" /\ op.id \notin DOMAIN registry

\* WORKSPACE_CONFLICT, WORKSPACE_NOT_FOUND
Refused(registry, op) ==
    IF op.kind = "register"
    THEN /\ op.id \in DOMAIN registry
         /\ registry[op.id].ks_root # op.ks_root
         /\ ~op.force
    ELSE op.id \notin DOMAIN registry

\* What is not given is kept, or set to a default (None).
Registered(registry, op, now) ==
    LET known == op.id \in DOMAIN registry IN
    [ks_root    |-> op.ks_root,
     note       |-> IF op.note # None THEN op.note
                    ELSE IF known THEN registry[op.id].note ELSE None,
     created_at |-> IF known THEN registry[op.id].created_at ELSE now]

Removed(registry, op) == [i \in DOMAIN registry \ {op.id} |-> registry[i]]

Updated(registry, op, now) ==
    IF op.kind = "register"
    THEN [i \in DOMAIN registry \cup {op.id} |->
             IF i = op.id THEN Registered(registry, op, now) ELSE registry[i]]
    ELSE Removed(registry, op)

\* A registry that cannot be read, and an update that is refused, end the command.
Load(p, op) ==
    /\ proc[p].pc = "idle"
    /\ \/ /\ IsRegistry(Registry) => Refused(Registry, op)
          /\ UNCHANGED wsVars
       \/ /\ IsRegistry(Registry) /\ ~Refused(Registry, op)
          /\ time < MaxUpdates
          /\ proc' = [proc EXCEPT ![p] =
                         [Idle EXCEPT !.pc = "open", !.op = op,
                                      !.next = Updated(Registry, op, time + 1)]]
          /\ time' = time + 1
          /\ overlapped' = (overlapped \/ Updating # {})
          /\ UNCHANGED <<dir, heap, ready, count>>

\* An inode that no name and no process refers to.
Free == Inodes \ ({dir.file, dir.tmp} \cup {proc[p].inode : p \in Procs})

\* atomic_write opens the temporary file, which empties it if it is there ...
OpenTemp(p) ==
    /\ proc[p].pc = "open"
    /\ \E i \in IF dir.tmp # None THEN {dir.tmp} ELSE Free :
          /\ dir' = [dir EXCEPT !.tmp = i]
          /\ heap' = [heap EXCEPT ![i] = Corrupt]
          /\ proc' = [proc EXCEPT ![p].pc = "write", ![p].inode = i]
    /\ UNCHANGED <<ready, time, count, overlapped>>

\* ... writes its text, beside which a longer one of another process may stay ...
WriteTemp(p) ==
    /\ proc[p].pc = "write"
    /\ LET i == proc[p].inode IN
       \E text \in {proc[p].next} \cup
                    {Corrupt : q \in {q \in Procs \ {p} : proc[q].inode = i}} :
          heap' = [heap EXCEPT ![i] = text]
    /\ proc' = [proc EXCEPT ![p].pc = "replace"]
    /\ UNCHANGED <<dir, ready, time, count, overlapped>>

\* ... and gives whatever has the temporary name the name of the registry, whose
\* former file is gone; if another process was first, this raises.
Replace(p) ==
    /\ proc[p].pc = "replace"
    /\ IF dir.tmp = None THEN UNCHANGED <<dir, heap>>
       ELSE /\ dir' = [file |-> dir.tmp, tmp |-> None]
            /\ heap' = [i \in Inodes |->
                           IF i = dir.file /\ \A q \in Procs \ {p} : proc[q].inode # i
                           THEN None ELSE heap[i]]
    /\ proc' = [proc EXCEPT ![p] = Idle]
    /\ UNCHANGED <<ready, time, count, overlapped>>

-----------------------------------------------------------------------------
(* use_workspace, query_workspace *)

\* get_workspace: the registry is read, and the record with it.  An id and an
\* explicit root that differ are refused before the root is looked at ...
Lookup(p, op) ==
    /\ proc[p].pc = "idle"
    /\ IsRegistry(Registry) /\ op.id \in DOMAIN Registry
    /\ op.ks_root \in {None, Registry[op.id].ks_root}
    /\ proc' = [proc EXCEPT ![p] =
                   [Idle EXCEPT !.pc = "judge", !.op = op.kind,
                                !.ks_root = Registry[op.id].ks_root]]
    /\ UNCHANGED <<dir, heap, ready, time, count, overlapped>>

\* _workspace_status: a query goes on if the root is ready; one that two records
\* share is as ready as any other.
Judge(p) ==
    /\ proc[p].pc = "judge" /\ proc[p].op = "query"
    /\ proc' = [proc EXCEPT ![p] =
                   IF @.ks_root \in ready THEN [@ EXCEPT !.pc = "query"] ELSE Idle]
    /\ UNCHANGED <<dir, heap, ready, time, count, overlapped>>

\* `use` only answers whether it is ready, with the root it was registered with.
Use(p) ==
    /\ proc[p].pc = "judge" /\ proc[p].op = "use"
    /\ proc' = [proc EXCEPT ![p] = Idle]
    /\ UNCHANGED <<dir, heap, ready, time, count, overlapped>>

\* The query runs in the root of the record, whatever has become of it by now.
Query(p) ==
    /\ proc[p].pc = "query"
    /\ proc' = [proc EXCEPT ![p] = Idle]
    /\ UNCHANGED <<dir, heap, ready, time, count, overlapped>>

-----------------------------------------------------------------------------
(* The environment *)

Kill(p) ==
    /\ p \in Updating
    /\ count.kills < MaxKills
    /\ proc' = [proc EXCEPT ![p] = Idle]
    /\ count' = [count EXCEPT !.kills = @ + 1]
    /\ UNCHANGED <<dir, heap, ready, time, overlapped>>

\* The registry is spoilt by hand, while no command is changing it.
Spoil ==
    /\ Updating = {} /\ dir.file # None
    /\ count.upsets < MaxUpsets
    /\ heap' = [heap EXCEPT ![dir.file] = Corrupt]
    /\ count' = [count EXCEPT !.upsets = @ + 1]
    /\ UNCHANGED <<dir, proc, ready, time, overlapped>>

\* A runtime is made, lost or spoilt.
Change(r) ==
    /\ count.upsets < MaxUpsets
    /\ ready' = IF r \in ready THEN ready \ {r} ELSE ready \cup {r}
    /\ count' = [count EXCEPT !.upsets = @ + 1]
    /\ UNCHANGED <<dir, heap, proc, time, overlapped>>

WsNext ==
    \/ \E p \in Procs :
          \/ \E op \in Updates : Load(p, op)
          \/ OpenTemp(p) \/ WriteTemp(p) \/ Replace(p)
          \/ \E op \in Calls : Lookup(p, op)
          \/ Judge(p) \/ Use(p) \/ Query(p)
          \/ Kill(p)
    \/ Spoil
    \/ \E r \in Roots : Change(r)

WsSpec == WsInit /\ [][WsNext]_wsVars

-----------------------------------------------------------------------------
(* Properties *)

\* One registry is the other after this update: the record it names is as it
\* was asked for, with its first date, and with another root than before only if
\* that was forced; every other record is as it was.
Kept(op, before, after) ==
    /\ \A i \in (DOMAIN before \cup DOMAIN after) \ {op.id} :
          i \in DOMAIN before /\ i \in DOMAIN after /\ after[i] = before[i]
    /\ IF op.kind = "remove" THEN op.id \notin DOMAIN after
       ELSE /\ op.id \in DOMAIN after
            /\ after[op.id].ks_root = op.ks_root
            /\ op.note # None => after[op.id].note = op.note
            /\ op.id \in DOMAIN before =>
                  /\ after[op.id].created_at = before[op.id].created_at
                  /\ op.note = None => after[op.id].note = before[op.id].note
                  /\ before[op.id].ks_root = op.ks_root \/ op.force

\* As long as no two updates have been under way at once, what the registry
\* holds changes only from one registry that can be read to another, by one
\* update that was asked for, also where processes were killed before they had
\* saved; one that was spoilt is left as it is (012 spec.md:106, FR-010).
RegistryKept ==
    [][Registry' # Registry /\ ~overlapped' /\ ~Spoil =>
          /\ IsRegistry(Registry) /\ IsRegistry(Registry')
          /\ \E p \in Updating : Kept(proc[p].op, Registry, Registry')]_wsVars

\* "Registry writes are atomic" (012 data-model.md:80): a command never replaces
\* the registry by something that cannot be read.  Of two updates that overlap, one
\* may publish the temporary file that the other has just emptied, or half written.
WritesAreAtomic ==
    [][Registry' # Registry /\ ~Spoil => IsRegistry(Registry')]_wsVars

=================================================================================
