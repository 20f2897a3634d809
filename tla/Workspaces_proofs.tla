---------------------------- MODULE Workspaces_proofs ----------------------------
(* RegistryKept, for every value of the constants.                            *)
EXTENDS Workspaces, TLAPS

Registries == UNION {[I -> Records] : I \in SUBSET Ids}
Texts      == Registries \cup {None, Corrupt}

-----------------------------------------------------------------------------
(* The invariant *)

Shapes ==
    /\ DOMAIN proc = Procs /\ proc = [p \in Procs |-> proc[p]]
    /\ \A p \in Procs : DOMAIN proc[p] = DOMAIN Idle /\ proc[p].next \in Texts
    /\ heap \in [Inodes -> Texts]
    /\ dir \in [file : Inodes \cup {None}, tmp : Inodes \cup {None}]
    /\ time \in Nat
    /\ overlapped \in BOOLEAN

\* Names stand for different files, and only an update has a file open.
FilesApart ==
    /\ dir.tmp # None => dir.tmp # dir.file
    /\ \A p \in Procs : p \notin Updating => proc[p].inode = None
    /\ \A p \in Procs : proc[p].pc = "open" => proc[p].inode = None

Alone == \A p, q \in Updating : p = q

\* An update that has been alone will save what it was asked to make of the
\* registry that is still there, and has its file to itself.
Sound(p) ==
    /\ proc[p].op \in Updates
    /\ Registry \in Registries
    /\ ~Refused(Registry, proc[p].op)
    /\ \E now \in Nat : proc[p].next = Updated(Registry, proc[p].op, now)
    /\ proc[p].pc \in {"write", "replace"} => /\ dir.tmp # None
                                              /\ proc[p].inode = dir.tmp
    /\ proc[p].pc = "replace" => heap[dir.tmp] = proc[p].next

IInv ==
    /\ Shapes
    /\ FilesApart
    /\ ~overlapped => Alone /\ \A p \in Updating : Sound(p)

-----------------------------------------------------------------------------
(* What an update makes of a registry *)

\* What register and remove make of a registry is a registry.
LEMMA UpdatedIsRegistry ==
    ASSUME NEW r \in Registries, NEW op \in Updates, NEW now \in Nat
    PROVE  Updated(r, op, now) \in Registries
<1>1. PICK I \in SUBSET Ids : r \in [I -> Records]
  BY DEF Registries
<1>2. CASE op.kind = "register"
  <2>1. op.id \in Ids /\ op.ks_root \in Roots /\ op.note \in Notes \cup {None}
    BY <1>2 DEF Updates
  <2>2. Registered(r, op, now) \in Records
    <3>1. CASE op.id \in I
      <4>1. r[op.id] \in Records
        BY <1>1, <3>1
      <4> QED BY <1>1, <2>1, <3>1, <4>1 DEF Registered, Records
    <3>2. CASE op.id \notin I
      BY <1>1, <2>1, <3>2 DEF Registered, Records
    <3> QED BY <3>1, <3>2
  <2>3. Updated(r, op, now) \in [I \cup {op.id} -> Records]
    BY <1>1, <1>2, <2>2 DEF Updated
  <2> QED BY <2>1, <2>3 DEF Registries
<1>3. CASE op.kind = "remove"
  <2>1. Updated(r, op, now) \in [I \ {op.id} -> Records]
    BY <1>1, <1>3 DEF Updated, Removed
  <2> QED BY <2>1 DEF Registries
<1> QED BY <1>2, <1>3 DEF Updates

\* It keeps all that it was not asked to change.
LEMMA UpdatedKeeps ==
    ASSUME NEW r \in Registries, NEW op \in Updates, NEW now \in Nat, ~Refused(r, op)
    PROVE  Kept(op, r, Updated(r, op, now))
<1>1. PICK I \in SUBSET Ids : r \in [I -> Records]
  BY DEF Registries
<1>2. CASE op.kind = "register"
  <2>1. op.note \in Notes \cup {None} /\ op.force \in BOOLEAN
    BY <1>2 DEF Updates
  <2>2. /\ DOMAIN Updated(r, op, now) = I \cup {op.id}
        /\ Updated(r, op, now)[op.id] = Registered(r, op, now)
        /\ \A i \in I \ {op.id} : Updated(r, op, now)[i] = r[i]
    BY <1>1, <1>2 DEF Updated, Removed
  <2> QED BY <1>1, <1>2, <2>1, <2>2 DEF Kept, Registered, Refused
<1>3. CASE op.kind = "remove"
  <2>1. /\ DOMAIN Updated(r, op, now) = I \ {op.id}
        /\ \A i \in I \ {op.id} : Updated(r, op, now)[i] = r[i]
    BY <1>1, <1>3 DEF Updated, Removed
  <2> QED BY <1>1, <1>3, <2>1 DEF Kept
<1> QED BY <1>2, <1>3 DEF Updates

\* A registry is neither a missing file nor a text that cannot be read.
LEMMA RegistriesAreRead == \A r \in Registries : IsRegistry(r)
BY TextsAssumption DEF Registries, IsRegistry

LEMMA NoRecordsIsRegistry == NoRecords \in Registries
<1>1. NoRecords \in [{} -> Records]
  BY DEF NoRecords
<1> QED BY <1>1 DEF Registries

\* What the registry's file holds is a text.
LEMMA RegistryIsText ==
    ASSUME Shapes PROVE Registry \in Texts /\ (IsRegistry(Registry) => Registry \in Registries)
<1>1. Registry \in Texts
  BY NoRecordsIsRegistry DEF Shapes, Registry, Texts
<1> QED BY <1>1 DEF Texts, IsRegistry

-----------------------------------------------------------------------------
(* The invariant holds *)

\* At the start nothing is under way and no file is there.
LEMMA InitHolds == WsInit => IInv
<1> SUFFICES ASSUME WsInit PROVE IInv
  OBVIOUS
<1>1. Shapes
  BY DEF WsInit, Shapes, Texts, Idle
<1>2. Updating = {}
  BY DEF WsInit, Updating, Idle
<1>3. FilesApart /\ Alone
  BY <1>2 DEF WsInit, FilesApart, Alone, Idle
<1> QED BY <1>1, <1>2, <1>3 DEF IInv

\* The end of an update, or a step of a query, leaves the files, and the updates
\* of others, as they are.
LEMMA Leaving ==
    ASSUME IInv, NEW p \in Procs, NEW s, DOMAIN s = DOMAIN Idle,
           s.pc \notin {"open", "write", "replace"}, s.inode = None, s.next \in Texts,
           proc' = [proc EXCEPT ![p] = s],
           UNCHANGED <<dir, heap, time, overlapped>>
    PROVE  IInv' /\ Registry' = Registry
<1>1. Shapes /\ FilesApart
  BY DEF IInv
<1>2. proc'[p] = s /\ \A q \in Procs \ {p} : proc'[q] = proc[q]
  BY <1>1 DEF Shapes
<1>3. Shapes'
  BY <1>1, <1>2 DEF Shapes
<1>4. Updating' = Updating \ {p}
  BY <1>2 DEF Updating
<1>5. Registry' = Registry
  BY DEF Registry
<1>6. FilesApart'
  <2>1. \A q \in Procs : q \notin Updating' => proc'[q].inode = None
    BY <1>1, <1>2, <1>4 DEF FilesApart
  <2>2. \A q \in Procs : proc'[q].pc = "open" => proc'[q].inode = None
    BY <1>1, <1>2 DEF FilesApart
  <2> QED BY <1>1, <2>1, <2>2 DEF FilesApart
<1>7. ASSUME ~overlapped', NEW q \in Updating' PROVE Sound(q)'
  <2>1. q \in Updating /\ proc'[q] = proc[q]
    BY <1>2, <1>4, <1>7 DEF Updating
  <2>2. Sound(q)
    BY <1>7, <2>1 DEF IInv
  <2> QED BY <1>5, <2>1, <2>2 DEF Sound
<1>8. ~overlapped' => Alone'
  BY <1>4 DEF IInv, Alone
<1> QED BY <1>3, <1>5, <1>6, <1>7, <1>8 DEF IInv

\* An update that begins while another is under way is noticed; one that does not
\* has read the registry it will change.
LEMMA LoadHolds ==
    ASSUME IInv, NEW p \in Procs, NEW op \in Updates, Load(p, op)
    PROVE  IInv' /\ Registry' = Registry
<1>1. Shapes /\ FilesApart
  BY DEF IInv
<1>2. CASE UNCHANGED wsVars
  <2>1. Shapes' /\ FilesApart' /\ Registry' = Registry /\ Updating' = Updating
    BY <1>1, <1>2 DEF wsVars, Shapes, FilesApart, Registry, Updating
  <2>2. \A q \in Updating : Sound(q) => Sound(q)'
    BY <1>2, <2>1 DEF wsVars, Sound
  <2>3. Alone => Alone'
    BY <2>1 DEF Alone
  <2> QED BY <1>2, <2>1, <2>2, <2>3 DEF IInv, wsVars
<1>3. CASE ~UNCHANGED wsVars
  <2> DEFINE s == [Idle EXCEPT !.pc = "open", !.op = op,
                               !.next = Updated(Registry, op, time + 1)]
  <2>1. /\ proc[p].pc = "idle" /\ IsRegistry(Registry) /\ ~Refused(Registry, op)
        /\ proc' = [proc EXCEPT ![p] = s]
        /\ time' = time + 1
        /\ overlapped' = (overlapped \/ Updating # {})
        /\ UNCHANGED <<dir, heap, ready, count>>
    BY <1>3 DEF Load
  <2>2. /\ DOMAIN s = DOMAIN Idle /\ s.pc = "open" /\ s.op = op /\ s.inode = None
        /\ s.next = Updated(Registry, op, time + 1)
    BY DEF Idle
  <2> HIDE DEF s
  <2>3. proc'[p] = s /\ \A q \in Procs \ {p} : proc'[q] = proc[q]
    BY <1>1, <2>1 DEF Shapes
  <2>4. Shapes'
    <3>1. Updated(Registry, op, time + 1) \in Registries
      BY <1>1, <2>1, RegistryIsText, UpdatedIsRegistry DEF Shapes
    <3>2. time + 1 \in Nat
      BY <1>1 DEF Shapes
    <3> QED BY <1>1, <2>1, <2>2, <2>3, <3>1, <3>2 DEF Shapes, Texts
  <2>5. Updating' = Updating \cup {p}
    BY <2>2, <2>3 DEF Updating
  <2>6. Registry' = Registry
    BY <2>1 DEF Registry
  <2>7. FilesApart'
    <3>1. \A q \in Procs : q \notin Updating' => proc'[q].inode = None
      BY <1>1, <2>3, <2>5 DEF FilesApart
    <3>2. \A q \in Procs : proc'[q].pc = "open" => proc'[q].inode = None
      BY <1>1, <2>2, <2>3 DEF FilesApart
    <3> QED BY <1>1, <2>1, <3>1, <3>2 DEF FilesApart
  <2>8. ASSUME ~overlapped' PROVE Alone' /\ \A q \in Updating' : Sound(q)'
    <3>1. Updating' = {p}
      BY <2>1, <2>5, <2>8
    <3>2. Registry \in Registries
      BY <1>1, <2>1, RegistryIsText
    <3>3. time + 1 \in Nat
      BY <1>1 DEF Shapes
    <3>4. Sound(p)'
      BY <2>1, <2>2, <2>3, <2>6, <3>2, <3>3 DEF Sound
    <3> QED BY <3>1, <3>4 DEF Alone
  <2> QED BY <2>4, <2>6, <2>7, <2>8 DEF IInv
<1> QED BY <1>2, <1>3

\* The temporary file is not the registry.
LEMMA OpenTempHolds ==
    ASSUME IInv, NEW p \in Procs, OpenTemp(p)
    PROVE  IInv' /\ Registry' = Registry
<1>1. Shapes /\ FilesApart
  BY DEF IInv
<1>2. PICK i \in IF dir.tmp # None THEN {dir.tmp} ELSE Free :
         /\ dir' = [dir EXCEPT !.tmp = i]
         /\ heap' = [heap EXCEPT ![i] = Corrupt]
         /\ proc' = [proc EXCEPT ![p].pc = "write", ![p].inode = i]
  BY DEF OpenTemp
<1>3. proc[p].pc = "open" /\ UNCHANGED <<ready, time, count, overlapped>>
  BY DEF OpenTemp
<1>4. i \in Inodes /\ i # dir.file /\ i # None
  <2>1. CASE dir.tmp # None
    BY <1>1, <1>2, <2>1 DEF Shapes, FilesApart
  <2>2. CASE dir.tmp = None
    <3>1. i \in Inodes /\ i # dir.file
      BY <1>2, <2>2 DEF Free
    <3> QED BY <3>1, WorkspacesAssumption
  <2> QED BY <2>1, <2>2
<1>5. /\ dir'.file = dir.file /\ dir'.tmp = i
      /\ dir' \in [file : Inodes \cup {None}, tmp : Inodes \cup {None}]
  BY <1>1, <1>2, <1>4 DEF Shapes
<1>6. heap' \in [Inodes -> Texts] /\ \A j \in Inodes \ {i} : heap'[j] = heap[j]
  BY <1>1, <1>2, <1>4 DEF Shapes, Texts
<1>7. /\ DOMAIN proc' = Procs /\ proc' = [q \in Procs |-> proc'[q]]
      /\ \A q \in Procs \ {p} : proc'[q] = proc[q]
  BY <1>1, <1>2 DEF Shapes
<1>8. /\ DOMAIN proc'[p] = DOMAIN Idle
      /\ proc'[p].pc = "write" /\ proc'[p].inode = i
      /\ proc'[p].op = proc[p].op /\ proc'[p].next = proc[p].next
  <2>1. DOMAIN proc[p] = {"pc", "op", "next", "inode", "ks_root"}
    BY <1>1 DEF Shapes, Idle
  <2>2. proc'[p] = [proc[p] EXCEPT !.pc = "write", !.inode = i]
    BY <1>1, <1>2 DEF Shapes
  <2> QED BY <2>1, <2>2 DEF Idle
<1>9. Shapes'
  BY <1>1, <1>3, <1>5, <1>6, <1>7, <1>8 DEF Shapes
<1>10. Registry' = Registry
  BY <1>1, <1>4, <1>5, <1>6 DEF Registry, Shapes
<1>11. Updating' = Updating /\ p \in Updating
  BY <1>3, <1>7, <1>8 DEF Updating
<1>12. FilesApart'
  <2>1. \A q \in Procs : q \notin Updating' => proc'[q].inode = None
    BY <1>1, <1>7, <1>11 DEF FilesApart
  <2>2. \A q \in Procs : proc'[q].pc = "open" => proc'[q].inode = None
    BY <1>1, <1>7, <1>8 DEF FilesApart
  <2> QED BY <1>4, <1>5, <2>1, <2>2 DEF FilesApart
<1>13. ASSUME ~overlapped' PROVE Alone' /\ \A q \in Updating' : Sound(q)'
  <2>1. Alone /\ Sound(p)
    BY <1>3, <1>11, <1>13 DEF IInv
  <2>2. Updating' = {p}
    BY <1>11, <2>1 DEF Alone
  <2>3. Sound(p)'
    BY <1>4, <1>5, <1>8, <1>10, <2>1 DEF Sound
  <2> QED BY <2>2, <2>3 DEF Alone
<1> QED BY <1>9, <1>10, <1>12, <1>13 DEF IInv

\* An update that is alone writes its text, whole, into the temporary file.
LEMMA WriteTempHolds ==
    ASSUME IInv, NEW p \in Procs, WriteTemp(p)
    PROVE  IInv' /\ (~overlapped' => Registry' = Registry)
<1>1. Shapes /\ FilesApart
  BY DEF IInv
<1> DEFINE i == proc[p].inode
<1>2. PICK text \in {proc[p].next} \cup {Corrupt : q \in {q \in Procs \ {p} : proc[q].inode = i}} :
         heap' = [heap EXCEPT ![i] = text]
  BY DEF WriteTemp
<1>3. /\ proc[p].pc = "write"
      /\ proc' = [proc EXCEPT ![p].pc = "replace"]
      /\ UNCHANGED <<dir, ready, time, count, overlapped>>
  BY DEF WriteTemp
<1>4. /\ DOMAIN proc' = Procs /\ proc' = [q \in Procs |-> proc'[q]]
      /\ \A q \in Procs \ {p} : proc'[q] = proc[q]
  BY <1>1, <1>3 DEF Shapes
<1>5. /\ DOMAIN proc'[p] = DOMAIN Idle
      /\ proc'[p].pc = "replace" /\ proc'[p].inode = i
      /\ proc'[p].op = proc[p].op /\ proc'[p].next = proc[p].next
  <2>1. DOMAIN proc[p] = {"pc", "op", "next", "inode", "ks_root"}
    BY <1>1 DEF Shapes, Idle
  <2>2. proc'[p] = [proc[p] EXCEPT !.pc = "replace"]
    BY <1>1, <1>3 DEF Shapes
  <2> QED BY <2>1, <2>2 DEF Idle
<1>6. Updating' = Updating /\ p \in Updating
  BY <1>3, <1>4, <1>5 DEF Updating
<1>7. FilesApart'
  <2>1. \A q \in Procs : q \notin Updating' => proc'[q].inode = None
    BY <1>1, <1>4, <1>6 DEF FilesApart
  <2>2. \A q \in Procs : proc'[q].pc = "open" => proc'[q].inode = None
    BY <1>1, <1>4, <1>5 DEF FilesApart
  <2> QED BY <1>1, <1>3, <2>1, <2>2 DEF FilesApart
<1>8. Shapes'
  <2>1. text \in Texts
    BY <1>1, <1>2 DEF Shapes, Texts
  <2>2. heap' \in [Inodes -> Texts]
    BY <1>1, <1>2, <2>1 DEF Shapes
  <2> QED BY <1>1, <1>3, <1>4, <1>5, <2>2 DEF Shapes
<1>9. ASSUME ~overlapped'
      PROVE  Registry' = Registry /\ Alone' /\ \A q \in Updating' : Sound(q)'
  <2>1. Alone /\ Sound(p)
    BY <1>3, <1>6, <1>9 DEF IInv
  <2>2. i = dir.tmp /\ i # None /\ i # dir.file /\ i \in Inodes
    BY <1>1, <1>3, <2>1 DEF Sound, FilesApart, Shapes
  <2>3. \A q \in Procs \ {p} : proc[q].inode # i
    BY <1>1, <1>6, <2>1, <2>2 DEF Alone, FilesApart
  <2>4. heap'[i] = proc[p].next /\ \A j \in Inodes \ {i} : heap'[j] = heap[j]
    BY <1>1, <1>2, <2>2, <2>3 DEF Shapes
  <2>5. Registry' = Registry
    BY <1>1, <1>3, <2>2, <2>4 DEF Registry, Shapes
  <2>6. Updating' = {p}
    BY <1>6, <2>1 DEF Alone
  <2>7. Sound(p)'
    BY <1>3, <1>5, <2>1, <2>2, <2>4, <2>5 DEF Sound
  <2> QED BY <2>5, <2>6, <2>7 DEF Alone
<1> QED BY <1>7, <1>8, <1>9 DEF IInv

\* The text of an update that has been alone becomes the registry, whole, and is
\* what the update was to make of the one before; what is left of an update that
\* was not alone ends with it.
LEMMA ReplaceHolds ==
    ASSUME IInv, NEW p \in Procs, Replace(p)
    PROVE  /\ IInv'
           /\ Registry' # Registry /\ ~overlapped' =>
                 /\ IsRegistry(Registry) /\ IsRegistry(Registry')
                 /\ p \in Updating /\ Kept(proc[p].op, Registry, Registry')
<1>1. Shapes /\ FilesApart
  BY DEF IInv
<1>2. /\ proc[p].pc = "replace"
      /\ proc' = [proc EXCEPT ![p] = Idle]
      /\ UNCHANGED <<ready, time, count, overlapped>>
  BY DEF Replace
<1>3. p \in Updating
  BY <1>2 DEF Updating
<1>4. proc'[p] = Idle /\ \A q \in Procs \ {p} : proc'[q] = proc[q]
  BY <1>1, <1>2 DEF Shapes
<1>5. Idle.pc = "idle" /\ Idle.inode = None /\ Idle.next \in Texts
  BY DEF Idle, Texts
<1>6. CASE dir.tmp = None
  <2>1. UNCHANGED <<dir, heap>>
    BY <1>6 DEF Replace
  <2>2. IInv' /\ Registry' = Registry
    BY <1>2, <1>5, <2>1, Leaving
  <2> QED BY <2>2
<1>7. CASE dir.tmp # None
  <2>1. /\ dir' = [file |-> dir.tmp, tmp |-> None]
        /\ heap' = [i \in Inodes |->
                       IF i = dir.file /\ \A q \in Procs \ {p} : proc[q].inode # i
                       THEN None ELSE heap[i]]
    BY <1>7 DEF Replace
  <2>2. /\ dir.tmp \in Inodes /\ dir'.file = dir.tmp /\ dir'.tmp = None
        /\ heap'[dir.tmp] = heap[dir.tmp]
    BY <1>1, <1>7, <2>1 DEF Shapes, FilesApart
  <2>3. Registry' = heap[dir.tmp]
    BY <1>7, <2>2 DEF Registry
  <2>4. Updating' = Updating \ {p}
    BY <1>4, <1>5 DEF Updating
  <2>5. Shapes'
    <3>1. heap' \in [Inodes -> Texts]
      BY <1>1, <2>1 DEF Shapes, Texts
    <3>2. dir' \in [file : Inodes \cup {None}, tmp : Inodes \cup {None}]
      BY <2>1, <2>2
    <3> QED BY <1>1, <1>2, <1>4, <1>5, <3>1, <3>2 DEF Shapes
  <2>6. FilesApart'
    <3>1. \A q \in Procs : q \notin Updating' => proc'[q].inode = None
      BY <1>1, <1>4, <1>5, <2>4 DEF FilesApart
    <3>2. \A q \in Procs : proc'[q].pc = "open" => proc'[q].inode = None
      BY <1>1, <1>4, <1>5 DEF FilesApart
    <3> QED BY <2>2, <3>1, <3>2 DEF FilesApart
  <2>7. ~overlapped' => Alone' /\ \A q \in Updating' : Sound(q)'
    <3>1. ~overlapped' => Updating' = {}
      BY <1>2, <1>3, <2>4 DEF IInv, Alone
    <3> QED BY <3>1 DEF Alone
  <2>8. ASSUME ~overlapped'
        PROVE  /\ IsRegistry(Registry) /\ IsRegistry(Registry')
               /\ Kept(proc[p].op, Registry, Registry')
    <3>1. Sound(p)
      BY <1>2, <1>3, <2>8 DEF IInv
    <3>2. PICK now \in Nat : proc[p].next = Updated(Registry, proc[p].op, now)
      BY <3>1 DEF Sound
    <3>3. Registry' = Updated(Registry, proc[p].op, now)
      BY <1>2, <2>3, <3>1, <3>2 DEF Sound
    <3>4. proc[p].op \in Updates /\ Registry \in Registries /\ ~Refused(Registry, proc[p].op)
      BY <3>1 DEF Sound
    <3>5. Updated(Registry, proc[p].op, now) \in Registries
      BY <3>4, UpdatedIsRegistry
    <3>6. Kept(proc[p].op, Registry, Updated(Registry, proc[p].op, now))
      BY <3>4, UpdatedKeeps
    <3> QED BY <3>3, <3>4, <3>5, <3>6, RegistriesAreRead
  <2> QED BY <1>3, <2>5, <2>6, <2>7, <2>8 DEF IInv
<1> QED BY <1>6, <1>7

\* Only while no update is under way is the registry spoilt.
LEMMA SpoilHolds == ASSUME IInv, Spoil PROVE IInv'
<1>1. Shapes /\ FilesApart
  BY DEF IInv
<1>2. /\ Updating = {} /\ heap' = [heap EXCEPT ![dir.file] = Corrupt]
      /\ UNCHANGED <<dir, proc, ready, time, overlapped>>
  BY DEF Spoil
<1>3. Updating' = Updating
  BY <1>2 DEF Updating
<1>4. Shapes'
  <2>1. heap' \in [Inodes -> Texts]
    BY <1>1, <1>2 DEF Shapes, Texts
  <2> QED BY <1>1, <1>2, <2>1 DEF Shapes
<1>5. FilesApart'
  BY <1>1, <1>2, <1>3 DEF FilesApart
<1> QED BY <1>2, <1>3, <1>4, <1>5 DEF IInv, Alone

\* What touches neither the files nor a process changes nothing of this.
LEMMA QuietHolds ==
    ASSUME IInv, UNCHANGED <<dir, heap, proc, time, overlapped>>
    PROVE  IInv' /\ Registry' = Registry
<1>1. Registry' = Registry /\ Updating' = Updating
  BY DEF Registry, Updating
<1>2. Shapes' /\ FilesApart'
  BY <1>1 DEF IInv, Shapes, FilesApart
<1>3. \A q \in Updating : Sound(q) => Sound(q)'
  BY <1>1 DEF Sound
<1>4. Alone => Alone'
  BY <1>1 DEF Alone
<1> QED BY <1>1, <1>2, <1>3, <1>4 DEF IInv

-----------------------------------------------------------------------------

KeptStep ==
    Registry' # Registry /\ ~overlapped' /\ ~Spoil =>
        /\ IsRegistry(Registry) /\ IsRegistry(Registry')
        /\ \E p \in Updating : Kept(proc[p].op, Registry, Registry')

LEMMA StepHolds == IInv /\ [WsNext]_wsVars => IInv' /\ KeptStep
<1> SUFFICES ASSUME IInv, [WsNext]_wsVars PROVE IInv' /\ KeptStep
  OBVIOUS
<1>1. CASE UNCHANGED wsVars
  <2>1. IInv' /\ Registry' = Registry
    BY <1>1, QuietHolds DEF wsVars
  <2> QED BY <2>1 DEF KeptStep
<1>2. ASSUME NEW p \in Procs, NEW op \in Updates, Load(p, op) PROVE IInv' /\ KeptStep
  BY <1>2, LoadHolds DEF KeptStep
<1>3. ASSUME NEW p \in Procs, OpenTemp(p) PROVE IInv' /\ KeptStep
  BY <1>3, OpenTempHolds DEF KeptStep
<1>4. ASSUME NEW p \in Procs, WriteTemp(p) PROVE IInv' /\ KeptStep
  BY <1>4, WriteTempHolds DEF KeptStep
<1>5. ASSUME NEW p \in Procs, Replace(p) PROVE IInv' /\ KeptStep
  BY <1>5, ReplaceHolds DEF KeptStep
<1>6. ASSUME NEW p \in Procs,
             Kill(p) \/ Judge(p) \/ Use(p) \/ Query(p) \/ \E op \in Calls : Lookup(p, op)
      PROVE  IInv' /\ KeptStep
  <2> DEFINE s == proc'[p]
  <2>1. Shapes /\ FilesApart
    BY DEF IInv
  <2>2. DOMAIN proc[p] = DOMAIN Idle /\ DOMAIN Idle = {"pc", "op", "next", "inode", "ks_root"}
    BY <2>1 DEF Shapes, Idle
  <2>3. UNCHANGED <<dir, heap, time, overlapped>>
    BY <1>6 DEF Kill, Judge, Use, Query, Lookup
  <2>4. /\ proc' = [proc EXCEPT ![p] = s] /\ DOMAIN s = DOMAIN Idle
        /\ s.pc \notin {"open", "write", "replace"} /\ s.inode = None /\ s.next \in Texts
    <3>1. CASE Kill(p) \/ Use(p) \/ Query(p)
      <4>1. proc' = [proc EXCEPT ![p] = Idle]
        BY <3>1 DEF Kill, Use, Query
      <4> QED BY <2>1, <4>1 DEF Shapes, Idle, Texts
    <3>2. ASSUME NEW op \in Calls, Lookup(p, op)
          PROVE  /\ proc' = [proc EXCEPT ![p] = s] /\ DOMAIN s = DOMAIN Idle
                 /\ s.pc \notin {"open", "write", "replace"} /\ s.inode = None
                 /\ s.next \in Texts
      <4> DEFINE t == [Idle EXCEPT !.pc = "judge", !.op = op.kind,
                                   !.ks_root = Registry[op.id].ks_root]
      <4>1. proc' = [proc EXCEPT ![p] = t]
        BY <3>2 DEF Lookup
      <4>2. DOMAIN t = DOMAIN Idle /\ t.pc = "judge" /\ t.inode = None /\ t.next = None
        BY DEF Idle
      <4> HIDE DEF t
      <4> QED BY <2>1, <4>1, <4>2 DEF Shapes, Texts
    <3>3. CASE Judge(p)
      <4>1. proc[p].pc = "judge" /\ proc[p].inode = None /\ proc[p].next \in Texts
        BY <2>1, <3>3 DEF Judge, FilesApart, Updating, Shapes
      <4>2. proc' = [proc EXCEPT ![p] = [proc[p] EXCEPT !.pc = "query"]]
            \/ proc' = [proc EXCEPT ![p] = Idle]
        BY <2>1, <3>3 DEF Judge, Shapes
      <4>3. CASE proc' = [proc EXCEPT ![p] = Idle]
        BY <2>1, <4>3 DEF Shapes, Idle, Texts
      <4>4. CASE proc' = [proc EXCEPT ![p] = [proc[p] EXCEPT !.pc = "query"]]
        <5> DEFINE t == [proc[p] EXCEPT !.pc = "query"]
        <5>1. /\ DOMAIN t = DOMAIN Idle /\ t.pc = "query" /\ t.inode = proc[p].inode
              /\ t.next = proc[p].next
          BY <2>2
        <5>2. proc' = [proc EXCEPT ![p] = t]
          BY <4>4
        <5> HIDE DEF t
        <5> QED BY <2>1, <4>1, <5>1, <5>2 DEF Shapes
      <4> QED BY <4>2, <4>3, <4>4
    <3> QED BY <1>6, <3>1, <3>2, <3>3
  <2> HIDE DEF s
  <2>5. IInv' /\ Registry' = Registry
    BY <2>3, <2>4, Leaving
  <2> QED BY <2>5 DEF KeptStep
<1>7. CASE Spoil
  BY <1>7, SpoilHolds DEF KeptStep
<1>8. ASSUME NEW r \in Roots, Change(r) PROVE IInv' /\ KeptStep
  <2>1. IInv' /\ Registry' = Registry
    BY <1>8, QuietHolds DEF Change
  <2> QED BY <2>1 DEF KeptStep
<1> QED BY <1>1, <1>2, <1>3, <1>4, <1>5, <1>6, <1>7, <1>8 DEF WsNext

\* As long as no two updates have been under way at once, the registry is changed
\* by one update at a time, which changes what it was asked to and nothing else,
\* whatever was killed in between (register_workspace, atomic_write).
THEOREM RegistryIsKept == WsSpec => RegistryKept
<1>1. IInv /\ [WsNext]_wsVars => IInv'
  BY StepHolds
<1>2. IInv /\ [WsNext]_wsVars => [KeptStep]_wsVars
  BY StepHolds
<1>3. RegistryKept <=> [][KeptStep]_wsVars
  BY DEF RegistryKept, KeptStep
<1> QED BY <1>1, <1>2, <1>3, InitHolds, PTL DEF WsSpec

====================================================================================
