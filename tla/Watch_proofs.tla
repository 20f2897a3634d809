----------------------------- MODULE Watch_proofs -----------------------------
(***************************************************************************)
(* Proofs about Watch, for any processes, files, roots and calls: bounded  *)
(* runs exclude each other; latest.json never points at what cannot be     *)
(* loaded; a run changes only what its plan says, what it reports has      *)
(* happened, and graphify follows its ingests.                             *)
(***************************************************************************)
EXTENDS Watch, SequenceTheorems, WellFoundedInduction, TLAPS

-----------------------------------------------------------------------------
(* The inductive invariant *)

\* Where a process has saved its plan, and is not an ingest of its own.
Saved == {"planpointer", "plantmp", "planwrite", "planreplace", "rescan", "graphify",
          "saverun", "runpointer", "runtmp", "runwrite", "runreplace"}

\* Where a process has made the pointer that it is to write.
Pointing == {"plantmp", "planwrite", "runpointer", "runtmp", "runwrite"}

Executing == {"list", "lock", "ingest"}

\* A pointer that was made for latest.json.
Loadable(pointer) ==
    /\ pointer.plan # None => pointer.plan \in plans
    /\ pointer.run \in Nat /\ pointer.run <= Len(runs)

\* What p must have done to stand where it stands.
Earned(p) ==
    /\ Working(p) => lock.watch = p
    /\ job[p].pc \in Saved => job[p].plan \in plans
    /\ job[p].pc \in Executing /\ job[p].call.op # "ingest" => job[p].plan \in plans
    /\ job[p].pc \in Pointing => Loadable(job[p].payload)

\* The records keep their fields, and the runs are a sequence.
Shape ==
    /\ DOMAIN job = Procs
    /\ \A p \in Procs : DOMAIN job[p] = DOMAIN Idle
    /\ DOMAIN lock = {"watch", "ingest"}
    /\ runs \in Seq({runs[i] : i \in DOMAIN runs})

Inv ==
    /\ Shape
    /\ \A p \in Procs : Earned(p)
    /\ Loadable(latest)
    /\ Loadable(tmp)

-----------------------------------------------------------------------------
(* Steps of one process *)

\* What Earned depends on is as it was.
Same(q) ==
    /\ job'[q].pc = job[q].pc /\ job'[q].call = job[q].call
    /\ job'[q].plan = job[q].plan /\ job'[q].payload = job[q].payload

\* A step of p leaves to the others what they depend on ...
Alone(p) ==
    /\ DOMAIN job' = Procs
    /\ \A q \in Procs : DOMAIN job'[q] = DOMAIN Idle
    /\ \A q \in Procs \ {p} : Same(q)

\* ... and watch/.lock to whoever else has it.
LockKept(p) ==
    /\ DOMAIN lock' = {"watch", "ingest"}
    /\ \A q \in Procs \ {p} : lock.watch = q => lock'.watch = q

\* Plans and runs are never taken back.
Grows ==
    /\ plans \subseteq plans'
    /\ Len(runs) \in Nat /\ Len(runs') \in Nat /\ Len(runs) <= Len(runs')

\* A record without a call has all the fields, and is idle.
LEMMA IdleFields ==
  /\ DOMAIN Idle = {"pc", "call", "roots", "entries", "plan", "exec", "listed", "todo",
                    "failures", "gone", "outcome", "payload", "touched"}
  /\ Idle.pc = "idle"
  BY DEF Idle

\* A step of p alone.
LEMMA MovesAlone ==
  ASSUME Shape, NEW p \in Procs, NEW change, Moves(p, change),
         DOMAIN change = DOMAIN Idle
  PROVE  Alone(p) /\ job'[p] = change
  BY DEF Shape, Moves, Same, Alone

\* Being touched concerns none of that.
LEMMA TouchedSame ==
  ASSUME Shape, NEW F, NEW others, NEW q \in Procs
  PROVE  /\ DOMAIN Touched(F, others) = Procs
         /\ DOMAIN Touched(F, others)[q] = DOMAIN Idle
         /\ Touched(F, others)[q].pc = job[q].pc
         /\ Touched(F, others)[q].call = job[q].call
         /\ Touched(F, others)[q].plan = job[q].plan
         /\ Touched(F, others)[q].payload = job[q].payload
  BY IdleFields DEF Shape, Touched

\* A step of p that touches files of the others ...
Disturbs(p, F, others, change) == job' = [Touched(F, others) EXCEPT ![p] = change]

\* ... leaves the rest to them.
LEMMA TouchedAlone ==
  ASSUME Shape, NEW p \in Procs, NEW F, NEW others, NEW change,
         Disturbs(p, F, others, change),
         DOMAIN change = DOMAIN Idle
  PROVE  Alone(p) /\ job'[p] = change
  <1>1. /\ DOMAIN job' = Procs /\ job'[p] = change
        /\ \A q \in Procs \ {p} : job'[q] = Touched(F, others)[q]
    BY TouchedSame DEF Disturbs
  <1> QED
    BY <1>1, TouchedSame DEF Same, Alone

\* A pointer that was good stays good.
LEMMA LoadableGrows ==
  ASSUME Grows, NEW pointer, Loadable(pointer)
  PROVE  /\ pointer.plan # None => pointer.plan \in plans'
         /\ pointer.run \in Nat /\ pointer.run <= Len(runs')
  BY DEF Grows, Loadable

\* What the others have earned, a step of p leaves to them.
LEMMA OthersEarned ==
  ASSUME Inv, NEW q \in Procs, Same(q), Grows, lock.watch = q => lock'.watch = q
  PROVE  Earned(q)'
  <1>1. Earned(q)
    BY DEF Inv
  <1>2. Loadable(job[q].payload) => Loadable(job[q].payload)'
    BY LoadableGrows DEF Loadable, Same
  <1> QED
    BY <1>1, <1>2 DEF Earned, Same, Working, Grows

\* A step of p keeps the invariant if it keeps what concerns p, the files that
\* it writes, and what the others have.
LEMMA StepOK ==
  ASSUME Inv, NEW p \in Procs, Alone(p), LockKept(p), Grows, Earned(p)',
         runs' \in Seq({runs'[i] : i \in DOMAIN runs'}),
         Loadable(latest)', Loadable(tmp)'
  PROVE  Inv'
  <1>1. Shape'
    BY DEF Alone, LockKept, Shape
  <1>2. ASSUME NEW q \in Procs \ {p} PROVE Earned(q)'
    BY <1>2, OthersEarned DEF Alone, LockKept
  <1> QED
    BY <1>1, <1>2 DEF Inv

\* The number of the last run is a natural number.
LEMMA RunsCounted == ASSUME Inv PROVE Len(runs) \in Nat
  BY LenProperties DEF Inv, Shape

\* A step that writes neither plans, nor runs, nor pointers.
LEMMA QuietOK ==
  ASSUME Inv, NEW p \in Procs, Alone(p), LockKept(p), Earned(p)',
         UNCHANGED <<plans, runs, latest, tmp>>
  PROVE  Inv'
  <1>1. Grows
    BY RunsCounted DEF Grows
  <1>2. Loadable(latest)' /\ Loadable(tmp)'
    BY DEF Inv, Loadable
  <1>3. runs' \in Seq({runs'[i] : i \in DOMAIN runs'})
    BY DEF Inv, Shape
  <1> QED
    BY <1>1, <1>2, <1>3, StepOK

\* A process that ends drops its locks and owes nothing.
LEMMA EndsOK ==
  ASSUME Inv, NEW p \in Procs, Ends(p)
  PROVE  Alone(p) /\ LockKept(p) /\ Earned(p)' /\ job'[p] = Idle
  <1>1. Alone(p) /\ job'[p] = Idle
    BY MovesAlone DEF Inv, Ends
  <1>2. LockKept(p)
    BY WatchAssumption DEF Inv, Shape, Ends, Without, LockKept
  <1>3. Earned(p)'
    BY <1>1, IdleFields DEF Earned, Working, Saved, Pointing, Executing
  <1> QED
    BY <1>1, <1>2, <1>3

\* A step that leaves the locks alone keeps them.
LEMMA LockUnchanged ==
  ASSUME Inv, NEW p \in Procs, UNCHANGED lock PROVE LockKept(p)
  BY DEF Inv, Shape, LockKept

-----------------------------------------------------------------------------
(* Scans *)

\* A call begins, before it has taken or saved anything.
LEMMA CallInv ==
  ASSUME Inv, NEW p \in Procs, NEW call \in Calls, Call(p, call) PROVE Inv'
  <1> DEFINE next == [Idle EXCEPT
                         !.pc   = CASE call.op = "scan"   -> "load"
                                    [] call.op = "run"    -> "enter"
                                    [] call.op = "ingest" -> "list",
                         !.call = call,
                         !.exec = IF call.op = "ingest" THEN {Head(call.roots)} ELSE {}]
  <1>1. call.op \in {"scan", "run", "ingest"}
    BY WatchAssumption DEF CallType
  <1>2. DOMAIN next = DOMAIN Idle /\ next.call = call
    BY IdleFields
  <1>3. /\ call.op = "run" => next.pc = "enter"
        /\ call.op # "ingest" => next.pc # "list"
        /\ next.pc \in {"load", "enter", "list"}
    BY <1>1, IdleFields
  <1>4. Alone(p) /\ job'[p] = next
    BY <1>2, MovesAlone DEF Inv, Call
  <1> HIDE DEF next
  <1>5. Earned(p)'
    BY <1>2, <1>3, <1>4 DEF Earned, Working, Saved, Pointing, Executing
  <1> QED
    BY <1>4, <1>5, QuietOK, LockUnchanged DEF Call

\* A run begins only with the lock, and nobody else has it then.
LEMMA EnterRunInv == ASSUME Inv, NEW p \in Procs, EnterRun(p) PROVE Inv'
  <1>1. CASE lock.watch = None
    <2>1. Alone(p) /\ job'[p] = [job[p] EXCEPT !.pc = "load"]
      BY <1>1, MovesAlone DEF EnterRun, Inv, Shape
    <2>2. LockKept(p) /\ lock'.watch = p
      BY <1>1, WatchAssumption DEF EnterRun, Inv, Shape, LockKept
    <2>3. Earned(p)'
      BY <2>1, <2>2, IdleFields DEF Earned, Working, Saved, Pointing, Executing, Inv, Shape
    <2> QED
      BY <2>1, <2>2, <2>3, QuietOK DEF EnterRun
  <1>2. CASE lock.watch # None
    BY <1>2, EndsOK, QuietOK DEF EnterRun
  <1> QED
    BY <1>1, <1>2

\* The manifest is loaded.
LEMMA LoadInv == ASSUME Inv, NEW p \in Procs, Load(p) PROVE Inv'
  <1> DEFINE next == [job[p] EXCEPT !.pc = "classify", !.entries = manifest,
                                    !.roots = RequestRoots(p), !.touched = {}]
  <1>1. DOMAIN next = DOMAIN Idle /\ next.pc = "classify" /\ next.call = job[p].call
    BY IdleFields DEF Inv, Shape
  <1>2. Alone(p) /\ job'[p] = next
    BY <1>1, MovesAlone DEF Load, Inv
  <1> HIDE DEF next
  <1>3. Earned(p)'
    BY <1>1, <1>2 DEF Load, Inv, Earned, Working, Saved, Pointing, Executing
  <1> QED
    BY <1>2, <1>3, QuietOK, LockUnchanged DEF Load

\* The sources are compared with it.
LEMMA ClassifyInv == ASSUME Inv, NEW p \in Procs, Classify(p) PROVE Inv'
  <1>1. PICK next : /\ Alone(p) /\ job'[p] = next
                    /\ next.pc = "saveroots" /\ next.call = job[p].call
    BY MovesAlone, IdleFields DEF Classify, Inv, Shape
  <1>2. Earned(p)'
    BY <1>1 DEF Classify, Inv, Earned, Working, Saved, Pointing, Executing
  <1> QED
    BY <1>1, <1>2, QuietOK, LockUnchanged DEF Classify

\* The roots are saved, which touches those who rely on them.
LEMMA SaveRootsInv == ASSUME Inv, NEW p \in Procs, SaveRoots(p) PROVE Inv'
  <1> DEFINE next == [job[p] EXCEPT !.pc = "saveplan"]
  <1>1. DOMAIN next = DOMAIN Idle /\ next.pc = "saveplan" /\ next.call = job[p].call
    BY IdleFields DEF Inv, Shape
  <1>2. PICK F, others : Disturbs(p, F, others, next)
    BY DEF SaveRoots, Disturbs
  <1>3. Alone(p) /\ job'[p] = next
    BY <1>1, <1>2, TouchedAlone DEF Inv
  <1> HIDE DEF next
  <1>4. Earned(p)'
    BY <1>1, <1>3 DEF SaveRoots, Inv, Earned, Working, Saved, Pointing, Executing
  <1> QED
    BY <1>3, <1>4, QuietOK, LockUnchanged DEF SaveRoots

\* From here on the process has a plan that can be loaded.
LEMMA SavePlanInv == ASSUME Inv, NEW p \in Procs, SavePlan(p) PROVE Inv'
  <1>1. Alone(p) /\ job'[p] = [job[p] EXCEPT !.pc = "planpointer"]
    BY MovesAlone DEF SavePlan, Inv, Shape
  <1>2. Grows
    BY RunsCounted DEF SavePlan, Grows
  <1>3. Earned(p)'
    BY <1>1, IdleFields
       DEF SavePlan, Inv, Shape, Earned, Working, Saved, Pointing, Executing
  <1>4. Loadable(latest)' /\ Loadable(tmp)'
    BY <1>2, LoadableGrows DEF SavePlan, Inv, Loadable
  <1> QED
    BY <1>1, <1>2, <1>3, <1>4, StepOK, LockUnchanged DEF SavePlan, Inv, Shape

\* The pointer is made from what latest.json is, and from a plan or a run that
\* has been saved.
LEMMA ReadLatestInv == ASSUME Inv, NEW p \in Procs, ReadLatest(p) PROVE Inv'
  <1>1. CASE Ends(p)
    BY <1>1, EndsOK, QuietOK DEF ReadLatest
  <1>2. CASE ~Ends(p)
    <2> DEFINE payload == File("whole", job[p].plan,
                               IF job[p].pc = "runpointer" THEN job[p].payload.run
                               ELSE latest.run)
               next == [job[p] EXCEPT
                           !.pc = IF job[p].pc = "planpointer" THEN "plantmp" ELSE "runtmp",
                           !.payload = payload]
    <2>1. /\ DOMAIN next = DOMAIN Idle /\ next.pc \in {"plantmp", "runtmp"}
          /\ next.call = job[p].call /\ next.plan = job[p].plan /\ next.payload = payload
      BY IdleFields DEF Inv, Shape
    <2>2. Alone(p) /\ job'[p] = next /\ UNCHANGED lock
      BY <1>2, <2>1, MovesAlone DEF ReadLatest, Inv
    <2>3. Earned(p)
      BY DEF Inv
    <2>4. job[p].plan \in plans /\ Loadable(payload)
      BY <2>3 DEF ReadLatest, Earned, Saved, Pointing, Inv, Loadable, File
    <2> HIDE DEF next, payload
    <2>5. Earned(p)'
      BY <2>1, <2>2, <2>3, <2>4
         DEF ReadLatest, Earned, Working, Saved, Pointing, Executing, Loadable
    <2> QED
      BY <2>2, <2>5, QuietOK, LockUnchanged DEF ReadLatest
  <1> QED
    BY <1>1, <1>2

\* A process goes on to the next place of the writing.
LEMMA WritingInv ==
  ASSUME Inv, NEW p \in Procs, NEW place, Moves(p, [job[p] EXCEPT !.pc = place]),
         UNCHANGED <<plans, runs, lock>>, job[p].pc \in Pointing \ {"runpointer"},
         place \in IF job[p].pc \in {"plantmp", "runtmp"} THEN {"planwrite", "runwrite"}
                   ELSE {"planreplace", "runreplace"},
         Loadable(latest)', Loadable(tmp)'
  PROVE  Inv'
  <1> DEFINE next == [job[p] EXCEPT !.pc = place]
  <1>1. /\ DOMAIN next = DOMAIN Idle /\ next.pc = place
        /\ next.call = job[p].call /\ next.plan = job[p].plan
        /\ next.payload = job[p].payload
    BY IdleFields DEF Inv, Shape
  <1>2. Alone(p) /\ job'[p] = next
    BY <1>1, MovesAlone DEF Inv
  <1> HIDE DEF next
  <1>3. Earned(p)'
    BY <1>1, <1>2 DEF Inv, Earned, Working, Saved, Pointing, Executing, Loadable
  <1>4. Grows /\ runs' \in Seq({runs'[i] : i \in DOMAIN runs'})
    BY RunsCounted DEF Grows, Inv, Shape
  <1> QED
    BY <1>2, <1>3, <1>4, StepOK, LockUnchanged

\* An empty file says nothing that could be wrong.
LEMMA OpenTmpInv == ASSUME Inv, NEW p \in Procs, OpenTmp(p) PROVE Inv'
  <1> DEFINE place == IF job[p].pc = "plantmp" THEN "planwrite" ELSE "runwrite"
  <1>1. Loadable(latest)' /\ Loadable(tmp)'
    BY DEF OpenTmp, Inv, Loadable, Bare, File
  <1>2. /\ Moves(p, [job[p] EXCEPT !.pc = place]) /\ UNCHANGED <<plans, runs, lock>>
        /\ job[p].pc \in {"plantmp", "runtmp"} /\ place \in {"planwrite", "runwrite"}
    BY DEF OpenTmp
  <1> HIDE DEF place
  <1> QED
    BY <1>1, <1>2, WritingInv DEF Pointing

\* A pointer is written only to what has been saved.
LEMMA WriteTmpInv == ASSUME Inv, NEW p \in Procs, WriteTmp(p) PROVE Inv'
  <1> DEFINE place == IF job[p].pc = "planwrite" THEN "planreplace" ELSE "runreplace"
  <1>1. Loadable(job[p].payload)
    BY DEF WriteTmp, Inv, Earned, Pointing
  <1>2. /\ latest' \in {latest, job[p].payload, Mixed}
        /\ tmp' \in {tmp, job[p].payload, Mixed}
    BY DEF WriteTmp, Over
  <1>3. Loadable(latest)' /\ Loadable(tmp)'
    BY <1>1, <1>2 DEF WriteTmp, Inv, Loadable, Mixed, File
  <1>4. /\ Moves(p, [job[p] EXCEPT !.pc = place]) /\ UNCHANGED <<plans, runs, lock>>
        /\ job[p].pc \in {"planwrite", "runwrite"} /\ place \in {"planreplace", "runreplace"}
    BY DEF WriteTmp
  <1> HIDE DEF place
  <1> QED
    BY <1>3, <1>4, WritingInv DEF Pointing

\* latest.json becomes what any of the writers has written.
LEMMA ReplaceLatestInv == ASSUME Inv, NEW p \in Procs, ReplaceLatest(p) PROVE Inv'
  <1>1. /\ Grows /\ runs' \in Seq({runs'[i] : i \in DOMAIN runs'})
        /\ Loadable(latest)' /\ Loadable(tmp)'
    BY RunsCounted DEF ReplaceLatest, Grows, Inv, Shape, Loadable, NoFile, File
  <1>2. CASE Ends(p)
    BY <1>1, <1>2, EndsOK, StepOK
  <1>3. CASE ~Ends(p)
    <2> DEFINE next == [job[p] EXCEPT !.pc = "rescan"]
    <2>1. /\ DOMAIN next = DOMAIN Idle /\ next.pc = "rescan"
          /\ next.call = job[p].call /\ next.plan = job[p].plan
      BY IdleFields DEF Inv, Shape
    <2>2. job[p].pc = "planreplace" /\ Moves(p, next) /\ UNCHANGED lock
      BY <1>3 DEF ReplaceLatest
    <2>3. Alone(p) /\ job'[p] = next
      BY <2>1, <2>2, MovesAlone DEF Inv
    <2> HIDE DEF next
    <2>4. Earned(p)'
      BY <2>1, <2>2, <2>3
         DEF ReplaceLatest, Inv, Earned, Working, Saved, Pointing, Executing
    <2> QED
      BY <1>1, <2>2, <2>3, <2>4, StepOK, LockUnchanged
  <1> QED
    BY <1>2, <1>3

-----------------------------------------------------------------------------
(* Executions *)

\* A process goes on with its call, to a place where it needs nothing it has
\* not got yet.
GoesOn(p, next) ==
    /\ DOMAIN next = DOMAIN Idle
    /\ next.call = job[p].call /\ next.plan = job[p].plan
    /\ next.pc \in Executing \cup {"graphify", "saverun"}
    /\ job[p].pc \in Executing \cup {"rescan", "graphify"}
    /\ job[p].pc \notin Executing \/ next.pc \in Executing \/ job[p].call.op # "ingest"

\* Going on, a process keeps what it has earned.
LEMMA GoesOnEarned ==
  ASSUME Inv, NEW p \in Procs, NEW next, GoesOn(p, next), job'[p] = next,
         plans' = plans, lock'.watch = lock.watch
  PROVE  Earned(p)'
  <1>1. Earned(p)
    BY DEF Inv
  <1> QED
    BY <1>1 DEF GoesOn, Earned, Working, Saved, Pointing, Executing

\* So does a run in which an exception is raised; an ingest ends.
LEMMA RaisedOK ==
  ASSUME Inv, NEW p \in Procs, job[p].pc \in Executing \cup {"graphify"}
  PROVE  GoesOn(p, Raised(p)) \/ Raised(p) = Idle
  <1> DEFINE next == [job[p] EXCEPT !.pc = "saverun", !.outcome.failed = TRUE]
  <1>1. /\ DOMAIN next = DOMAIN Idle /\ next.pc = "saverun"
        /\ next.call = job[p].call /\ next.plan = job[p].plan
    BY IdleFields DEF Inv, Shape
  <1>2. Raised(p) = IF job[p].call.op = "run" THEN next ELSE Idle
    BY DEF Raised
  <1> HIDE DEF next
  <1> QED
    BY <1>1, <1>2 DEF GoesOn, Executing

\* What holds after a step of p that changes its place alone, the lock of the
\* runtime and the layers.
LEMMA ExecutionInv ==
  ASSUME Inv, NEW p \in Procs, NEW next, GoesOn(p, next) \/ next = Idle,
         Moves(p, next) \/ \E F, others : Disturbs(p, F, others, next),
         DOMAIN lock' = DOMAIN lock, lock'.watch = lock.watch,
         UNCHANGED <<plans, runs, latest, tmp>>
  PROVE  Inv'
  <1>1. DOMAIN next = DOMAIN Idle
    BY DEF GoesOn
  <1>2. Alone(p) /\ job'[p] = next
    <2>1. CASE Moves(p, next)
      BY <1>1, <2>1, MovesAlone DEF Inv
    <2>2. CASE \E F, others : Disturbs(p, F, others, next)
      BY <1>1, <2>2, TouchedAlone DEF Inv
    <2> QED
      BY <2>1, <2>2
  <1>3. Earned(p)'
    <2>1. CASE GoesOn(p, next)
      BY <1>2, <2>1, GoesOnEarned
    <2>2. CASE next = Idle
      BY <1>2, <2>2, IdleFields DEF Earned, Working, Saved, Pointing, Executing
    <2> QED
      BY <2>1, <2>2
  <1>4. LockKept(p)
    BY DEF LockKept, Inv, Shape
  <1> QED
    BY <1>2, <1>3, <1>4, QuietOK

\* A run goes on to the ingests, or to its report.
LEMMA RescanInv == ASSUME Inv, NEW p \in Procs, Rescan(p) PROVE Inv'
  <1> DEFINE exec == IF job[p].plan.ingest \cup job[p].plan.prune = {} THEN {}
                     ELSE ExecRoots(p, RequestRoots(p))
             next == IF job[p].call.execute
                     THEN [job[p] EXCEPT !.pc = "list", !.exec = exec]
                     ELSE [job[p] EXCEPT !.pc = "saverun"]
  <1> HIDE DEF exec
  <1>1. GoesOn(p, next)
    BY IdleFields DEF Rescan, GoesOn, Executing, Inv, Shape
  <1>2. Moves(p, next)
    BY DEF Rescan, exec
  <1> HIDE DEF next
  <1> QED
    BY <1>1, <1>2, ExecutionInv DEF Rescan

\* The files of a root are listed.
LEMMA ListRootInv == ASSUME Inv, NEW p \in Procs, ListRoot(p) PROVE Inv'
  <1> DEFINE present == {f \in Files : At(Root(p), f) # Gone}
             next == [job[p] EXCEPT !.pc = "lock", !.todo = present, !.failures = FALSE,
                                    !.listed = present]
  <1>1. GoesOn(p, next)
    BY IdleFields DEF ListRoot, GoesOn, Executing, Inv, Shape
  <1>2. Moves(p, next)
    BY DEF ListRoot
  <1> HIDE DEF next
  <1> QED
    BY <1>1, <1>2, ExecutionInv DEF ListRoot

\* The lock of the runtime is taken or refused; that of watch stays as it is.
LEMMA TakeLockInv == ASSUME Inv, NEW p \in Procs, TakeLock(p) PROVE Inv'
  <1> DEFINE next == [job[p] EXCEPT !.pc = "ingest"]
  <1>1. GoesOn(p, next)
    BY IdleFields DEF TakeLock, GoesOn, Executing, Inv, Shape
  <1> HIDE DEF next
  <1>2. CASE lock.ingest = None
    <2>1. Moves(p, next) /\ DOMAIN lock' = DOMAIN lock /\ lock'.watch = lock.watch
      BY <1>2 DEF TakeLock, next, Inv, Shape
    <2> QED
      BY <1>1, <2>1, ExecutionInv DEF TakeLock
  <1>3. CASE lock.ingest # None
    <2>1. GoesOn(p, Raised(p)) \/ Raised(p) = Idle
      BY RaisedOK DEF TakeLock, Executing
    <2> QED
      BY <1>3, <2>1, ExecutionInv DEF TakeLock
  <1> QED
    BY <1>2, <1>3

\* A file is ingested, skipped, or fails.
LEMMA IngestFileInv == ASSUME Inv, NEW p \in Procs, IngestFile(p) PROVE Inv'
  <1> DEFINE f == First(FileOrder, job[p].todo)
             c == At(Root(p), f)
             next == [job[p] EXCEPT !.todo = @ \ {f}]
  <1>1. GoesOn(p, next) /\ GoesOn(p, [next EXCEPT !.failures = TRUE])
    BY IdleFields DEF IngestFile, GoesOn, Executing, Inv, Shape
  <1>2. GoesOn(p, Raised(p)) \/ Raised(p) = Idle
    BY RaisedOK DEF IngestFile, Executing
  <1>3. DOMAIN lock' = DOMAIN lock /\ lock'.watch = lock.watch
    BY DEF IngestFile, Inv, Shape
  <1>4. \/ Moves(p, Raised(p)) \/ Moves(p, next)
        \/ Moves(p, [next EXCEPT !.failures = TRUE])
        \/ \E F, others : Disturbs(p, F, others, next)
    BY DEF IngestFile, SetEntry, Disturbs
  <1> HIDE DEF next
  <1> QED
    BY <1>1, <1>2, <1>3, <1>4, ExecutionInv DEF IngestFile

\* The ingest of a root ends; failures end the run.
LEMMA EndIngestInv == ASSUME Inv, NEW p \in Procs, EndIngest(p) PROVE Inv'
  <1> DEFINE next == IF job[p].failures THEN Raised(p)
                     ELSE [job[p] EXCEPT !.pc = "list", !.exec = @ \ {Root(p)},
                                         !.gone = @ \cup Unlisted(p)]
  <1>1. GoesOn(p, Raised(p)) \/ Raised(p) = Idle
    BY RaisedOK DEF EndIngest, Executing
  <1>2. GoesOn(p, next) \/ next = Idle
    BY <1>1, IdleFields DEF EndIngest, GoesOn, Executing, Inv, Shape
  <1>3. DOMAIN lock' = DOMAIN lock /\ lock'.watch = lock.watch
    BY DEF EndIngest, Inv, Shape
  <1>4. \E F, others : Disturbs(p, F, others, next)
    BY DEF EndIngest, Disturbs
  <1> HIDE DEF next
  <1> QED
    BY <1>2, <1>3, <1>4, ExecutionInv DEF EndIngest

\* All roots are done.
LEMMA MarkInv == ASSUME Inv, NEW p \in Procs, Mark(p) PROVE Inv'
  <1> DEFINE next == IF job[p].call.op = "ingest" THEN Idle
                     ELSE [job[p] EXCEPT
                              !.pc = IF job[p].plan.graphify THEN "graphify" ELSE "saverun",
                              !.outcome.ingested = job[p].plan.ingest,
                              !.outcome.pruned = job[p].plan.prune \cap job[p].gone]
  <1>1. GoesOn(p, next) \/ next = Idle
    BY IdleFields DEF Mark, GoesOn, Executing, Inv, Shape
  <1>2. Moves(p, next)
    BY DEF Mark
  <1> HIDE DEF next
  <1> QED
    BY <1>1, <1>2, ExecutionInv DEF Mark

\* graphify is built, or fails.
LEMMA GraphifyInv == ASSUME Inv, NEW p \in Procs, Graphify(p) PROVE Inv'
  <1> DEFINE next == [job[p] EXCEPT !.pc = "saverun", !.outcome.graphified = TRUE]
  <1>1. GoesOn(p, next)
    BY IdleFields DEF Graphify, GoesOn, Executing, Inv, Shape
  <1>2. GoesOn(p, Raised(p)) \/ Raised(p) = Idle
    BY RaisedOK DEF Graphify, Executing
  <1>3. Moves(p, Raised(p)) \/ Moves(p, next)
    BY DEF Graphify
  <1> HIDE DEF next
  <1> QED
    BY <1>1, <1>2, <1>3, ExecutionInv DEF Graphify

\* The run gets the next number, and its pointer is made for that.
LEMMA SaveRunInv == ASSUME Inv, NEW p \in Procs, SaveRun(p) PROVE Inv'
  <1> DEFINE result == [plan |-> job[p].plan, outcome |-> job[p].outcome]
             payload == [plan |-> job[p].plan, run |-> Len(runs) + 1]
             next == [Idle EXCEPT !.pc = "runpointer", !.call = job[p].call,
                                  !.plan = job[p].plan, !.payload = payload]
             R == {runs[i] : i \in DOMAIN runs}
             S == R \cup {result}
  <1>1. /\ DOMAIN next = DOMAIN Idle /\ next.pc = "runpointer"
        /\ next.call = job[p].call /\ next.plan = job[p].plan /\ next.payload = payload
    BY IdleFields
  <1>2. Alone(p) /\ job'[p] = next
    BY <1>1, MovesAlone DEF SaveRun, Inv
  <1>3. runs \in Seq(S) /\ runs' = Append(runs, result)
    <2>1. runs \in Seq(R) /\ R \subseteq S
      BY DEF Inv, Shape
    <2> QED
      BY <2>1 DEF SaveRun
  <1> HIDE DEF result, S, R
  <1>4. runs' \in Seq(S) /\ Len(runs') = Len(runs) + 1 /\ Len(runs) \in Nat
    BY <1>3, AppendProperties, RunsCounted DEF S
  <1>5. runs' \in Seq({runs'[i] : i \in DOMAIN runs'})
    BY <1>4
  <1>6. Grows
    BY <1>4 DEF SaveRun, Grows
  <1>7. Loadable(latest)' /\ Loadable(tmp)'
    BY <1>6, LoadableGrows DEF SaveRun, Inv, Loadable
  <1>8. job[p].plan \in plans /\ (Working(p) => lock.watch = p)
    BY DEF SaveRun, Inv, Earned, Saved
  <1>9. payload.plan \in plans' /\ payload.run \in Nat /\ payload.run <= Len(runs')
    BY <1>4, <1>8 DEF SaveRun
  <1> HIDE DEF next, payload
  <1>10. Earned(p)'
    BY <1>1, <1>2, <1>8, <1>9
       DEF SaveRun, Earned, Working, Saved, Pointing, Executing, Loadable
  <1> QED
    BY <1>2, <1>5, <1>6, <1>7, <1>10, StepOK, LockUnchanged DEF SaveRun

\* A process dies.
LEMMA KillInv == ASSUME Inv, NEW p \in Procs, Kill(p) PROVE Inv'
  BY EndsOK, QuietOK DEF Kill

\* A user edits a source.
LEMMA EditInv ==
  ASSUME Inv, NEW r \in Roots, NEW f \in Files, NEW c, Edit(r, f, c) PROVE Inv'
  <1>1. job' = Touched({f}, Procs) /\ UNCHANGED <<plans, runs, latest, tmp, lock>>
    BY DEF Edit
  <1>2. PICK p \in Procs : job[p].pc \notin Unread
    BY DEF Edit
  <1>3. \A q \in Procs : Same(q)
    BY <1>1, TouchedSame DEF Same, Inv
  <1>4. Alone(p)
    BY <1>1, <1>3, TouchedSame DEF Alone, Inv
  <1>5. Earned(p)'
    BY <1>1, <1>3, RunsCounted, OthersEarned DEF Grows
  <1> QED
    BY <1>1, <1>4, <1>5, QuietOK, LockUnchanged

-----------------------------------------------------------------------------
(* The theorems *)

\* The invariant holds at first ...
LEMMA InitInv == Init => Inv
  <1> SUFFICES ASSUME Init PROVE Inv
    OBVIOUS
  <1>1. Shape
    BY DEF Init, Shape
  <1>2. ASSUME NEW p \in Procs PROVE Earned(p)
    BY <1>2, IdleFields DEF Init, Earned, Working, Saved, Pointing, Executing
  <1>3. Loadable(latest) /\ Loadable(tmp)
    BY DEF Init, Loadable, File, NoFile
  <1> QED
    BY <1>1, <1>2, <1>3 DEF Inv

\* ... is kept by every step ...
LEMMA NextInv == Inv /\ [Next]_vars => Inv'
  <1> SUFFICES ASSUME Inv, [Next]_vars PROVE Inv'
    OBVIOUS
  <1>1. ASSUME NEW p \in Procs, Step(p) PROVE Inv'
    BY <1>1, EnterRunInv, LoadInv, ClassifyInv, SaveRootsInv, SavePlanInv, ReadLatestInv,
       OpenTmpInv, WriteTmpInv, ReplaceLatestInv, RescanInv, ListRootInv, TakeLockInv,
       IngestFileInv, EndIngestInv, MarkInv, GraphifyInv, SaveRunInv DEF Step
  <1>2. ASSUME NEW p \in Procs, Kill(p) PROVE Inv'
    BY <1>2, KillInv
  <1>3. ASSUME NEW p \in Procs, NEW call \in Calls, Call(p, call) PROVE Inv'
    BY <1>3, CallInv
  <1>4. ASSUME NEW r \in Roots, NEW f \in Files, NEW c, Edit(r, f, c) PROVE Inv'
    BY <1>4, EditInv
  <1>5. CASE UNCHANGED vars
    BY <1>5 DEF vars, Inv, Shape, Earned, Working, Loadable
  <1> QED
    BY <1>1, <1>2, <1>3, <1>4, <1>5 DEF Next

\* ... and holds in every reachable state.
LEMMA Invariance == Spec => []Inv
  BY InitInv, NextInv, PTL DEF Spec

\* Bounded runs exclude each other, from the scan of a run to its pointer: the
\* flock of watch/.lock is kept by whoever has it, and dropped by whoever dies.
THEOREM RunsExcludeEachOther == Spec => []OneRun
  <1>1. Inv => OneRun
    BY DEF Inv, Earned, OneRun
  <1> QED
    BY <1>1, Invariance, PTL

-----------------------------------------------------------------------------
(* The files of the pointer *)

\* A process that has the temporary file open, or has yet to open it.
Opening(p) == job[p].pc \in {"plantmp", "runtmp"}
Opened(p) == job[p].pc \in {"planwrite", "runwrite"}
Closed(p) == job[p].pc \in {"planreplace", "runreplace"}

\* One writer after the other leaves whole files: it has the temporary file to itself
\* from opening it until it has renamed it.
Exclusive ==
    /\ latest.read = "whole"
    /\ \A p \in Procs : Opened(p) => open[p] = "tmp" /\ tmp = Bare
    /\ \A p \in Procs : Closed(p) => tmp.read = "whole"
    /\ \A p, q \in Procs : Writing(p) /\ Writing(q) => p = q

PtrInv ==
    /\ DOMAIN open = Procs
    /\ DOMAIN count = {"calls", "events", "mixed"}
    /\ \A p \in Procs : Opening(p) \/ Opened(p) => job[p].payload.read = "whole"
    /\ count.mixed \/ Exclusive

\* A step of p after which it writes nothing, and which leaves the pointers alone.
LEMMA AsidePtr ==
  ASSUME PtrInv, NEW p \in Procs, \A q \in Procs \ {p} : Same(q),
         ~Writing(p)', ~Opening(p)', UNCHANGED <<latest, tmp>>, DOMAIN open' = Procs,
         \A q \in Procs \ {p} : open'[q] = open[q],
         DOMAIN count' = {"calls", "events", "mixed"}, count'.mixed = count.mixed
  PROVE  PtrInv'
  <1>1. /\ ~Opening(p)' /\ ~Opened(p)' /\ ~Closed(p)' /\ ~Writing(p)'
    BY DEF Writing, Opening, Opened, Closed
  <1>2. ASSUME NEW q \in Procs \ {p}
        PROVE  /\ Opening(q)' <=> Opening(q)
               /\ Opened(q)' <=> Opened(q)
               /\ Closed(q)' <=> Closed(q)
               /\ Writing(q)' <=> Writing(q)
               /\ job'[q].payload = job[q].payload
    BY DEF Same, Writing, Opening, Opened, Closed
  <1>3. Exclusive => Exclusive'
    BY <1>1, <1>2 DEF Exclusive
  <1> QED
    BY <1>1, <1>2, <1>3 DEF PtrInv

\* A pointer that has been made is whole.
LEMMA ReadLatestPtr ==
  ASSUME Inv, PtrInv, NEW p \in Procs, ReadLatest(p) PROVE PtrInv'
  <1>1. CASE Ends(p)
    <2>1. ~Writing(p)' /\ ~Opening(p)' /\ \A q \in Procs \ {p} : Same(q)
      BY <1>1, EndsOK, IdleFields DEF Writing, Opening, Alone
    <2> QED
      BY <2>1, AsidePtr DEF ReadLatest, PtrInv
  <1>2. CASE ~Ends(p)
    <2> DEFINE payload == File("whole", job[p].plan,
                               IF job[p].pc = "runpointer" THEN job[p].payload.run
                               ELSE latest.run)
               place == IF job[p].pc = "planpointer" THEN "plantmp" ELSE "runtmp"
               next == [job[p] EXCEPT !.pc = place, !.payload = payload]
    <2>1. /\ DOMAIN next = DOMAIN Idle /\ next.pc \in {"plantmp", "runtmp"}
          /\ next.payload.read = "whole"
      BY IdleFields DEF Inv, Shape, File
    <2>2. Alone(p) /\ job'[p] = next
      BY <1>2, <2>1, MovesAlone DEF ReadLatest, Inv
    <2> HIDE DEF next
    <2>3. Opening(p)' /\ ~Opened(p)' /\ ~Closed(p)' /\ ~Writing(p)'
      BY <2>1, <2>2 DEF Writing, Opening, Opened, Closed
    <2>4. ASSUME NEW q \in Procs \ {p}
          PROVE  /\ Opening(q)' <=> Opening(q)
                 /\ Opened(q)' <=> Opened(q)
                 /\ Closed(q)' <=> Closed(q)
                 /\ Writing(q)' <=> Writing(q)
                 /\ job'[q].payload = job[q].payload
      BY <2>2 DEF Alone, Same, Writing, Opening, Opened, Closed
    <2>5. UNCHANGED <<latest, tmp, open, count>>
      BY DEF ReadLatest
    <2>6. Exclusive => Exclusive'
      BY <2>3, <2>4, <2>5 DEF Exclusive
    <2> QED
      BY <2>1, <2>2, <2>3, <2>4, <2>5, <2>6 DEF PtrInv
  <1> QED
    BY <1>1, <1>2

\* Who opens the file while nobody else writes has it to itself.
LEMMA OpenTmpPtr ==
  ASSUME Inv, PtrInv, NEW p \in Procs, OpenTmp(p) PROVE PtrInv'
  <1> DEFINE place == IF job[p].pc = "plantmp" THEN "planwrite" ELSE "runwrite"
             next == [job[p] EXCEPT !.pc = place]
  <1>1. /\ DOMAIN next = DOMAIN Idle /\ next.pc \in {"planwrite", "runwrite"}
        /\ next.payload = job[p].payload
    BY IdleFields DEF Inv, Shape
  <1>2. Alone(p) /\ job'[p] = next
    BY <1>1, MovesAlone DEF OpenTmp, Inv
  <1> HIDE DEF next
  <1>3. Opened(p)' /\ ~Opening(p)' /\ ~Closed(p)' /\ Opening(p)
    BY <1>1, <1>2 DEF OpenTmp, Opening, Opened, Closed
  <1>4. ASSUME NEW q \in Procs \ {p}
        PROVE  /\ Opening(q)' <=> Opening(q)
               /\ Opened(q)' <=> Opened(q)
               /\ Closed(q)' <=> Closed(q)
               /\ Writing(q)' <=> Writing(q)
               /\ job'[q].payload = job[q].payload
    BY <1>2 DEF Alone, Same, Writing, Opening, Opened, Closed
  <1>5. \A q \in Procs : Writing(q) <=> Opened(q) \/ Closed(q)
    BY DEF Writing, Opened, Closed
  <1>6. /\ DOMAIN open' = Procs /\ open'[p] = "tmp" /\ tmp' = Bare
        /\ latest' = latest /\ DOMAIN count' = {"calls", "events", "mixed"}
        /\ count'.mixed \/ (~count.mixed /\ \A q \in Procs : ~Writing(q))
    BY DEF OpenTmp, PtrInv
  <1>7. ~count'.mixed => Exclusive'
    BY <1>3, <1>4, <1>5, <1>6 DEF PtrInv, Exclusive
  <1>8. job'[p].payload.read = "whole"
    BY <1>1, <1>2, <1>3 DEF PtrInv
  <1> QED
    BY <1>3, <1>4, <1>6, <1>7, <1>8 DEF PtrInv

\* Into an empty file a whole pointer is written.
LEMMA WriteTmpPtr ==
  ASSUME Inv, PtrInv, NEW p \in Procs, WriteTmp(p) PROVE PtrInv'
  <1> DEFINE place == IF job[p].pc = "planwrite" THEN "planreplace" ELSE "runreplace"
             next == [job[p] EXCEPT !.pc = place]
  <1>1. DOMAIN next = DOMAIN Idle /\ next.pc \in {"planreplace", "runreplace"}
    BY IdleFields DEF Inv, Shape
  <1>2. Alone(p) /\ job'[p] = next
    BY <1>1, MovesAlone DEF WriteTmp, Inv
  <1> HIDE DEF next
  <1>3. Closed(p)' /\ ~Opening(p)' /\ ~Opened(p)' /\ Opened(p)
    BY <1>1, <1>2 DEF WriteTmp, Opening, Opened, Closed
  <1>4. ASSUME NEW q \in Procs \ {p}
        PROVE  /\ Opening(q)' <=> Opening(q)
               /\ Opened(q)' <=> Opened(q)
               /\ Closed(q)' <=> Closed(q)
               /\ Writing(q)' <=> Writing(q)
               /\ job'[q].payload = job[q].payload
    BY <1>2 DEF Alone, Same, Writing, Opening, Opened, Closed
  <1>5. \A q \in Procs : Writing(q) <=> Opened(q) \/ Closed(q)
    BY DEF Writing, Opened, Closed
  <1>6. DOMAIN open' = Procs /\ UNCHANGED count
    BY DEF WriteTmp, PtrInv
  <1>7. ASSUME Exclusive PROVE Exclusive'
    <2>1. latest' = latest /\ tmp' = job[p].payload
      BY <1>3, <1>7 DEF WriteTmp, Over, Exclusive
    <2>2. tmp'.read = "whole"
      BY <1>3, <2>1 DEF PtrInv
    <2>3. \A q \in Procs \ {p} : ~Writing(q)
      BY <1>3, <1>5, <1>7 DEF Exclusive
    <2>4. \A q \in Procs \ {p} : ~Opened(q)' /\ ~Closed(q)' /\ ~Writing(q)'
      BY <1>4, <1>5, <2>3
    <2> QED
      BY <1>3, <1>7, <2>1, <2>2, <2>4 DEF Exclusive
  <1> QED
    BY <1>3, <1>4, <1>6, <1>7 DEF PtrInv

\* What is renamed is whole, and nobody else has it open.
LEMMA ReplaceLatestPtr ==
  ASSUME Inv, PtrInv, NEW p \in Procs, ReplaceLatest(p) PROVE PtrInv'
  <1> DEFINE next == [job[p] EXCEPT !.pc = "rescan"]
  <1>1. DOMAIN next = DOMAIN Idle /\ next.pc = "rescan"
    BY IdleFields DEF Inv, Shape
  <1>2. Alone(p) /\ ~Writing(p)' /\ ~Opening(p)'
    <2>1. CASE Ends(p)
      BY <2>1, EndsOK, IdleFields DEF Writing, Opening
    <2>2. CASE ~Ends(p)
      <3>1. Moves(p, next)
        BY <2>2 DEF ReplaceLatest
      <3>2. Alone(p) /\ job'[p] = next
        BY <1>1, <3>1, MovesAlone DEF Inv
      <3> HIDE DEF next
      <3> QED
        BY <1>1, <3>2 DEF Writing, Opening
    <2> QED
      BY <2>1, <2>2
  <1>3. \A q \in Procs \ {p} : Same(q)
    BY <1>2 DEF Alone
  <1>4. CASE tmp = NoFile
    BY <1>2, <1>3, <1>4, AsidePtr DEF ReplaceLatest, PtrInv
  <1>5. CASE tmp # NoFile
    <2>1. /\ latest' = tmp /\ DOMAIN open' = Procs /\ UNCHANGED count
          /\ Closed(p) /\ Writing(p)
      BY <1>5 DEF ReplaceLatest, Closed, Writing
    <2>2. ASSUME NEW q \in Procs \ {p}
          PROVE  /\ Opening(q)' <=> Opening(q)
                 /\ Opened(q)' <=> Opened(q)
                 /\ Writing(q)' <=> Writing(q)
                 /\ job'[q].payload = job[q].payload
      BY <1>3 DEF Same, Writing, Opening, Opened
    <2>3. ASSUME Exclusive PROVE Exclusive'
      <3>1. latest'.read = "whole"
        BY <2>1, <2>3 DEF Exclusive
      <3>2. \A q \in Procs : ~Writing(q)'
        BY <1>2, <2>1, <2>2, <2>3 DEF Exclusive
      <3>3. \A q \in Procs : ~Opened(q)' /\ ~Closed(q)'
        BY <3>2 DEF Writing, Opened, Closed
      <3> QED
        BY <3>1, <3>2, <3>3 DEF Exclusive
    <2>4. ~Opening(p)' /\ ~Opened(p)'
      BY <1>2 DEF Writing, Opened
    <2> QED
      BY <2>1, <2>2, <2>3, <2>4 DEF PtrInv
  <1> QED
    BY <1>4, <1>5

\* Where nothing is about to be written.
Elsewhere == {"idle", "enter", "load", "classify", "saveroots", "saveplan", "planpointer",
              "rescan", "list", "lock", "ingest", "graphify", "saverun", "runpointer"}

\* A step to such a place.
GoesElsewhere(p) ==
    \E next : /\ next.pc \in Elsewhere
              /\ Moves(p, next) \/ \E F, others : Disturbs(p, F, others, next)

LEMMA ElsewherePtr ==
  ASSUME Inv, PtrInv, NEW p \in Procs, GoesElsewhere(p), UNCHANGED <<latest, tmp>>,
         DOMAIN open' = Procs, \A q \in Procs \ {p} : open'[q] = open[q],
         DOMAIN count' = {"calls", "events", "mixed"}, count'.mixed = count.mixed
  PROVE  PtrInv'
  <1>1. PICK next : /\ next.pc \in Elsewhere
                    /\ Moves(p, next) \/ \E F, others : Disturbs(p, F, others, next)
    BY DEF GoesElsewhere
  <1>2. job'[p] = next /\ \A q \in Procs \ {p} : Same(q)
    <2>1. CASE Moves(p, next)
      BY <2>1 DEF Moves, Same, Inv, Shape
    <2>2. CASE \E F, others : Disturbs(p, F, others, next)
      BY <2>2, TouchedSame DEF Disturbs, Same, Inv
    <2> QED
      BY <1>1, <2>1, <2>2
  <1>3. ~Writing(p)' /\ ~Opening(p)'
    BY <1>1, <1>2 DEF Writing, Opening, Elsewhere
  <1> QED
    BY <1>2, <1>3, AsidePtr

\* Where a run goes on after an exception.
LEMMA RaisedElsewhere ==
  ASSUME Inv, NEW p \in Procs PROVE Raised(p).pc \in Elsewhere
  BY IdleFields DEF Raised, Inv, Shape, Elsewhere

\* All steps but those of the pointer lead there.
LEMMA StepElsewhere ==
  ASSUME Inv, NEW p \in Procs,
         Step(p), ~ReadLatest(p), ~OpenTmp(p), ~WriteTmp(p), ~ReplaceLatest(p)
  PROVE  GoesElsewhere(p)
  <1>1. CASE EnterRun(p)
    <2>1. [job[p] EXCEPT !.pc = "load"].pc \in Elsewhere /\ Idle.pc \in Elsewhere
      BY IdleFields DEF Inv, Shape, Elsewhere
    <2>2. Moves(p, [job[p] EXCEPT !.pc = "load"]) \/ Moves(p, Idle)
      BY <1>1 DEF EnterRun, Ends
    <2> QED
      BY <2>1, <2>2 DEF GoesElsewhere
  <1>2. CASE Load(p)
    <2> DEFINE next == [job[p] EXCEPT !.pc = "classify", !.entries = manifest,
                                      !.roots = RequestRoots(p), !.touched = {}]
    <2>1. next.pc \in Elsewhere
      BY IdleFields DEF Inv, Shape, Elsewhere
    <2>2. Moves(p, next)
      BY <1>2 DEF Load
    <2> QED
      BY <2>1, <2>2 DEF GoesElsewhere
  <1>3. CASE Classify(p)
    <2> DEFINE plan == BuildPlan(job[p].call, View(ScanRoots(job[p].roots)), job[p].entries)
               next == [job[p] EXCEPT !.pc = "saveroots", !.plan = plan]
    <2>1. Moves(p, next)
      BY <1>3 DEF Classify
    <2> HIDE DEF plan
    <2>2. next.pc \in Elsewhere
      BY IdleFields DEF Inv, Shape, Elsewhere
    <2> QED
      BY <2>1, <2>2 DEF GoesElsewhere
  <1>4. CASE SaveRoots(p)
    <2>1. [job[p] EXCEPT !.pc = "saveplan"].pc \in Elsewhere
      BY IdleFields DEF Inv, Shape, Elsewhere
    <2>2. \E F, others : Disturbs(p, F, others, [job[p] EXCEPT !.pc = "saveplan"])
      BY <1>4 DEF SaveRoots, Disturbs
    <2> QED
      BY <2>1, <2>2 DEF GoesElsewhere
  <1>5. CASE SavePlan(p)
    <2>1. [job[p] EXCEPT !.pc = "planpointer"].pc \in Elsewhere
      BY IdleFields DEF Inv, Shape, Elsewhere
    <2> QED
      BY <1>5, <2>1 DEF SavePlan, GoesElsewhere
  <1>6. CASE Rescan(p)
    <2> DEFINE exec == IF job[p].plan.ingest \cup job[p].plan.prune = {} THEN {}
                       ELSE ExecRoots(p, RequestRoots(p))
               on == [job[p] EXCEPT !.pc = "list", !.exec = exec]
               off == [job[p] EXCEPT !.pc = "saverun"]
    <2>1. Moves(p, on) \/ Moves(p, off)
      BY <1>6 DEF Rescan
    <2> HIDE DEF exec
    <2>2. on.pc \in Elsewhere /\ off.pc \in Elsewhere
      BY IdleFields DEF Inv, Shape, Elsewhere
    <2> QED
      BY <2>1, <2>2 DEF GoesElsewhere
  <1>7. CASE ListRoot(p)
    <2> DEFINE present == {f \in Files : At(Root(p), f) # Gone}
               next == [job[p] EXCEPT !.pc = "lock", !.todo = present, !.failures = FALSE,
                                      !.listed = present]
    <2>1. next.pc \in Elsewhere
      BY IdleFields DEF Inv, Shape, Elsewhere
    <2>2. Moves(p, next)
      BY <1>7 DEF ListRoot
    <2> QED
      BY <2>1, <2>2 DEF GoesElsewhere
  <1>8. CASE TakeLock(p)
    <2>1. [job[p] EXCEPT !.pc = "ingest"].pc \in Elsewhere
      BY IdleFields DEF Inv, Shape, Elsewhere
    <2>2. Moves(p, [job[p] EXCEPT !.pc = "ingest"]) \/ Moves(p, Raised(p))
      BY <1>8 DEF TakeLock
    <2> QED
      BY <2>1, <2>2, RaisedElsewhere DEF GoesElsewhere
  <1>9. CASE IngestFile(p)
    <2> DEFINE next == [job[p] EXCEPT !.todo = @ \ {First(FileOrder, job[p].todo)}]
               failed == [next EXCEPT !.failures = TRUE]
    <2>1. \/ Moves(p, Raised(p)) \/ Moves(p, next) \/ Moves(p, failed)
          \/ \E F, others : Disturbs(p, F, others, next)
      BY <1>9 DEF IngestFile, SetEntry, Disturbs
    <2>2. next.pc = "ingest" /\ failed.pc = "ingest"
      BY <1>9, IdleFields DEF IngestFile, Inv, Shape
    <2>3. next.pc \in Elsewhere /\ failed.pc \in Elsewhere
      BY <2>2 DEF Elsewhere
    <2> HIDE DEF next, failed
    <2> QED
      BY <2>1, <2>3, RaisedElsewhere DEF GoesElsewhere
  <1>10. CASE EndIngest(p)
    <2> DEFINE on == [job[p] EXCEPT !.pc = "list", !.exec = @ \ {Root(p)},
                                    !.gone = @ \cup Unlisted(p)]
               next == IF job[p].failures THEN Raised(p) ELSE on
    <2>1. on.pc \in Elsewhere
      BY IdleFields DEF Inv, Shape, Elsewhere
    <2>2. \E F, others : Disturbs(p, F, others, next)
      BY <1>10 DEF EndIngest, Disturbs
    <2> HIDE DEF on
    <2>3. next.pc \in Elsewhere
      BY <2>1, RaisedElsewhere
    <2> QED
      BY <2>2, <2>3 DEF GoesElsewhere
  <1>11. CASE Mark(p)
    <2> DEFINE place == IF job[p].plan.graphify THEN "graphify" ELSE "saverun"
               next == [job[p] EXCEPT
                           !.pc = place,
                           !.outcome.ingested = job[p].plan.ingest,
                           !.outcome.pruned = job[p].plan.prune \cap job[p].gone]
    <2>1. Moves(p, next) \/ Moves(p, Idle)
      BY <1>11 DEF Mark
    <2>2. next.pc \in Elsewhere /\ Idle.pc \in Elsewhere
      BY IdleFields DEF Inv, Shape, Elsewhere
    <2> QED
      BY <2>1, <2>2 DEF GoesElsewhere
  <1>12. CASE Graphify(p)
    <2> DEFINE next == [job[p] EXCEPT !.pc = "saverun", !.outcome.graphified = TRUE]
    <2>1. Moves(p, Raised(p)) \/ Moves(p, next)
      BY <1>12 DEF Graphify
    <2>2. next.pc \in Elsewhere
      BY IdleFields DEF Inv, Shape, Elsewhere
    <2> QED
      BY <2>1, <2>2, RaisedElsewhere DEF GoesElsewhere
  <1>13. CASE SaveRun(p)
    <2> DEFINE payload == [plan |-> job[p].plan, run |-> Len(runs) + 1]
               next == [Idle EXCEPT !.pc = "runpointer", !.call = job[p].call,
                                    !.plan = job[p].plan, !.payload = payload]
    <2>1. Moves(p, next)
      BY <1>13 DEF SaveRun
    <2> HIDE DEF payload
    <2>2. next.pc \in Elsewhere
      BY IdleFields DEF Elsewhere
    <2> QED
      BY <2>1, <2>2 DEF GoesElsewhere
  <1> QED
    BY <1>1, <1>2, <1>3, <1>4, <1>5, <1>6, <1>7, <1>8, <1>9, <1>10, <1>11, <1>12, <1>13
       DEF Step

LEMMA StepPtr == ASSUME Inv, PtrInv, NEW p \in Procs, Step(p) PROVE PtrInv'
  <1>1. CASE ReadLatest(p) \/ OpenTmp(p) \/ WriteTmp(p) \/ ReplaceLatest(p)
    BY <1>1, ReadLatestPtr, OpenTmpPtr, WriteTmpPtr, ReplaceLatestPtr
  <1>2. CASE ~ReadLatest(p) /\ ~OpenTmp(p) /\ ~WriteTmp(p) /\ ~ReplaceLatest(p)
    <2>1. GoesElsewhere(p)
      BY <1>2, StepElsewhere
    <2>2. UNCHANGED <<latest, tmp, open, count>>
      BY <1>2 DEF Step, EnterRun, Load, Classify, SaveRoots, SavePlan, Rescan, ListRoot,
         TakeLock, IngestFile, EndIngest, Mark, Graphify, SaveRun
    <2> QED
      BY <2>1, <2>2, ElsewherePtr DEF PtrInv
  <1> QED
    BY <1>1, <1>2

LEMMA CallPtr ==
  ASSUME Inv, PtrInv, NEW p \in Procs, NEW call \in Calls, Call(p, call) PROVE PtrInv'
  <1> DEFINE place == CASE call.op = "scan"   -> "load"
                        [] call.op = "run"    -> "enter"
                        [] call.op = "ingest" -> "list"
             exec == IF call.op = "ingest" THEN {Head(call.roots)} ELSE {}
             next == [Idle EXCEPT !.pc = place, !.call = call, !.exec = exec]
  <1>1. call.op \in {"scan", "run", "ingest"}
    BY WatchAssumption DEF CallType
  <1>2. place \in Elsewhere
    BY <1>1 DEF Elsewhere
  <1>3. Moves(p, next)
    BY DEF Call
  <1> HIDE DEF place, exec
  <1>4. next.pc \in Elsewhere
    BY <1>2, IdleFields
  <1>5. /\ UNCHANGED <<latest, tmp, open>> /\ DOMAIN count' = {"calls", "events", "mixed"}
        /\ count'.mixed = count.mixed
    BY DEF Call, PtrInv
  <1> QED
    BY <1>3, <1>4, <1>5, ElsewherePtr DEF GoesElsewhere, PtrInv

LEMMA KillPtr == ASSUME Inv, PtrInv, NEW p \in Procs, Kill(p) PROVE PtrInv'
  <1>1. GoesElsewhere(p)
    BY IdleFields DEF Kill, Ends, GoesElsewhere, Elsewhere
  <1>2. /\ UNCHANGED <<latest, tmp>> /\ DOMAIN open' = Procs
        /\ \A q \in Procs \ {p} : open'[q] = open[q]
        /\ DOMAIN count' = {"calls", "events", "mixed"} /\ count'.mixed = count.mixed
    BY DEF Kill, PtrInv
  <1> QED
    BY <1>1, <1>2, ElsewherePtr

\* Who edits a source writes no pointer.
LEMMA EditPtr ==
  ASSUME Inv, PtrInv, NEW r \in Roots, NEW f \in Files, NEW c, Edit(r, f, c) PROVE PtrInv'
  <1>1. \A q \in Procs : Same(q)
    BY TouchedSame DEF Edit, Same, Inv
  <1>2. /\ UNCHANGED <<latest, tmp, open>> /\ DOMAIN count' = {"calls", "events", "mixed"}
        /\ count'.mixed = count.mixed
    BY DEF Edit, PtrInv
  <1>3. ASSUME NEW q \in Procs
        PROVE  /\ Opening(q)' <=> Opening(q)
               /\ Opened(q)' <=> Opened(q)
               /\ Closed(q)' <=> Closed(q)
               /\ Writing(q)' <=> Writing(q)
               /\ job'[q].payload = job[q].payload
    BY <1>1 DEF Same, Writing, Opening, Opened, Closed
  <1>4. Exclusive => Exclusive'
    BY <1>2, <1>3 DEF Exclusive
  <1> QED
    BY <1>2, <1>3, <1>4 DEF PtrInv

LEMMA PtrInvNext == Inv /\ PtrInv /\ [Next]_vars => PtrInv'
  <1>1. CASE UNCHANGED vars
    BY <1>1 DEF vars, PtrInv, Exclusive, Opening, Opened, Closed, Writing
  <1> QED
    BY <1>1, StepPtr, CallPtr, KillPtr, EditPtr DEF Next

\* Whatever dies or races, latest.json never points at a plan or a run that was not
\* saved, and it can be read unless two have written it at once: _write_latest.
THEOREM PointersHold == Spec => []LatestSaved
  <1>1. Init => PtrInv
    BY IdleFields DEF Init, PtrInv, Exclusive, Opening, Opened, Closed, Writing, File
  <1>2. Spec => []PtrInv
    BY <1>1, Invariance, PtrInvNext, PTL DEF Spec
  <1>3. Inv /\ PtrInv => LatestSaved
    BY DEF Inv, Loadable, PtrInv, Exclusive, LatestSaved
  <1> QED
    BY <1>2, <1>3, Invariance, PTL

-----------------------------------------------------------------------------
(* What the processes keep: the types of their state, as far as it is used *)

\* A run that has loaded the manifest and made its plan, but executed none of it.
Before == {"saveroots", "saveplan", "planpointer", "plantmp", "planwrite", "planreplace",
           "rescan"}

Ending == {"graphify", "saverun"}

\* A process that has loaded the manifest and has not yet reported.
Loaded == {"classify"} \cup Before \cup Executing \cup Ending

RangeOf(roots) == {roots[i] : i \in 1 .. Len(roots)}

JobTyped(p) ==
    /\ job[p].pc # "idle" => job[p].call \in Calls
    /\ job[p].pc \in {"rescan"} \cup Ending => job[p].call.op = "run"
    /\ job[p].pc \in Executing => job[p].call.op \in {"run", "ingest"}
    /\ job[p].pc \in Loaded /\ (job[p].pc \in Executing => job[p].call.op # "ingest") =>
           job[p].entries \in Entries /\ job[p].roots \in Seq(Roots)
    /\ job[p].pc \in Executing => job[p].exec \subseteq Roots \cup {Raw}
    /\ job[p].pc \in {"lock", "ingest"} =>
           /\ job[p].exec # {}
           /\ job[p].todo \subseteq job[p].listed /\ job[p].listed \subseteq Files
    /\ job[p].pc = "ingest" => lock.ingest = p
    /\ DOMAIN job[p].outcome = DOMAIN NoOutcome
    /\ job[p].pc \notin Ending => job[p].outcome = NoOutcome
    /\ job[p].pc \notin Executing \cup Ending => job[p].gone = {}

\* What is in the stores.
Stored ==
    /\ manifest \in Entries
    /\ DOMAIN source = Roots
    /\ \A r \in Roots : source[r] \in Views
    /\ \A r \in Roots, f \in Files : source[r][f] \in Under[r][f] \cup {Gone}
    /\ config \in Seq(Roots)

Typed == Stored /\ \A p \in Procs : JobTyped(p)

\* The stages do not meet.
LEMMA Stages ==
  /\ Loaded = {"classify", "saveroots", "saveplan", "planpointer", "plantmp", "planwrite",
               "planreplace", "rescan", "list", "lock", "ingest", "graphify", "saverun"}
  /\ Before \cap Executing = {} /\ Before \cap Ending = {} /\ Executing \cap Ending = {}
  BY DEF Loaded, Before, Executing, Ending

\* Of a nonempty set of places in a sequence one is the first and one the last.
LEMMA FirstOf ==
  ASSUME NEW n \in Nat, NEW S \in SUBSET (1 .. n), S # {}
  PROVE  \E i \in S : \A j \in S : i <= j
  <1> DEFINE before == {i \in Nat \X Nat : i[1] < i[2]}
  <1>1. IsWellFoundedOn(before, Nat)
    BY NatLessThanWellFounded DEF OpToRel
  <1>2. S \in SUBSET Nat /\ \A i, j \in S : j < i => <<j, i>> \in before
    OBVIOUS
  <1> HIDE DEF before
  <1>3. PICK i \in S : \A j \in S : <<j, i>> \notin before
    BY <1>1, <1>2, WFMin
  <1>4. ASSUME NEW j \in S PROVE ~(j < i)
    BY <1>2, <1>3
  <1> QED
    BY <1>4

LEMMA LastOf ==
  ASSUME NEW n \in Nat, NEW S \in SUBSET (1 .. n), S # {}
  PROVE  \E i \in S : \A j \in S : j <= i
  <1> DEFINE T == {j \in 1 .. n : n + 1 - j \in S}
  <1>1. T # {}
    <2>1. PICK i \in S : TRUE
      OBVIOUS
    <2>2. n + 1 - i \in 1 .. n /\ n + 1 - (n + 1 - i) = i
      OBVIOUS
    <2> QED
      BY <2>1, <2>2
  <1>2. PICK k \in T : \A j \in T : k <= j
    BY <1>1, FirstOf
  <1>3. ASSUME NEW j \in S PROVE j <= n + 1 - k
    <2>1. n + 1 - j \in T
      BY n + 1 - j \in 1 .. n /\ n + 1 - (n + 1 - j) = j
    <2> QED
      BY <1>2, <2>1
  <1> QED
    BY <1>2, <1>3

\* What comes first of a set is one of it.
LEMMA FirstIn ==
  ASSUME NEW order, Len(order) \in Nat, NEW S, S # {},
         \A x \in S : \E i \in 1 .. Len(order) : order[i] = x
  PROVE  First(order, S) \in S
  <1> DEFINE places == {i \in 1 .. Len(order) : order[i] \in S}
  <1>1. places # {}
    OBVIOUS
  <1>2. PICK i \in places : \A j \in places : i <= j
    BY <1>1, FirstOf
  <1>3. order[i] \in S /\ \A j \in 1 .. i - 1 : order[j] \notin S
    BY <1>2
  <1> QED
    BY <1>3 DEF First

LEMMA OrdersFinite == Len(FileOrder) \in Nat /\ Len(RootOrder) \in Nat
  BY WatchAssumption, LenProperties

LEMMA NextFile ==
  ASSUME NEW S \in SUBSET Files, S # {} PROVE First(FileOrder, S) \in S
  BY OrdersFinite, FirstIn DEF Files

LEMMA NextRoot ==
  ASSUME NEW p, job[p].exec \subseteq Roots \cup {Raw}, job[p].exec # {}
  PROVE  Root(p) \in job[p].exec
  <1>1. \A r \in Roots \cup {Raw} : \E i \in 1 .. Len(RootOrder) : RootOrder[i] = r
    BY WatchAssumption DEF Roots
  <1> QED
    BY <1>1, OrdersFinite, FirstIn DEF Root

-----------------------------------------------------------------------------
(* What a step leaves to the processes whose step it is not *)

Fields == DOMAIN Idle

LEMMA FieldsAre ==
  Fields = {"pc", "call", "roots", "entries", "plan", "exec", "listed", "todo",
            "failures", "gone", "outcome", "payload", "touched"}
  BY IdleFields DEF Fields

\* A run between its scan and its report.
Busy(p) == job[p].pc \in Loaded /\ job[p].call.op = "run"

\* The fields of p but those in K are as they were.
Keeps(p, K) == \A k \in Fields \ K : job'[p][k] = job[p][k]

\* p may go on in a direction in which nothing changes for it, while at most the files
\* of F are touched.
Goes(p, F) ==
    /\ Keeps(p, {"pc", "payload", "touched"})
    /\ job'[p].touched = job[p].touched \cup F
    /\ \/ job'[p].pc = job[p].pc
       \/ {job[p].pc, job'[p].pc} \subseteq Before
       \/ {job[p].pc, job'[p].pc} \subseteq {"lock", "ingest"}
    /\ \A f \in Files \ F :
           /\ RequestRoots(p)' = RequestRoots(p)
           /\ manifest'[f] = manifest[f]
           /\ \A r \in Roots : source'[r][f] = source[r][f]

\* What others do: they touch files of a run, and do not take its lock away.
Leaves(p) ==
    /\ Keeps(p, {"touched"})
    /\ lock.ingest = p => lock'.ingest = p
    /\ Busy(p) => \E F \in SUBSET Files : Goes(p, F)

\* Of another step, the stores as they were, p sees nothing.
LEMMA MovesLeaves ==
  ASSUME Shape, NEW q \in Procs, NEW change, Moves(q, change), NEW p \in Procs \ {q},
         UNCHANGED <<manifest, source, config>>,
         lock.ingest = p => lock'.ingest = p
  PROVE  Leaves(p)
  <1>1. job'[p] = job[p]
    BY DEF Shape, Moves
  <1>2. Goes(p, {})
    BY <1>1 DEF Goes, Keeps, RequestRoots
  <1> QED
    BY <1>1, <1>2 DEF Leaves, Keeps

\* Being touched is all that happens to a run that is touched.
LEMMA TouchedRun ==
  ASSUME Inv, Typed, NEW F, NEW others, NEW p \in Procs
  PROVE  /\ \A k \in Fields \ {"touched"} : Touched(F, others)[p][k] = job[p][k]
         /\ p \in others /\ Busy(p) =>
                Touched(F, others)[p].touched = job[p].touched \cup F
         /\ p \notin others => Touched(F, others)[p] = job[p]
  <1>1. DOMAIN job[p] = Fields
    BY DEF Inv, Shape, Fields
  <1>2. Busy(p) => job[p].entries # None
    BY WatchAssumption DEF Busy, Typed, JobTyped
  <1> QED
    BY <1>1, <1>2, FieldsAre DEF Touched, Busy

\* Entries are changed by one process, and all others are touched.
LEMMA EntriesLeave ==
  ASSUME Inv, Typed, NEW q \in Procs, NEW F \in SUBSET Files, NEW change,
         job' = [Touched(F, Procs \ {q}) EXCEPT ![q] = change],
         \A f \in Files \ F : manifest'[f] = manifest[f],
         UNCHANGED <<source, config>>,
         NEW p \in Procs \ {q}, lock.ingest = p => lock'.ingest = p
  PROVE  Leaves(p)
  <1>1. job'[p] = Touched(F, Procs \ {q})[p]
    BY DEF Touched
  <1>2. Keeps(p, {"touched"})
    BY <1>1, TouchedRun DEF Keeps
  <1>3. ASSUME Busy(p) PROVE Goes(p, F)
    <2>1. job'[p].touched = job[p].touched \cup F
      BY <1>1, <1>3, TouchedRun
    <2>2. job'[p].pc = job[p].pc /\ job'[p].call = job[p].call
      BY <1>2, FieldsAre DEF Keeps
    <2>3. Keeps(p, {"pc", "payload", "touched"})
      BY <1>2 DEF Keeps
    <2>4. \A f \in Files \ F : RequestRoots(p)' = RequestRoots(p)
      BY <2>2 DEF RequestRoots
    <2> QED
      BY <2>1, <2>2, <2>3, <2>4 DEF Goes
  <1> QED
    BY <1>2, <1>3 DEF Leaves

\* Whoever relies on the saved roots is touched when they change.
LEMMA SaveRootsLeaves ==
  ASSUME Inv, Typed, NEW q \in Procs, SaveRoots(q), NEW p \in Procs \ {q}
  PROVE  Leaves(p)
  <1> DEFINE F == IF config' = config THEN {} ELSE Files
             others == {x \in Procs : job[x].call # None /\ job[x].call.roots = <<>>}
  <1>1. job'[p] = Touched(F, others)[p] /\ UNCHANGED <<manifest, source, lock>>
    BY DEF SaveRoots, Touched
  <1> HIDE DEF F
  <1>2. Keeps(p, {"touched"})
    BY <1>1, TouchedRun DEF Keeps
  <1>3. ASSUME Busy(p) PROVE \E G \in SUBSET Files : Goes(p, G)
    <2>1. job[p].call \in Calls /\ job[p].call # None
      BY <1>3, Stages, WatchAssumption DEF Busy, Typed, JobTyped
    <2>2. job'[p].pc = job[p].pc /\ job'[p].call = job[p].call
      BY <1>2, FieldsAre DEF Keeps
    <2>3. Keeps(p, {"pc", "payload", "touched"})
      BY <1>2 DEF Keeps
    <2>4. CASE p \in others
      <3>1. job'[p].touched = job[p].touched \cup F
        BY <1>1, <1>3, <2>4, TouchedRun
      <3>2. F \in SUBSET Files /\ \A f \in Files \ F : config' = config
        BY DEF F
      <3>3. \A f \in Files \ F : RequestRoots(p)' = RequestRoots(p)
        BY <2>2, <3>2 DEF RequestRoots
      <3>4. Goes(p, F)
        BY <1>1, <2>2, <2>3, <3>1, <3>3 DEF Goes
      <3> QED
        BY <3>2, <3>4
    <2>5. CASE p \notin others
      <3>1. job'[p] = job[p]
        BY <1>1, <2>5, TouchedRun
      <3>2. job[p].call.roots # <<>>
        BY <2>1, <2>5
      <3>3. RequestRoots(p)' = RequestRoots(p)
        BY <2>2, <3>2 DEF RequestRoots
      <3>4. Goes(p, {})
        BY <1>1, <2>3, <3>1, <3>3 DEF Goes
      <3> QED
        BY <3>4
    <2> QED
      BY <2>4, <2>5
  <1> QED
    BY <1>1, <1>2, <1>3 DEF Leaves

\* An edit touches all who have loaded the manifest.
LEMMA EditLeaves ==
  ASSUME Inv, Typed, NEW r \in Roots, NEW f \in Files, NEW c, Edit(r, f, c),
         NEW p \in Procs
  PROVE  Leaves(p)
  <1>1. /\ job'[p] = Touched({f}, Procs)[p] /\ UNCHANGED <<manifest, config, lock>>
        /\ source' = [source EXCEPT ![r][f] = c]
    BY DEF Edit
  <1>2. Keeps(p, {"touched"})
    BY <1>1, TouchedRun DEF Keeps
  <1>3. ASSUME Busy(p) PROVE Goes(p, {f})
    <2>1. job'[p].touched = job[p].touched \cup {f}
      BY <1>1, <1>3, TouchedRun
    <2>2. job'[p].pc = job[p].pc /\ job'[p].call = job[p].call
      BY <1>2, FieldsAre DEF Keeps
    <2>3. \A g \in Files \ {f} : \A x \in Roots : source'[x][g] = source[x][g]
      BY <1>1 DEF Typed, Stored, Views
    <2> QED
      BY <1>1, <1>2, <2>1, <2>2, <2>3 DEF Goes, Keeps, RequestRoots
  <1> QED
    BY <1>1, <1>2, <1>3 DEF Leaves

-----------------------------------------------------------------------------
(* The types are kept *)

\* A step of q, as far as types and the others are concerned.
Orderly(q) ==
    /\ Stored' /\ JobTyped(q)'
    /\ \A p \in Procs \ {q} : Leaves(p)

\* Everybody else keeps the lock of the runtime.
IngestKept(q) == \A p \in Procs \ {q} : lock.ingest = p => lock'.ingest = p

LEMMA TypedStep ==
  ASSUME Inv, Typed, NEW q \in Procs, Orderly(q) PROVE Typed'
  <1>1. ASSUME NEW p \in Procs \ {q} PROVE JobTyped(p)'
    <2>1. JobTyped(p) /\ Keeps(p, {"touched"}) /\ (lock.ingest = p => lock'.ingest = p)
      BY DEF Typed, Orderly, Leaves
    <2>2. /\ job'[p].pc = job[p].pc /\ job'[p].call = job[p].call
          /\ job'[p].entries = job[p].entries /\ job'[p].roots = job[p].roots
          /\ job'[p].exec = job[p].exec /\ job'[p].todo = job[p].todo
          /\ job'[p].listed = job[p].listed /\ job'[p].outcome = job[p].outcome
          /\ job'[p].gone = job[p].gone
      BY <2>1, FieldsAre DEF Keeps
    <2> QED
      BY <2>1, <2>2 DEF JobTyped
  <1> QED
    BY <1>1 DEF Typed, Orderly

LEMMA MovesOrderly ==
  ASSUME Inv, Typed, NEW q \in Procs, NEW change, Moves(q, change),
         UNCHANGED <<manifest, source, config>>, IngestKept(q), JobTyped(q)'
  PROVE  Orderly(q)
  <1>1. Stored'
    BY DEF Typed, Stored
  <1> QED
    BY <1>1, MovesLeaves DEF Orderly, IngestKept, Inv

\* What a step of q makes of q.
LEMMA Moved ==
  ASSUME Inv, NEW q \in Procs, NEW change, Moves(q, change)
  PROVE  job'[q] = change /\ DOMAIN job[q] = Fields
  BY DEF Inv, Shape, Moves, Fields

LEMMA IdleTyped ==
  ASSUME NEW q, job'[q] = Idle PROVE JobTyped(q)'
  BY Stages DEF JobTyped, Idle, Executing, Ending

\* A process ends.
LEMMA EndsOrderly ==
  ASSUME Inv, Typed, NEW q \in Procs, Ends(q), UNCHANGED <<manifest, source, config>>
  PROVE  Orderly(q)
  <1>1. Moves(q, Idle) /\ job'[q] = Idle
    BY Moved DEF Ends
  <1>2. IngestKept(q)
    BY DEF Inv, Shape, Ends, Without, IngestKept
  <1> QED
    BY <1>1, <1>2, IdleTyped, MovesOrderly

LEMMA CallOrderly ==
  ASSUME Inv, Typed, NEW q \in Procs, NEW call \in Calls, Call(q, call)
  PROVE  Orderly(q)
  <1> DEFINE next == [Idle EXCEPT
                         !.pc   = CASE call.op = "scan"   -> "load"
                                    [] call.op = "run"    -> "enter"
                                    [] call.op = "ingest" -> "list",
                         !.call = call,
                         !.exec = IF call.op = "ingest" THEN {Head(call.roots)} ELSE {}]
  <1>1. /\ call.op \in {"scan", "run", "ingest"} /\ call.roots \in Seq(Roots)
        /\ call.op = "ingest" => Len(call.roots) = 1
    BY WatchAssumption DEF CallType
  <1>2. call.op = "ingest" => Head(call.roots) \in Roots
    BY <1>1
  <1>3. Moves(q, next) /\ job'[q] = next
    BY Moved DEF Call
  <1>4. /\ next.call = call /\ next.outcome = NoOutcome /\ next.gone = {}
        /\ next.pc \in {"load", "enter", "list"}
        /\ next.exec = IF call.op = "ingest" THEN {Head(call.roots)} ELSE {}
        /\ next.pc = "list" => call.op = "ingest"
    BY <1>1 DEF Idle
  <1> HIDE DEF next
  <1>5. JobTyped(q)'
    BY <1>2, <1>3, <1>4, Stages DEF JobTyped, Ending, Executing
  <1> QED
    BY <1>3, <1>5, MovesOrderly DEF Call, IngestKept

LEMMA EnterRunOrderly ==
  ASSUME Inv, Typed, NEW q \in Procs, EnterRun(q) PROVE Orderly(q)
  <1>1. CASE lock.watch = None
    <2>1. Moves(q, [job[q] EXCEPT !.pc = "load"])
      BY <1>1 DEF EnterRun
    <2>2. job'[q] = [job[q] EXCEPT !.pc = "load"] /\ DOMAIN job[q] = Fields
      BY <2>1, Moved
    <2>3. IngestKept(q)
      BY <1>1 DEF EnterRun, IngestKept, Inv, Shape
    <2>4. JobTyped(q)'
      BY <2>2, Stages, FieldsAre DEF JobTyped, EnterRun, Typed, Ending, Executing
    <2> QED
      BY <2>1, <2>3, <2>4, MovesOrderly DEF EnterRun
  <1>2. CASE lock.watch # None
    BY <1>2, EndsOrderly DEF EnterRun
  <1> QED
    BY <1>1, <1>2

\* The roots of a request are a sequence of roots.
LEMMA RequestTyped ==
  ASSUME Typed, NEW q \in Procs, job[q].pc # "idle" PROVE RequestRoots(q) \in Seq(Roots)
  BY WatchAssumption DEF Typed, JobTyped, Stored, RequestRoots, CallType

LEMMA LoadOrderly ==
  ASSUME Inv, Typed, NEW q \in Procs, Load(q) PROVE Orderly(q)
  <1> DEFINE next == [job[q] EXCEPT !.pc = "classify", !.entries = manifest,
                                    !.roots = RequestRoots(q), !.touched = {}]
  <1>1. Moves(q, next)
    BY DEF Load
  <1>2. job'[q] = next /\ DOMAIN job[q] = Fields
    BY <1>1, Moved
  <1>3. /\ next.pc = "classify" /\ next.call = job[q].call /\ next.entries = manifest
        /\ next.roots = RequestRoots(q) /\ next.outcome = job[q].outcome
        /\ next.gone = job[q].gone
    BY <1>2, FieldsAre
  <1> HIDE DEF next
  <1>4. RequestRoots(q) \in Seq(Roots)
    BY RequestTyped DEF Load
  <1>5. JobTyped(q)'
    BY <1>2, <1>3, <1>4, Stages DEF JobTyped, Load, Typed, Stored, Ending, Executing
  <1> QED
    BY <1>1, <1>5, MovesOrderly DEF Load, IngestKept

\* A step before execution, by which only the place, the plan and the payload change.
LEMMA BeforeTyped ==
  ASSUME Typed, NEW q \in Procs, NEW next, job'[q] = next,
         job[q].pc \in {"classify"} \cup Before, next.pc \in Before,
         next.pc = "rescan" => job[q].call.op = "run",
         next.call = job[q].call, next.entries = job[q].entries,
         next.roots = job[q].roots, next.outcome = job[q].outcome,
         next.gone = job[q].gone
  PROVE  JobTyped(q)'
  BY Stages DEF JobTyped, Typed, Before, Ending, Executing

LEMMA ClassifyOrderly ==
  ASSUME Inv, Typed, NEW q \in Procs, Classify(q) PROVE Orderly(q)
  <1>1. PICK next : /\ Moves(q, next) /\ next.pc = "saveroots" /\ next.call = job[q].call
                    /\ next.entries = job[q].entries /\ next.roots = job[q].roots
                    /\ next.outcome = job[q].outcome /\ next.gone = job[q].gone
    BY Moved, FieldsAre DEF Classify
  <1>2. JobTyped(q)'
    BY <1>1, Moved, BeforeTyped DEF Classify, Before
  <1> QED
    BY <1>1, <1>2, MovesOrderly DEF Classify, IngestKept

LEMMA SaveRootsOrderly ==
  ASSUME Inv, Typed, NEW q \in Procs, SaveRoots(q) PROVE Orderly(q)
  <1>1. job'[q] = [job[q] EXCEPT !.pc = "saveplan"] /\ DOMAIN job[q] = Fields
    BY DEF SaveRoots, Touched, Inv, Shape, Fields
  <1>2. JobTyped(q)'
    BY <1>1, FieldsAre, BeforeTyped DEF SaveRoots, Before
  <1>3. job[q].pc = "saveroots" /\ UNCHANGED <<source, manifest>>
        /\ config' = IF job[q].roots # <<>> THEN job[q].roots ELSE config
    BY DEF SaveRoots
  <1>4. Stored'
    <2>1. job[q].roots \in Seq(Roots)
      BY <1>3, Stages DEF Typed, JobTyped, Executing
    <2> QED
      BY <1>3, <2>1 DEF Typed, Stored
  <1> QED
    BY <1>2, <1>4, SaveRootsLeaves DEF Orderly

LEMMA SavePlanOrderly ==
  ASSUME Inv, Typed, NEW q \in Procs, SavePlan(q) PROVE Orderly(q)
  <1>1. PICK next : /\ Moves(q, next) /\ next = [job[q] EXCEPT !.pc = "planpointer"]
    BY DEF SavePlan
  <1>2. JobTyped(q)'
    BY <1>1, Moved, FieldsAre, BeforeTyped DEF SavePlan, Before
  <1> QED
    BY <1>1, <1>2, MovesOrderly DEF SavePlan, IngestKept

\* A pointer that is on its way has nothing to do with the rest.
LEMMA PointerTyped ==
  ASSUME Typed, NEW q \in Procs, NEW next, job'[q] = next,
         next.pc \in {"runpointer", "runtmp", "runwrite", "runreplace"},
         job[q].pc \in Ending \cup {"runpointer", "runtmp", "runwrite"},
         next.call = job[q].call, next.outcome = NoOutcome, next.gone = {}
  PROVE  JobTyped(q)'
  BY Stages DEF JobTyped, Typed, Ending, Executing

\* Nor has the place that a writer of it goes on to.
LEMMA WritingOrderly ==
  ASSUME Inv, Typed, NEW q \in Procs, NEW next, Moves(q, next), next.call = job[q].call,
         \/ /\ job[q].pc \in {"planpointer", "plantmp", "planwrite"}
            /\ next.pc \in {"plantmp", "planwrite", "planreplace"}
         \/ /\ job[q].pc \in {"runpointer", "runtmp", "runwrite"}
            /\ next.pc \in {"runtmp", "runwrite", "runreplace"},
         next.entries = job[q].entries, next.roots = job[q].roots,
         next.outcome = job[q].outcome, next.gone = job[q].gone,
         UNCHANGED <<source, manifest, config, lock>>
  PROVE  Orderly(q)
  <1>1. job[q].outcome = NoOutcome /\ job[q].gone = {} /\ job'[q] = next
    BY Moved DEF Typed, JobTyped, Executing, Ending
  <1>2. JobTyped(q)'
    BY <1>1, BeforeTyped, PointerTyped DEF Before
  <1> QED
    BY <1>2, MovesOrderly DEF IngestKept

LEMMA ReadLatestOrderly ==
  ASSUME Inv, Typed, NEW q \in Procs, ReadLatest(q) PROVE Orderly(q)
  <1>1. CASE Ends(q)
    BY <1>1, EndsOrderly DEF ReadLatest
  <1>2. CASE ~Ends(q)
    <2>1. PICK next : /\ Moves(q, next) /\ next.call = job[q].call /\ UNCHANGED lock
                      /\ next.pc = IF job[q].pc = "planpointer" THEN "plantmp" ELSE "runtmp"
                      /\ next.entries = job[q].entries /\ next.roots = job[q].roots
                      /\ next.outcome = job[q].outcome /\ next.gone = job[q].gone
      BY <1>2, Moved, FieldsAre DEF ReadLatest
    <2> QED
      BY <2>1, WritingOrderly DEF ReadLatest
  <1> QED
    BY <1>1, <1>2

LEMMA OpenTmpOrderly ==
  ASSUME Inv, Typed, NEW q \in Procs, OpenTmp(q) PROVE Orderly(q)
  <1>1. PICK next : /\ Moves(q, next) /\ next.call = job[q].call
                    /\ next.pc = IF job[q].pc = "plantmp" THEN "planwrite" ELSE "runwrite"
                    /\ next.entries = job[q].entries /\ next.roots = job[q].roots
                    /\ next.outcome = job[q].outcome /\ next.gone = job[q].gone
    BY Moved, FieldsAre DEF OpenTmp
  <1> QED
    BY <1>1, WritingOrderly DEF OpenTmp

LEMMA WriteTmpOrderly ==
  ASSUME Inv, Typed, NEW q \in Procs, WriteTmp(q) PROVE Orderly(q)
  <1>1. PICK next : /\ Moves(q, next) /\ next.call = job[q].call
                    /\ next.pc = IF job[q].pc = "planwrite" THEN "planreplace"
                                 ELSE "runreplace"
                    /\ next.entries = job[q].entries /\ next.roots = job[q].roots
                    /\ next.outcome = job[q].outcome /\ next.gone = job[q].gone
    BY Moved, FieldsAre DEF WriteTmp
  <1> QED
    BY <1>1, WritingOrderly DEF WriteTmp

LEMMA ReplaceLatestOrderly ==
  ASSUME Inv, Typed, NEW q \in Procs, ReplaceLatest(q) PROVE Orderly(q)
  <1>1. CASE Ends(q)
    BY <1>1, EndsOrderly DEF ReplaceLatest
  <1>2. CASE ~Ends(q)
    <2>1. /\ Moves(q, [job[q] EXCEPT !.pc = "rescan"]) /\ UNCHANGED lock
          /\ job[q].pc = "planreplace" /\ job[q].call.op = "run"
      BY <1>2 DEF ReplaceLatest
    <2>2. JobTyped(q)'
      BY <2>1, Moved, FieldsAre, BeforeTyped DEF Before
    <2> QED
      BY <2>1, <2>2, MovesOrderly DEF ReplaceLatest, IngestKept
  <1> QED
    BY <1>1, <1>2

-----------------------------------------------------------------------------
(* Views of the sources *)

\* A relpath that some root has is found, and attributed to a root that has it.
LEMMA HoldingFound ==
  ASSUME NEW S, NEW roots \in Seq(S), NEW f
  PROVE  /\ \A i \in 1 .. Len(roots) :
                At(roots[i], f) # Gone => Holding(roots, f) # {}
         /\ \A i \in Holding(roots, f) : i \in 1 .. Len(roots) /\ At(roots[i], f) # Gone
  <1> DEFINE having == {i \in 1 .. Len(roots) : At(roots[i], f) # Gone}
  <1>1. Len(roots) \in Nat
    BY LenProperties
  <1>2. Holding(roots, f) = {i \in having : \A j \in having : j <= i}
    BY DEF Holding
  <1>3. having # {} => \E i \in having : \A j \in having : j <= i
    BY <1>1, LastOf
  <1> QED
    BY <1>2, <1>3

LEMMA ViewFound ==
  ASSUME NEW S, NEW roots \in Seq(S), NEW f \in Files
  PROVE  /\ View(roots)[f] # Gone =>
                \E i \in 1 .. Len(roots) : View(roots)[f] = At(roots[i], f)
         /\ View(roots)[f] = Gone => \A i \in 1 .. Len(roots) : At(roots[i], f) = Gone
         /\ View(roots)[f] # Gone =>
                /\ (CHOOSE i \in Holding(roots, f) : TRUE) \in 1 .. Len(roots)
                /\ At(roots[CHOOSE i \in Holding(roots, f) : TRUE], f) # Gone
  <1>1. View(roots)[f] = IF Holding(roots, f) = {} THEN Gone
                         ELSE At(roots[CHOOSE i \in Holding(roots, f) : TRUE], f)
    BY DEF View
  <1>2. Holding(roots, f) # {} => (CHOOSE i \in Holding(roots, f) : TRUE) \in Holding(roots, f)
    OBVIOUS
  <1> QED
    BY <1>1, <1>2, HoldingFound

\* Sources that are as they were look as they did.
LEMMA ViewSame ==
  ASSUME NEW roots \in Seq(Roots), NEW f \in Files, Raw \notin Roots,
         \A r \in Roots : source'[r][f] = source[r][f]
  PROVE  View(roots)'[f] = View(roots)[f]
  <1>1. \A i \in 1 .. Len(roots) : roots[i] \in Roots
    OBVIOUS
  <1>2. \A i \in 1 .. Len(roots) : At(roots[i], f)' = At(roots[i], f)
    BY <1>1 DEF At
  <1>3. Holding(roots, f)' = Holding(roots, f)
    BY <1>2 DEF Holding
  <1>4. Holding(roots, f) # {} =>
            (CHOOSE i \in Holding(roots, f) : TRUE) \in 1 .. Len(roots)
    BY DEF Holding
  <1> QED
    BY <1>2, <1>3, <1>4 DEF View

\* What is scanned are the roots, or raw_sources.
LEMMA Scanned ==
  ASSUME NEW roots \in Seq(Roots)
  PROVE  /\ ScanRoots(roots) \in Seq(Roots \cup {Raw})
         /\ RangeOf(ScanRoots(roots)) \subseteq RangeOf(roots) \cup {Raw}
  <1>1. CASE roots = <<>>
    <2>1. ScanRoots(roots) = <<Raw>> /\ Len(<<Raw>>) = 1 /\ <<Raw>>[1] = Raw
      BY <1>1 DEF ScanRoots
    <2> QED
      BY <2>1 DEF RangeOf
  <1>2. CASE roots # <<>>
    <2>1. ScanRoots(roots) = roots
      BY <1>2 DEF ScanRoots
    <2>2. roots \in Seq(Roots \cup {Raw})
      OBVIOUS
    <2> QED
      BY <2>1, <2>2
  <1> QED
    BY <1>1, <1>2

\* The roots to ingest are among those that are scanned or asked for, or raw_sources.
LEMMA ExecRange ==
  ASSUME NEW p, NEW roots \in Seq(Roots), job[p].call.roots \in Seq(Roots)
  PROVE  ExecRoots(p, roots)
             \subseteq RangeOf(roots) \cup RangeOf(job[p].call.roots) \cup {Raw}
  <1> DEFINE scanned == ScanRoots(roots)
             found == View(scanned)
             having == {g \in Files : found[g] # Gone}
             rootOf == [f \in having |-> scanned[CHOOSE i \in Holding(scanned, f) : TRUE]]
             range == RangeOf(roots) \cup RangeOf(job[p].call.roots) \cup {Raw}
             work == {rootOf[f] : f \in Outdated(found, manifest)}
             all == {rootOf[f] : f \in DOMAIN rootOf}
                        \cup {job[p].call.roots[i] : i \in 1 .. Len(job[p].call.roots)}
  <1>1. scanned \in Seq(Roots \cup {Raw}) /\ RangeOf(scanned) \subseteq range
    BY Scanned
  <1>2. \A f \in having : rootOf[f] \in RangeOf(scanned)
    BY <1>1, ViewFound DEF RangeOf
  <1>3. Outdated(found, manifest) \subseteq having
    BY DEF Outdated
  <1>4. work \subseteq range /\ all \subseteq range
    BY <1>1, <1>2, <1>3 DEF RangeOf
  <1>5. ExecRoots(p, roots) = work \cup (IF job[p].plan.prune = {} THEN {}
                                         ELSE IF all = {} THEN {Raw} ELSE all)
    BY DEF ExecRoots
  <1> HIDE DEF work, all
  <1> QED
    BY <1>4, <1>5

-----------------------------------------------------------------------------
(* The types are kept by an execution *)

\* A run or an ingest goes on with its roots.
LEMMA ExecutingTyped ==
  ASSUME Typed, NEW q \in Procs, NEW next, job'[q] = next,
         job[q].pc \in Executing, next.pc \in Executing,
         next.call = job[q].call, next.entries = job[q].entries,
         next.roots = job[q].roots, next.outcome = job[q].outcome,
         next.exec \subseteq job[q].exec,
         next.pc \in {"lock", "ingest"} =>
             next.exec # {} /\ next.todo \subseteq next.listed /\ next.listed \subseteq Files,
         next.pc = "ingest" => lock'.ingest = q
  PROVE  JobTyped(q)'
  BY Stages DEF JobTyped, Typed, Ending, Executing

\* A run goes on to its end.
LEMMA EndingTyped ==
  ASSUME Typed, NEW q \in Procs, NEW next, job'[q] = next,
         job[q].pc \in Executing \cup Ending \cup {"rescan"}, job[q].call.op = "run",
         next.pc \in Ending, next.call = job[q].call,
         next.entries = job[q].entries, next.roots = job[q].roots,
         DOMAIN next.outcome = DOMAIN NoOutcome
  PROVE  JobTyped(q)'
  BY Stages DEF JobTyped, Typed, Ending, Executing

\* The fields of a run in which an exception was raised.
LEMMA RaisedFields ==
  ASSUME Inv, Typed, NEW q \in Procs, job[q].call.op = "run"
  PROVE  /\ Raised(q).pc = "saverun" /\ DOMAIN Raised(q) = Fields
         /\ \A k \in Fields \ {"pc", "outcome"} : Raised(q)[k] = job[q][k]
         /\ DOMAIN Raised(q).outcome = DOMAIN NoOutcome
         /\ Raised(q).outcome.failed
         /\ \A k \in DOMAIN NoOutcome \ {"failed"} :
                Raised(q).outcome[k] = job[q].outcome[k]
  <1>1. DOMAIN job[q] = Fields /\ DOMAIN job[q].outcome = DOMAIN NoOutcome
    BY DEF Inv, Shape, Fields, Typed, JobTyped
  <1>2. DOMAIN NoOutcome = {"ingested", "pruned", "graphified", "failed"}
    BY DEF NoOutcome
  <1>3. Raised(q) = [job[q] EXCEPT !.pc = "saverun",
                         !.outcome = [job[q].outcome EXCEPT !.failed = TRUE]]
    BY <1>1, FieldsAre DEF Raised
  <1> DEFINE outcome == [job[q].outcome EXCEPT !.failed = TRUE]
  <1>4. /\ outcome.failed /\ DOMAIN outcome = DOMAIN NoOutcome
        /\ \A k \in DOMAIN NoOutcome \ {"failed"} : outcome[k] = job[q].outcome[k]
    BY <1>1, <1>2
  <1> HIDE DEF outcome
  <1>5. Raised(q) = [job[q] EXCEPT !.pc = "saverun", !.outcome = outcome]
    BY <1>3 DEF outcome
  <1>6. /\ Raised(q).pc = "saverun" /\ DOMAIN Raised(q) = Fields
        /\ Raised(q).outcome = outcome
        /\ \A k \in Fields \ {"pc", "outcome"} : Raised(q)[k] = job[q][k]
    BY <1>1, <1>5, FieldsAre
  <1> QED
    BY <1>4, <1>6

LEMMA RaisedTyped ==
  ASSUME Inv, Typed, NEW q \in Procs, job[q].pc \in Executing \cup {"graphify"},
         job'[q] = Raised(q)
  PROVE  JobTyped(q)'
  <1>1. CASE job[q].call.op = "run"
    BY <1>1, RaisedFields, EndingTyped, FieldsAre DEF Ending
  <1>2. CASE job[q].call.op # "run"
    BY <1>2, IdleTyped DEF Raised
  <1> QED
    BY <1>1, <1>2

LEMMA RescanOrderly ==
  ASSUME Inv, Typed, NEW q \in Procs, Rescan(q) PROVE Orderly(q)
  <1> DEFINE exec == IF job[q].plan.ingest \cup job[q].plan.prune = {} THEN {}
                     ELSE ExecRoots(q, RequestRoots(q))
  <1>1. exec \subseteq Roots \cup {Raw}
    <2>1. RequestRoots(q) \in Seq(Roots) /\ job[q].call.roots \in Seq(Roots)
      BY RequestTyped, WatchAssumption DEF Rescan, Typed, JobTyped, CallType
    <2>2. ExecRoots(q, RequestRoots(q)) \subseteq
              RangeOf(RequestRoots(q)) \cup RangeOf(job[q].call.roots) \cup {Raw}
      BY <2>1, ExecRange
    <2> QED
      BY <2>1, <2>2 DEF RangeOf
  <1>2. job[q].pc = "rescan" /\ job[q].call.op = "run"
    BY DEF Rescan, Typed, JobTyped
  <1> HIDE DEF exec
  <1>3. CASE job[q].call.execute
    <2>1. Moves(q, [job[q] EXCEPT !.pc = "list", !.exec = exec])
      BY <1>3 DEF Rescan, exec
    <2>2. PICK next : /\ Moves(q, next) /\ next.pc = "list" /\ next.exec = exec
                      /\ next.call = job[q].call /\ next.entries = job[q].entries
                      /\ next.roots = job[q].roots /\ next.outcome = job[q].outcome
      BY <2>1, Moved, FieldsAre
    <2>3. JobTyped(q)'
      BY <1>1, <1>2, <2>2, Moved, Stages DEF JobTyped, Typed, Executing, Ending
    <2> QED
      BY <2>2, <2>3, MovesOrderly DEF Rescan, IngestKept
  <1>4. CASE ~job[q].call.execute
    <2>1. PICK next : /\ Moves(q, next) /\ next.pc = "saverun"
                      /\ next.call = job[q].call /\ next.entries = job[q].entries
                      /\ next.roots = job[q].roots /\ next.outcome = job[q].outcome
      BY <1>4, Moved, FieldsAre DEF Rescan
    <2>2. JobTyped(q)'
      BY <1>2, <2>1, Moved, EndingTyped DEF Typed, JobTyped, Ending
    <2> QED
      BY <2>1, <2>2, MovesOrderly DEF Rescan, IngestKept
  <1> QED
    BY <1>3, <1>4

LEMMA ListRootOrderly ==
  ASSUME Inv, Typed, NEW q \in Procs, ListRoot(q) PROVE Orderly(q)
  <1> DEFINE present == {f \in Files : At(Root(q), f) # Gone}
  <1>1. Moves(q, [job[q] EXCEPT !.pc = "lock", !.todo = present, !.failures = FALSE,
                                !.listed = present])
    BY DEF ListRoot
  <1>2. present \subseteq Files
    OBVIOUS
  <1> HIDE DEF present
  <1>3. PICK next : /\ Moves(q, next) /\ next.pc = "lock" /\ next.exec = job[q].exec
                    /\ next.todo = present /\ next.listed = present
                    /\ next.call = job[q].call /\ next.entries = job[q].entries
                    /\ next.roots = job[q].roots /\ next.outcome = job[q].outcome
    BY <1>1, Moved, FieldsAre
  <1>4. JobTyped(q)'
    BY <1>2, <1>3, Moved, ExecutingTyped DEF ListRoot, Executing
  <1> QED
    BY <1>3, <1>4, MovesOrderly DEF ListRoot, IngestKept

LEMMA TakeLockOrderly ==
  ASSUME Inv, Typed, NEW q \in Procs, TakeLock(q) PROVE Orderly(q)
  <1>1. CASE lock.ingest = None
    <2>1. lock' = [lock EXCEPT !.ingest = q] /\ lock'.ingest = q
      BY <1>1 DEF TakeLock, Inv, Shape
    <2>2. IngestKept(q)
      BY <1>1, WatchAssumption DEF IngestKept
    <2>3. PICK next : /\ Moves(q, next) /\ next.pc = "ingest" /\ next.exec = job[q].exec
                      /\ next.todo = job[q].todo /\ next.listed = job[q].listed
                      /\ next.call = job[q].call /\ next.entries = job[q].entries
                      /\ next.roots = job[q].roots /\ next.outcome = job[q].outcome
      BY <1>1, Moved, FieldsAre DEF TakeLock
    <2>4. /\ job'[q] = next /\ job[q].pc = "lock" /\ job[q].exec # {}
          /\ job[q].todo \subseteq job[q].listed /\ job[q].listed \subseteq Files
      BY <2>3, Moved DEF TakeLock, Typed, JobTyped
    <2>5. JobTyped(q)'
      BY <2>1, <2>3, <2>4, ExecutingTyped DEF Executing
    <2> QED
      BY <2>2, <2>3, <2>5, MovesOrderly DEF TakeLock
  <1>2. CASE lock.ingest # None
    <2>1. Moves(q, Raised(q)) /\ UNCHANGED lock
      BY <1>2 DEF TakeLock
    <2>2. JobTyped(q)'
      BY <2>1, Moved, RaisedTyped DEF TakeLock, Executing
    <2> QED
      BY <2>1, <2>2, MovesOrderly DEF TakeLock, IngestKept
  <1> QED
    BY <1>1, <1>2

\* Entries are changed, and so is what the process that changes them makes of itself.
LEMMA EntriesOrderly ==
  ASSUME Inv, Typed, NEW q \in Procs, NEW F \in SUBSET Files, NEW change,
         job' = [Touched(F, Procs \ {q}) EXCEPT ![q] = change],
         \A f \in Files \ F : manifest'[f] = manifest[f],
         UNCHANGED <<source, config>>, manifest' \in Entries,
         IngestKept(q), JobTyped(q)'
  PROVE  Orderly(q)
  <1>1. Stored'
    BY DEF Typed, Stored
  <1>2. ASSUME NEW p \in Procs \ {q} PROVE Leaves(p)
    BY EntriesLeave DEF IngestKept
  <1> QED
    BY <1>1, <1>2 DEF Orderly

\* An entry stands for a text, or is gone.
LEMMA EntryTyped ==
  ASSUME NEW c \in Textual \cup Blank PROVE EntryFor(c) \in Textual \cup {Gone}
  BY DEF EntryFor

\* Nobody but q has the lock of the runtime.
LEMMA LockOwned ==
  ASSUME Inv, Typed, NEW q \in Procs, job[q].pc = "ingest",
         lock' = [lock EXCEPT !.ingest = None] \/ lock' = lock
  PROVE  IngestKept(q) /\ lock.ingest = q
  BY DEF IngestKept, Typed, JobTyped

LEMMA IngestFileOrderly ==
  ASSUME Inv, Typed, NEW q \in Procs, IngestFile(q) PROVE Orderly(q)
  <1> DEFINE f == First(FileOrder, job[q].todo)
             c == At(Root(q), f)
             next == [job[q] EXCEPT !.todo = @ \ {f}]
             failing == [next EXCEPT !.failures = TRUE]
  <1>1. /\ job[q].pc = "ingest" /\ job[q].todo # {} /\ job[q].exec # {}
        /\ job[q].todo \subseteq job[q].listed /\ job[q].listed \subseteq Files
        /\ lock.ingest = q /\ UNCHANGED <<source, config>>
    BY DEF IngestFile, Typed, JobTyped
  <1>2. f \in Files
    BY <1>1, NextFile
  <1>3. DOMAIN job[q] = Fields /\ DOMAIN next = Fields
    BY DEF Inv, Shape, Fields
  <1>4. \A x \in {next, failing} :
           /\ x.pc = "ingest" /\ x.exec = job[q].exec /\ x.todo = job[q].todo \ {f}
           /\ x.listed = job[q].listed /\ x.call = job[q].call
           /\ x.entries = job[q].entries /\ x.roots = job[q].roots
           /\ x.outcome = job[q].outcome
    BY <1>1, <1>3, FieldsAre
  <1>5. \/ Moves(q, Raised(q)) /\ UNCHANGED manifest /\ lock' = [lock EXCEPT !.ingest = None]
        \/ (Moves(q, next) \/ Moves(q, failing)) /\ UNCHANGED <<manifest, lock>>
        \/ c \in Textual \cup Blank /\ SetEntry(q, f, EntryFor(c), next) /\ UNCHANGED lock
    BY DEF IngestFile
  <1> HIDE DEF f, c, next, failing
  <1>6. ASSUME NEW x \in {next, failing}, job'[q] = x, UNCHANGED lock PROVE JobTyped(q)'
    <2>1. /\ x.todo \subseteq x.listed /\ x.listed \subseteq Files /\ x.exec # {}
          /\ x.exec \subseteq job[q].exec /\ x.pc \in Executing /\ job[q].pc \in Executing
          /\ x.call = job[q].call /\ x.entries = job[q].entries
          /\ x.roots = job[q].roots /\ x.outcome = job[q].outcome
      BY <1>1, <1>4, <1>6 DEF Executing
    <2> QED
      BY <1>1, <1>6, <2>1, ExecutingTyped
  <1>7. CASE Moves(q, Raised(q)) /\ UNCHANGED manifest /\ lock' = [lock EXCEPT !.ingest = None]
    <2>1. JobTyped(q)'
      BY <1>1, <1>7, Moved, RaisedTyped DEF Executing
    <2> QED
      BY <1>1, <1>7, <2>1, LockOwned, MovesOrderly
  <1>8. CASE (Moves(q, next) \/ Moves(q, failing)) /\ UNCHANGED <<manifest, lock>>
    BY <1>1, <1>6, <1>8, Moved, MovesOrderly DEF IngestKept
  <1>9. CASE c \in Textual \cup Blank /\ SetEntry(q, f, EntryFor(c), next) /\ UNCHANGED lock
    <2> DEFINE F == IF manifest[f] = EntryFor(c) THEN {} ELSE {f}
    <2>1. /\ job' = [Touched(F, Procs \ {q}) EXCEPT ![q] = next]
          /\ manifest' = [manifest EXCEPT ![f] = EntryFor(c)]
      BY <1>9 DEF SetEntry
    <2>2. /\ manifest' \in Entries /\ F \in SUBSET Files
          /\ \A g \in Files \ F : manifest'[g] = manifest[g]
      BY <1>2, <1>9, <2>1, EntryTyped DEF Typed, Stored, Entries
    <2>3. job'[q] = next
      BY <2>1 DEF Touched
    <2> HIDE DEF F
    <2> QED
      BY <1>1, <1>6, <1>9, <2>1, <2>2, <2>3, EntriesOrderly DEF IngestKept
  <1> QED
    BY <1>5, <1>7, <1>8, <1>9

LEMMA EndIngestOrderly ==
  ASSUME Inv, Typed, NEW q \in Procs, EndIngest(q) PROVE Orderly(q)
  <1> DEFINE next == [job[q] EXCEPT !.pc = "list", !.exec = @ \ {Root(q)},
                                    !.gone = @ \cup Unlisted(q)]
             change == IF job[q].failures THEN Raised(q) ELSE next
  <1>1. /\ job[q].pc = "ingest" /\ UNCHANGED <<source, config>>
        /\ lock' = [lock EXCEPT !.ingest = None]
        /\ manifest' = [f \in Files |-> IF f \in Unlisted(q) THEN Gone ELSE manifest[f]]
        /\ job' = [Touched(Unlisted(q), Procs \ {q}) EXCEPT ![q] = change]
    BY DEF EndIngest
  <1>2. /\ next.pc = "list" /\ next.exec \subseteq job[q].exec /\ next.call = job[q].call
        /\ next.entries = job[q].entries /\ next.roots = job[q].roots
        /\ next.outcome = job[q].outcome
    BY FieldsAre DEF Inv, Shape, Fields
  <1> HIDE DEF next
  <1>3. job'[q] = change
    BY <1>1 DEF Touched
  <1>4. JobTyped(q)'
    <2>1. CASE job[q].failures
      BY <1>1, <1>3, <2>1, RaisedTyped DEF Executing
    <2>2. CASE ~job[q].failures
      BY <1>1, <1>2, <1>3, <2>2, ExecutingTyped DEF Executing
    <2> QED
      BY <2>1, <2>2
  <1>5. /\ manifest' \in Entries /\ Unlisted(q) \in SUBSET Files
        /\ \A f \in Files \ Unlisted(q) : manifest'[f] = manifest[f]
    BY <1>1 DEF Typed, Stored, Entries, Unlisted
  <1> HIDE DEF change
  <1> QED
    BY <1>1, <1>4, <1>5, LockOwned, EntriesOrderly

LEMMA MarkOrderly ==
  ASSUME Inv, Typed, NEW q \in Procs, Mark(q) PROVE Orderly(q)
  <1>1. CASE job[q].call.op = "ingest"
    BY <1>1, Moved, IdleTyped, MovesOrderly DEF Mark, IngestKept
  <1>2. CASE job[q].call.op # "ingest"
    <2> DEFINE outcome == [[job[q].outcome EXCEPT !.ingested = job[q].plan.ingest]
                              EXCEPT !.pruned = job[q].plan.prune \cap job[q].gone]
               pc == IF job[q].plan.graphify THEN "graphify" ELSE "saverun"
    <2>1. DOMAIN job[q] = Fields /\ DOMAIN outcome = DOMAIN NoOutcome /\ pc \in Ending
      BY DEF Inv, Shape, Fields, Typed, JobTyped, Ending
    <2> DEFINE next == [job[q] EXCEPT !.pc = pc, !.outcome = outcome]
    <2>2. Moves(q, next)
      BY <1>2, <2>1, FieldsAre DEF Mark
    <2> HIDE DEF outcome, pc
    <2>3. /\ next.pc \in Ending /\ next.call = job[q].call
          /\ next.entries = job[q].entries /\ next.roots = job[q].roots
          /\ next.outcome = outcome
      BY <2>1, FieldsAre
    <2> HIDE DEF next
    <2>4. job[q].pc \in Executing /\ job[q].call.op = "run" /\ job'[q] = next
      BY <1>2, <2>2, Moved DEF Mark, Typed, JobTyped, Executing
    <2>5. JobTyped(q)'
      BY <2>1, <2>3, <2>4, EndingTyped
    <2> QED
      BY <2>2, <2>5, MovesOrderly DEF Mark, IngestKept
  <1> QED
    BY <1>1, <1>2

\* The fields of a run that has built graphify.
LEMMA BuiltFields ==
  ASSUME Inv, Typed, NEW q \in Procs,
         Moves(q, [job[q] EXCEPT !.pc = "saverun", !.outcome.graphified = TRUE])
  PROVE  /\ job'[q].pc = "saverun" /\ Keeps(q, {"pc", "outcome"})
         /\ DOMAIN job'[q].outcome = DOMAIN NoOutcome
         /\ \A k \in DOMAIN NoOutcome \ {"graphified"} :
                job'[q].outcome[k] = job[q].outcome[k]
  <1> DEFINE outcome == [job[q].outcome EXCEPT !.graphified = TRUE]
  <1>1. DOMAIN job[q] = Fields /\ DOMAIN job[q].outcome = DOMAIN NoOutcome
    BY DEF Inv, Shape, Fields, Typed, JobTyped
  <1>2. /\ DOMAIN outcome = DOMAIN NoOutcome
        /\ \A k \in DOMAIN NoOutcome \ {"graphified"} : outcome[k] = job[q].outcome[k]
    BY <1>1 DEF NoOutcome
  <1>3. job'[q] = [job[q] EXCEPT !.pc = "saverun", !.outcome = outcome]
    BY <1>1, Moved, FieldsAre
  <1> HIDE DEF outcome
  <1> QED
    BY <1>1, <1>2, <1>3, FieldsAre DEF Keeps

LEMMA GraphifyOrderly ==
  ASSUME Inv, Typed, NEW q \in Procs, Graphify(q) PROVE Orderly(q)
  <1> DEFINE next == [job[q] EXCEPT !.pc = "saverun", !.outcome.graphified = TRUE]
  <1>1. /\ job[q].pc = "graphify" /\ job[q].call.op = "run"
        /\ Moves(q, Raised(q)) \/ Moves(q, next)
        /\ UNCHANGED <<manifest, source, config, lock>>
    BY DEF Graphify, Typed, JobTyped, Ending
  <1>2. CASE Moves(q, Raised(q))
    BY <1>1, <1>2, Moved, RaisedTyped, MovesOrderly DEF IngestKept
  <1>3. CASE Moves(q, next)
    <2>1. /\ job'[q].pc = "saverun" /\ Keeps(q, {"pc", "outcome"})
          /\ DOMAIN job'[q].outcome = DOMAIN NoOutcome
      BY <1>3, BuiltFields
    <2>2. /\ job'[q].call = job[q].call /\ job'[q].entries = job[q].entries
          /\ job'[q].roots = job[q].roots
      BY <2>1, FieldsAre DEF Keeps
    <2>3. JobTyped(q)'
      BY <1>1, <2>1, <2>2, EndingTyped DEF Ending
    <2> HIDE DEF next
    <2> QED
      BY <1>1, <1>3, <2>3, MovesOrderly DEF IngestKept
  <1> QED
    BY <1>1, <1>2, <1>3

LEMMA SaveRunOrderly ==
  ASSUME Inv, Typed, NEW q \in Procs, SaveRun(q) PROVE Orderly(q)
  <1> DEFINE next == [Idle EXCEPT !.pc = "runpointer", !.call = job[q].call,
                                  !.plan = job[q].plan,
                                  !.payload = [plan |-> job[q].plan, run |-> Len(runs) + 1]]
  <1>1. Moves(q, next)
    BY DEF SaveRun
  <1>2. /\ next.pc = "runpointer" /\ next.call = job[q].call
        /\ next.outcome = NoOutcome /\ next.gone = {}
    BY IdleFields DEF Idle
  <1> HIDE DEF next
  <1>3. JobTyped(q)'
    BY <1>1, <1>2, Moved, PointerTyped DEF SaveRun, Ending
  <1> QED
    BY <1>1, <1>3, MovesOrderly DEF SaveRun, IngestKept

LEMMA StepOrderly ==
  ASSUME Inv, Typed, NEW q \in Procs,
         Step(q) \/ Kill(q) \/ \E call \in Calls : Call(q, call)
  PROVE  Orderly(q)
  <1>1. CASE Step(q)
    BY <1>1, EnterRunOrderly, LoadOrderly, ClassifyOrderly, SaveRootsOrderly,
       SavePlanOrderly, ReadLatestOrderly, OpenTmpOrderly, WriteTmpOrderly,
       ReplaceLatestOrderly, RescanOrderly, ListRootOrderly, TakeLockOrderly,
       IngestFileOrderly, EndIngestOrderly, MarkOrderly, GraphifyOrderly, SaveRunOrderly DEF Step
  <1>2. CASE Kill(q)
    BY <1>2, EndsOrderly DEF Kill
  <1> QED
    BY <1>1, <1>2, CallOrderly

LEMMA EditTyped ==
  ASSUME Inv, Typed, NEW r \in Roots, NEW f \in Files, NEW c \in Contents \cup {Gone},
         Edit(r, f, c)
  PROVE  Typed'
  <1>1. Stored'
    BY DEF Edit, Typed, Stored, Views
  <1>2. PICK q \in Procs : TRUE
    BY DEF Edit
  <1>3. ASSUME NEW p \in Procs PROVE JobTyped(p)'
    <2>1. JobTyped(p) /\ Keeps(p, {"touched"}) /\ lock' = lock
      BY EditLeaves DEF Typed, Leaves, Edit
    <2>2. /\ job'[p].pc = job[p].pc /\ job'[p].call = job[p].call
          /\ job'[p].entries = job[p].entries /\ job'[p].roots = job[p].roots
          /\ job'[p].exec = job[p].exec /\ job'[p].todo = job[p].todo
          /\ job'[p].listed = job[p].listed /\ job'[p].outcome = job[p].outcome
          /\ job'[p].gone = job[p].gone
      BY <2>1, FieldsAre DEF Keeps
    <2> QED
      BY <2>1, <2>2 DEF JobTyped
  <1> QED
    BY <1>1, <1>3 DEF Typed

LEMMA TypedInit == Init => Typed
  <1> SUFFICES ASSUME Init PROVE Typed
    OBVIOUS
  <1>1. Stored
    BY DEF Init, Stored, Views
  <1>2. ASSUME NEW p \in Procs PROVE JobTyped(p)
    BY <1>2, Stages DEF Init, JobTyped, Idle, Executing, Ending
  <1> QED
    BY <1>1, <1>2 DEF Typed

LEMMA TypedNext == Inv /\ Typed /\ [Next]_vars => Typed'
  <1> SUFFICES ASSUME Inv, Typed, [Next]_vars PROVE Typed'
    OBVIOUS
  <1>1. ASSUME NEW q \in Procs, Step(q) \/ Kill(q) \/ \E call \in Calls : Call(q, call)
        PROVE  Typed'
    BY <1>1, StepOrderly, TypedStep
  <1>2. ASSUME NEW r \in Roots, NEW f \in Files, NEW c \in Contents \cup {Gone},
               Edit(r, f, c)
        PROVE  Typed'
    BY <1>2, EditTyped
  <1>3. CASE UNCHANGED vars
    BY <1>3 DEF vars, Typed, Stored, JobTyped
  <1> QED
    BY <1>1, <1>2, <1>3 DEF Next

-----------------------------------------------------------------------------
(* What a run knows and does                                               *)

\* The plan is made of what was found and what the manifest said, and what is reported
\* is of the plan.
Planned(p) ==
    /\ job[p].pc \in Loaded \ {"classify"} =>
           /\ job[p].plan.ingest = Outdated(job[p].plan.found, job[p].entries)
           /\ job[p].plan.prune = IF job[p].call.prune
                                  THEN Missing(job[p].plan.found, job[p].entries) ELSE {}
    /\ job[p].pc \in Ending =>
           /\ job[p].outcome.ingested \subseteq job[p].plan.ingest
           /\ job[p].outcome.pruned \subseteq job[p].plan.prune

\* Of a file that nobody has touched the run knows what its sources still say ...
Known(p, f) ==
    job[p].pc \in Loaded \ {"classify"} =>
        job[p].plan.found[f] = IF job[p].roots = <<>> THEN job[p].entries[f]
                               ELSE View(job[p].roots)[f]

\* ... reads it in the roots that were scanned, until it executes finds the entry it
\* loaded, and has listed what is there.
Steady(p, f) ==
    /\ RequestRoots(p) = job[p].roots
    /\ job[p].pc \in {"classify"} \cup Before => manifest[f] = job[p].entries[f]
    /\ Known(p, f)
    /\ job[p].pc \in Executing => job[p].exec \subseteq RangeOf(job[p].roots) \cup {Raw}
    /\ job[p].pc \in {"lock", "ingest"} =>
           (f \in job[p].listed <=> At(Root(p), f) # Gone)

\* Some root yet to be ingested has f.
Awaited(p, f) == \E r \in job[p].exec : r # Raw /\ source[r][f] # Gone

\* A planned ingest of f is done, or has failed, or is still to come.
Ingesting(p, f) ==
    /\ Settled(p, f) \/ Awaited(p, f)
    /\ job[p].pc \in {"lock", "ingest"} /\ f \in job[p].listed \ job[p].todo /\ Root(p) # Raw =>
           Settled(p, f) \/ job[p].failures

\* So is a planned prune, if the root was not lost.
Pruning(p, f) ==
    IF f \in job[p].gone THEN manifest[f] = Gone
    ELSE manifest[f] # Gone /\ (LostRoot(p) \/ job[p].roots[1] \in job[p].exec)

\* What is reported of f is true.
Told(p, f) ==
    /\ f \in job[p].outcome.ingested => Settled(p, f)
    /\ f \in job[p].outcome.pruned => manifest[f] = Gone
    /\ job[p].outcome.failed \/ ~job[p].call.execute \/ LostRoot(p) \/ f \notin LeftOut(p)

\* A well posed run and a file that nobody has touched.
Right(p, f) ==
    /\ job[p].pc \in Executing \cup Ending /\ f \notin job[p].plan.ingest \cup job[p].plan.prune
           => manifest[f] = job[p].entries[f]
    /\ job[p].pc \in Executing =>
           /\ f \in job[p].plan.ingest => Ingesting(p, f)
           /\ f \in job[p].plan.prune => Pruning(p, f)
    /\ job[p].pc \in Ending => Told(p, f)

\* graphify is built last, and from what is in the manifest.
Fresh(p) ==
    /\ job[p].pc # "saverun" => ~job[p].outcome.graphified
    /\ job[p].outcome.graphified /\ job[p].touched = {} => graphify = manifest

RunOK(p) ==
    Busy(p) =>
        /\ Fresh(p) /\ Planned(p)
        /\ \A f \in Files \ job[p].touched : Steady(p, f) /\ (WellPosed(p) => Right(p, f))

\* raw_sources is none of the roots.
LEMMA RawApart == Raw \notin Roots
  BY DEF Roots

\* The fields of a run that others touch, or that goes on without more ado.
LEMMA GoesFields ==
  ASSUME NEW p, NEW F, Goes(p, F)
  PROVE  /\ job'[p].call = job[p].call /\ job'[p].roots = job[p].roots
         /\ job'[p].entries = job[p].entries /\ job'[p].plan = job[p].plan
         /\ job'[p].exec = job[p].exec /\ job'[p].listed = job[p].listed
         /\ job'[p].todo = job[p].todo /\ job'[p].failures = job[p].failures
         /\ job'[p].gone = job[p].gone /\ job'[p].outcome = job[p].outcome
  BY FieldsAre DEF Goes, Keeps

\* Where it stands then is much the same place.
LEMMA GoesPlace ==
  ASSUME NEW p, NEW F, Goes(p, F)
  PROVE  /\ job'[p].pc \in Loaded <=> job[p].pc \in Loaded
         /\ job'[p].pc = "classify" <=> job[p].pc = "classify"
         /\ job'[p].pc \in Before <=> job[p].pc \in Before
         /\ job'[p].pc \in Executing <=> job[p].pc \in Executing
         /\ job'[p].pc \in {"lock", "ingest"} <=> job[p].pc \in {"lock", "ingest"}
         /\ job'[p].pc \in Ending <=> job[p].pc \in Ending
         /\ job'[p].pc = "saverun" <=> job[p].pc = "saverun"
  BY DEF Goes, Loaded, Before, Executing, Ending

LEMMA GoesSteady ==
  ASSUME Typed, NEW p \in Procs, Busy(p), NEW F \in SUBSET Files, Goes(p, F),
         NEW f \in Files \ F, Steady(p, f)
  PROVE  Steady(p, f)'
  <1>1. /\ RequestRoots(p)' = RequestRoots(p) /\ manifest'[f] = manifest[f]
        /\ \A r \in Roots : source'[r][f] = source[r][f]
    BY DEF Goes
  <1>2. Root(p)' = Root(p)
    BY GoesFields DEF Root, First
  <1>3. Known(p, f)'
    <2>1. job[p].pc \in Loaded \ {"classify"} => job[p].roots \in Seq(Roots)
      BY DEF Busy, Typed, JobTyped
    <2>2. job[p].pc \in Loaded \ {"classify"} => View(job[p].roots)'[f] = View(job[p].roots)[f]
      <3> SUFFICES ASSUME job[p].roots \in Seq(Roots)
                   PROVE  View(job[p].roots)'[f] = View(job[p].roots)[f]
        BY <2>1
      <3> DEFINE roots == job[p].roots
      <3>1. job'[p].roots = roots
        BY GoesFields
      <3> QED
        BY <1>1, <3>1, RawApart, ViewSame
    <2> QED
      BY <2>2, GoesFields, GoesPlace DEF Steady, Known
  <1>4. job[p].pc \in {"lock", "ingest"} => (At(Root(p), f)' = At(Root(p), f))
    <2>1. job[p].pc \in {"lock", "ingest"} => Root(p) \in Roots \cup {Raw}
      BY NextRoot DEF Typed, JobTyped, Executing
    <2> QED
      BY <1>1, <1>2, <2>1 DEF At
  <1> QED
    BY <1>1, <1>2, <1>3, <1>4, GoesFields, GoesPlace DEF Steady

LEMMA GoesRight ==
  ASSUME Typed, NEW p \in Procs, Busy(p), NEW F \in SUBSET Files, Goes(p, F),
         NEW f \in Files \ F, Right(p, f)
  PROVE  Right(p, f)'
  <1>1. /\ manifest'[f] = manifest[f]
        /\ \A r \in Roots : source'[r][f] = source[r][f]
    BY DEF Goes
  <1>2. Root(p)' = Root(p)
    BY GoesFields DEF Root, First
  <1>3. Settled(p, f)' <=> Settled(p, f)
    BY <1>1, GoesFields DEF Settled
  <1>4. job[p].pc \in Executing => (Awaited(p, f)' <=> Awaited(p, f))
    BY <1>1, GoesFields DEF Awaited, Typed, JobTyped
  <1>5. LostRoot(p) => LostRoot(p)'
    <2>1. /\ job'[p].call = job[p].call /\ job'[p].plan = job[p].plan
          /\ job'[p].touched = job[p].touched \cup F
      BY GoesFields DEF Goes
    <2> QED
      BY <2>1 DEF LostRoot
  <1>6. f \notin LeftOut(p) => f \notin LeftOut(p)'
    BY GoesFields DEF LeftOut, Goes
  <1>7. Told(p, f) => Told(p, f)'
    BY <1>1, <1>3, <1>5, <1>6, GoesFields DEF Told
  <1>8. job[p].pc \in Executing /\ Ingesting(p, f) => Ingesting(p, f)'
    BY <1>2, <1>3, <1>4, GoesFields, GoesPlace DEF Ingesting
  <1>9. Pruning(p, f) => Pruning(p, f)'
    BY <1>1, <1>5, GoesFields DEF Pruning
  <1> QED
    BY <1>1, <1>7, <1>8, <1>9, GoesFields, GoesPlace DEF Right

LEMMA EntriesSame ==
  ASSUME NEW m \in Entries, NEW n \in Entries, \A f \in Files : m[f] = n[f]
  PROVE  m = n
  BY DEF Entries

\* A run to which nothing happens but that others touch files keeps what it knows.
LEMMA GoesOK ==
  ASSUME Typed, Typed', NEW p \in Procs, RunOK(p),
         Busy(p) => \E F \in SUBSET Files : Goes(p, F),
         Busy(p)' => Busy(p),
         graphify' = graphify
  PROVE  RunOK(p)'
  <1> SUFFICES ASSUME Busy(p)' PROVE RunOK(p)'
    BY DEF RunOK
  <1>1. PICK F \in SUBSET Files : Goes(p, F)
    OBVIOUS
  <1>2. /\ Busy(p) /\ Fresh(p) /\ Planned(p)
        /\ \A f \in Files \ job[p].touched : Steady(p, f) /\ (WellPosed(p) => Right(p, f))
    BY DEF RunOK
  <1>3. Planned(p)'
    BY <1>1, <1>2, GoesFields, GoesPlace DEF Planned
  <1>4. Fresh(p)'
    <2>1. job'[p].touched = {} => job[p].touched = {} /\ manifest' = manifest
      <3> SUFFICES ASSUME job'[p].touched = {}
                   PROVE  job[p].touched = {} /\ manifest' = manifest
        OBVIOUS
      <3>1. F = {} /\ job[p].touched = {}
        BY <1>1 DEF Goes
      <3>2. \A f \in Files : manifest'[f] = manifest[f]
        BY <1>1, <3>1 DEF Goes
      <3> QED
        BY <3>1, <3>2, EntriesSame DEF Typed, Stored
    <2> QED
      BY <1>1, <1>2, <2>1, GoesFields, GoesPlace DEF Fresh
  <1>5. WellPosed(p)' <=> WellPosed(p)
    <2>1. job'[p].call = job[p].call /\ job'[p].roots = job[p].roots
      BY <1>1, GoesFields
    <2> QED
      BY <2>1 DEF WellPosed
  <1>6. ASSUME NEW f \in Files \ job'[p].touched
        PROVE  Steady(p, f)' /\ (WellPosed(p)' => Right(p, f)')
    <2>1. f \in Files \ job[p].touched /\ f \in Files \ F
      BY <1>1 DEF Goes
    <2> QED
      BY <1>1, <1>2, <1>5, <2>1, GoesSteady, GoesRight
  <1> QED
    BY <1>3, <1>4, <1>6 DEF RunOK

\* So it is for those whose step it is not, if graphify is not built.
LEMMA LeavesOK ==
  ASSUME Typed, Typed', NEW p \in Procs, RunOK(p), Leaves(p), graphify' = graphify
  PROVE  RunOK(p)'
  <1>1. Busy(p)' => Busy(p)
    BY FieldsAre DEF Busy, Leaves, Keeps
  <1> QED
    BY <1>1, GoesOK DEF Leaves

-----------------------------------------------------------------------------
(* A run plans *)

\* The fields of a run that are of interest, when only those in K may change.
LEMMA KeptFields ==
  ASSUME NEW p, NEW K, Keeps(p, K)
  PROVE  /\ "call" \notin K => job'[p].call = job[p].call
         /\ "roots" \notin K => job'[p].roots = job[p].roots
         /\ "entries" \notin K => job'[p].entries = job[p].entries
         /\ "plan" \notin K => job'[p].plan = job[p].plan
         /\ "exec" \notin K => job'[p].exec = job[p].exec
         /\ "listed" \notin K => job'[p].listed = job[p].listed
         /\ "todo" \notin K => job'[p].todo = job[p].todo
         /\ "failures" \notin K => job'[p].failures = job[p].failures
         /\ "gone" \notin K => job'[p].gone = job[p].gone
         /\ "outcome" \notin K => job'[p].outcome = job[p].outcome
         /\ "touched" \notin K => job'[p].touched = job[p].touched
         /\ "pc" \notin K => job'[p].pc = job[p].pc
  BY FieldsAre DEF Keeps

\* The requested roots depend on the call and on the saved ones.
LEMMA RequestSame ==
  ASSUME NEW p, job'[p].call = job[p].call, config' = config
  PROVE  RequestRoots(p)' = RequestRoots(p)
  BY DEF RequestRoots

\* A run stays well posed.
LEMMA PosedSame ==
  ASSUME NEW p, job'[p].call = job[p].call, job'[p].roots = job[p].roots
  PROVE  WellPosed(p)' <=> WellPosed(p)
  BY DEF WellPosed

\* The manifest is loaded, and nothing has been touched since.
LEMMA LoadOK ==
  ASSUME Inv, Typed, NEW q \in Procs, Load(q) PROVE RunOK(q)'
  <1> DEFINE next == [job[q] EXCEPT !.pc = "classify", !.entries = manifest,
                                    !.roots = RequestRoots(q), !.touched = {}]
  <1>1. job'[q] = next /\ DOMAIN job[q] = Fields
    BY Moved DEF Load
  <1>2. /\ next.pc = "classify" /\ next.call = job[q].call /\ next.entries = manifest
        /\ next.roots = RequestRoots(q) /\ next.outcome = job[q].outcome
        /\ next.touched = {}
    BY <1>1, FieldsAre
  <1> HIDE DEF next
  <1>3. RequestRoots(q)' = job'[q].roots /\ manifest' = manifest
    BY <1>1, <1>2, RequestSame DEF Load
  <1>4. Fresh(q)'
    BY <1>1, <1>2, Stages DEF Load, Typed, JobTyped, Fresh, NoOutcome, Ending
  <1>5. Planned(q)'
    BY <1>1, <1>2, Stages DEF Planned, Ending
  <1>6. ASSUME NEW f \in Files PROVE Steady(q, f)' /\ Right(q, f)'
    BY <1>1, <1>2, <1>3, Stages DEF Steady, Known, Right, Executing, Ending
  <1> QED
    BY <1>4, <1>5, <1>6 DEF RunOK

\* The scan finds what is there.
LEMMA ClassifyOK ==
  ASSUME Inv, Typed, NEW q \in Procs, Classify(q), RunOK(q) PROVE RunOK(q)'
  <1> DEFINE found == View(ScanRoots(job[q].roots))
             plan == BuildPlan(job[q].call, found, job[q].entries)
  <1>1. /\ job[q].pc = "classify" /\ Moves(q, [job[q] EXCEPT !.pc = "saveroots", !.plan = plan])
        /\ UNCHANGED <<source, manifest, graphify, config>>
    BY DEF Classify
  <1>2. /\ plan.found = found /\ plan.ingest = Outdated(found, job[q].entries)
        /\ plan.prune = IF job[q].call.prune THEN Missing(found, job[q].entries) ELSE {}
    BY DEF BuildPlan
  <1> HIDE DEF found, plan
  <1>3. /\ job'[q].pc = "saveroots" /\ job'[q].plan = plan /\ Keeps(q, {"pc", "plan"})
    <2>1. job'[q] = [job[q] EXCEPT !.pc = "saveroots", !.plan = plan] /\ DOMAIN job[q] = Fields
      BY <1>1, Moved
    <2> QED
      BY <2>1, FieldsAre DEF Keeps
  <1> SUFFICES ASSUME Busy(q)' PROVE RunOK(q)'
    BY DEF RunOK
  <1>4. Busy(q)
    BY <1>1, <1>3, KeptFields, Stages DEF Busy
  <1>5. Fresh(q)'
    BY <1>1, <1>3, <1>4, KeptFields DEF RunOK, Fresh
  <1>6. Planned(q)'
    BY <1>2, <1>3, KeptFields, Stages DEF Planned, Ending
  <1>7. ASSUME NEW f \in Files \ job'[q].touched PROVE Steady(q, f)' /\ Right(q, f)'
    <2>1. Steady(q, f) /\ manifest[f] = job[q].entries[f] /\ RequestRoots(q) = job[q].roots
      BY <1>1, <1>3, <1>4, <1>7, KeptFields DEF RunOK, Steady
    <2>2. job[q].roots \in Seq(Roots)
      BY <1>1, Stages DEF Typed, JobTyped, Executing
    <2>3. CASE job[q].roots = <<>>
      <3> DEFINE scanned == <<Raw>>
      <3>1. /\ ScanRoots(job[q].roots) = scanned /\ scanned \in Seq({Raw})
            /\ 1 .. Len(scanned) = {1} /\ scanned[1] = Raw
        BY <2>3 DEF ScanRoots
      <3>2. At(scanned[1], f) = manifest[f]
        BY <3>1 DEF At
      <3> HIDE DEF scanned
      <3>3. found[f] = manifest[f]
        <4>1. /\ View(scanned)[f] # Gone =>
                     \E i \in 1 .. Len(scanned) : View(scanned)[f] = At(scanned[i], f)
              /\ View(scanned)[f] = Gone => \A i \in 1 .. Len(scanned) : At(scanned[i], f) = Gone
          BY <3>1, ViewFound
        <4>2. found = View(scanned)
          BY <3>1 DEF found
        <4> QED
          BY <3>1, <3>2, <4>1, <4>2
      <3> QED
        BY <1>1, <1>2, <1>3, <2>1, <2>3, <3>3, KeptFields, RequestSame, Stages
           DEF Steady, Known, Right, Executing, Ending
    <2>4. CASE job[q].roots # <<>>
      <3>1. found = View(job[q].roots)
        BY <2>4 DEF found, ScanRoots
      <3>2. View(job[q].roots)'[f] = View(job[q].roots)[f]
        <4>1. job'[q].roots = job[q].roots
          BY <1>3, KeptFields
        <4> QED
          BY <1>1, <2>2, <4>1, RawApart, ViewSame
      <3> QED
        BY <1>1, <1>2, <1>3, <2>1, <2>4, <3>1, <3>2, KeptFields, RequestSame, Stages
           DEF Steady, Known, Right, Executing, Ending
    <2> QED
      BY <2>3, <2>4
  <1> QED
    BY <1>5, <1>6, <1>7 DEF RunOK

\* A step by which only the place and the payload change, to a place that is as good.
LEMMA PlaceOK ==
  ASSUME Inv, Typed, Typed', NEW q \in Procs, RunOK(q), NEW next, Moves(q, next),
         \A k \in Fields \ {"pc", "payload"} : next[k] = job[q][k],
         {job[q].pc, next.pc} \subseteq Before \/ {job[q].pc, next.pc} \subseteq {"lock", "ingest"},
         UNCHANGED <<manifest, source, config, graphify>>
  PROVE  RunOK(q)'
  <1>1. job'[q] = next
    BY Moved
  <1>2. Keeps(q, {"pc", "payload"})
    BY <1>1 DEF Keeps
  <1>3. Goes(q, {})
    <2>1. job'[q].call = job[q].call /\ job'[q].touched = job[q].touched
      BY <1>2, KeptFields
    <2>2. Keeps(q, {"pc", "payload", "touched"})
      BY <1>2 DEF Keeps
    <2> QED
      BY <1>1, <2>1, <2>2, RequestSame DEF Goes
  <1>4. Busy(q)' => Busy(q)
    BY <1>3, GoesFields, GoesPlace DEF Busy
  <1> QED
    BY <1>3, <1>4, GoesOK

LEMMA SavePlanOK ==
  ASSUME Inv, Typed, Typed', NEW q \in Procs, RunOK(q), SavePlan(q) PROVE RunOK(q)'
  <1>1. PICK next : Moves(q, next) /\ next = [job[q] EXCEPT !.pc = "planpointer"]
    BY DEF SavePlan
  <1>2. /\ next.pc = "planpointer"
        /\ \A k \in Fields \ {"pc", "payload"} : next[k] = job[q][k]
    BY <1>1, Moved, FieldsAre
  <1> QED
    BY <1>1, <1>2, PlaceOK DEF SavePlan, Before

\* Of a process that ends nothing is asked.
LEMMA EndsRunOK ==
  ASSUME Inv, NEW q \in Procs, Ends(q) PROVE RunOK(q)'
  BY Moved, IdleFields, Stages DEF Ends, RunOK, Busy

\* The writing of the pointer is no part of what a run does.
LEMMA WritingOK ==
  ASSUME Inv, Typed, Typed', NEW q \in Procs, RunOK(q), NEW next, Moves(q, next),
         \A k \in Fields \ {"pc", "payload"} : next[k] = job[q][k],
         \/ {job[q].pc, next.pc} \subseteq Before
         \/ next.pc \in {"runtmp", "runwrite", "runreplace"},
         UNCHANGED <<manifest, source, config, graphify>>
  PROVE  RunOK(q)'
  <1>1. CASE {job[q].pc, next.pc} \subseteq Before
    BY <1>1, PlaceOK
  <1>2. CASE next.pc \in {"runtmp", "runwrite", "runreplace"}
    BY <1>2, Moved, Stages DEF RunOK, Busy
  <1> QED
    BY <1>1, <1>2

LEMMA ReadLatestOK ==
  ASSUME Inv, Typed, Typed', NEW q \in Procs, RunOK(q), ReadLatest(q) PROVE RunOK(q)'
  <1>1. CASE Ends(q)
    BY <1>1, EndsRunOK
  <1>2. CASE ~Ends(q)
    <2>1. PICK next : /\ Moves(q, next)
                      /\ next.pc = IF job[q].pc = "planpointer" THEN "plantmp" ELSE "runtmp"
                      /\ \A k \in Fields \ {"pc", "payload"} : next[k] = job[q][k]
      BY <1>2, Moved, FieldsAre DEF ReadLatest
    <2> QED
      BY <2>1, WritingOK DEF ReadLatest, Before
  <1> QED
    BY <1>1, <1>2

LEMMA OpenTmpOK ==
  ASSUME Inv, Typed, Typed', NEW q \in Procs, RunOK(q), OpenTmp(q) PROVE RunOK(q)'
  <1>1. PICK next : /\ Moves(q, next)
                    /\ next.pc = IF job[q].pc = "plantmp" THEN "planwrite" ELSE "runwrite"
                    /\ \A k \in Fields \ {"pc", "payload"} : next[k] = job[q][k]
    BY Moved, FieldsAre DEF OpenTmp
  <1> QED
    BY <1>1, WritingOK DEF OpenTmp, Before

LEMMA WriteTmpOK ==
  ASSUME Inv, Typed, Typed', NEW q \in Procs, RunOK(q), WriteTmp(q) PROVE RunOK(q)'
  <1>1. PICK next : /\ Moves(q, next)
                    /\ next.pc = IF job[q].pc = "planwrite" THEN "planreplace"
                                 ELSE "runreplace"
                    /\ \A k \in Fields \ {"pc", "payload"} : next[k] = job[q][k]
    BY Moved, FieldsAre DEF WriteTmp
  <1> QED
    BY <1>1, WritingOK DEF WriteTmp, Before

LEMMA ReplaceLatestOK ==
  ASSUME Inv, Typed, Typed', NEW q \in Procs, RunOK(q), ReplaceLatest(q) PROVE RunOK(q)'
  <1>1. CASE Ends(q)
    BY <1>1, EndsRunOK
  <1>2. CASE ~Ends(q)
    <2>1. /\ Moves(q, [job[q] EXCEPT !.pc = "rescan"])
          /\ job[q].pc = "planreplace"
          /\ UNCHANGED <<source, manifest, graphify, config>>
      BY <1>2 DEF ReplaceLatest
    <2>2. PICK next : /\ Moves(q, next) /\ next.pc = "rescan"
                      /\ \A k \in Fields \ {"pc", "payload"} : next[k] = job[q][k]
      BY <2>1, Moved, FieldsAre
    <2> QED
      BY <2>1, <2>2, PlaceOK DEF Before
  <1> QED
    BY <1>1, <1>2

\* A run that saves its roots goes on to rely on them.
LEMMA SaveRootsOK ==
  ASSUME Inv, Typed, Typed', NEW q \in Procs, RunOK(q), SaveRoots(q) PROVE RunOK(q)'
  <1> DEFINE F == Files \cap job[q].touched
  <1>1. job'[q] = [job[q] EXCEPT !.pc = "saveplan"] /\ DOMAIN job[q] = Fields
    BY DEF SaveRoots, Touched, Inv, Shape, Fields
  <1>2. /\ job[q].pc = "saveroots" /\ UNCHANGED <<source, manifest, graphify>>
        /\ config' = IF job[q].roots # <<>> THEN job[q].roots ELSE config
    BY DEF SaveRoots
  <1>3. Keeps(q, {"pc"}) /\ job'[q].pc = "saveplan"
    BY <1>1, FieldsAre DEF Keeps
  <1>4. Busy(q)' => Busy(q)
    BY <1>2, <1>3, KeptFields, Stages DEF Busy
  <1>5. ASSUME Busy(q) PROVE Goes(q, F)
    <2>1. job'[q].call = job[q].call /\ job'[q].touched = job[q].touched \cup F
      BY <1>3, KeptFields
    <2>2. ASSUME NEW f \in Files \ F PROVE RequestRoots(q)' = RequestRoots(q)
      <3>1. RequestRoots(q) = job[q].roots
        BY <1>5, <2>2 DEF RunOK, Steady
      <3> QED
        BY <1>2, <2>1, <3>1 DEF RequestRoots
    <2>3. Keeps(q, {"pc", "payload", "touched"})
      BY <1>3 DEF Keeps
    <2> QED
      BY <1>2, <1>3, <2>1, <2>2, <2>3 DEF Goes, Before
  <1> QED
    BY <1>2, <1>4, <1>5, GoesOK

-----------------------------------------------------------------------------
(* A run sets out to execute its plan *)

\* Where a file is that is to be ingested, or where there is something to be pruned,
\* is executed.
LEMMA ExecHolds ==
  ASSUME NEW p, NEW roots \in Seq(Roots), roots # <<>>,
         NEW f \in Files, View(roots)[f] # Gone,
         f \in Outdated(View(roots), manifest) \/ job[p].plan.prune # {}
  PROVE  \E i \in 1 .. Len(roots) : roots[i] \in ExecRoots(p, roots) /\ At(roots[i], f) # Gone
  <1> DEFINE found == View(roots)
             having == {g \in Files : found[g] # Gone}
             rootOf == [g \in having |-> roots[CHOOSE i \in Holding(roots, g) : TRUE]]
             work == {rootOf[g] : g \in Outdated(found, manifest)}
             all == {rootOf[g] : g \in DOMAIN rootOf}
                        \cup {job[p].call.roots[i] : i \in 1 .. Len(job[p].call.roots)}
             place == CHOOSE i \in Holding(roots, f) : TRUE
  <1>1. place \in 1 .. Len(roots) /\ At(roots[place], f) # Gone
    BY ViewFound
  <1>2. ScanRoots(roots) = roots
    BY DEF ScanRoots
  <1>3. ExecRoots(p, roots) = work \cup (IF job[p].plan.prune = {} THEN {}
                                         ELSE IF all = {} THEN {Raw} ELSE all)
    BY <1>2 DEF ExecRoots
  <1>4. f \in having /\ rootOf[f] = roots[place] /\ f \in DOMAIN rootOf
    OBVIOUS
  <1>5. /\ f \in Outdated(found, manifest) => roots[place] \in work
        /\ roots[place] \in all
    BY <1>4
  <1> HIDE DEF work, all, place
  <1> QED
    BY <1>1, <1>3, <1>5

\* The roots that were asked for are executed if there is something to be pruned.
LEMMA ExecAsked ==
  ASSUME NEW p, NEW roots, job[p].plan.prune # {}
  PROVE  RangeOf(job[p].call.roots) \subseteq ExecRoots(p, roots)
  BY DEF ExecRoots, RangeOf

\* The requested roots are the ones of the call, if it has any.
LEMMA RequestIs ==
  ASSUME NEW p, RequestRoots(p) = job[p].roots
  PROVE  job[p].call.roots # <<>> => job[p].call.roots = job[p].roots
  BY DEF RequestRoots

\* What a well posed run finds in one of its roots is what the scan has found.
LEMMA SeenAt ==
  ASSUME Typed, NEW p \in Procs, job[p].roots \in Seq(Roots), WellPosed(p),
         NEW f \in Files, NEW i \in 1 .. Len(job[p].roots),
         source[job[p].roots[i]][f] # Gone
  PROVE  View(job[p].roots)[f] = source[job[p].roots[i]][f]
  <1> DEFINE roots == job[p].roots
  <1>1. \A j \in 1 .. Len(roots) : roots[j] \in Roots /\ At(roots[j], f) = source[roots[j]][f]
    BY RawApart DEF At
  <1>2. \A j \in 1 .. Len(roots) :
            source[roots[j]][f] # Gone => Under[roots[j]][f] # {}
    BY <1>1 DEF Typed, Stored
  <1>3. \A j \in 1 .. Len(roots) : j # i => At(roots[j], f) = Gone
    BY <1>1, <1>2 DEF WellPosed
  <1>4. View(roots)[f] # Gone
    BY <1>1, ViewFound
  <1>5. PICK j \in 1 .. Len(roots) : View(roots)[f] = At(roots[j], f)
    BY <1>4, ViewFound
  <1> QED
    BY <1>1, <1>3, <1>4, <1>5

\* What a run knows at its second scan.
LEMMA RescanKnows ==
  ASSUME Inv, Typed, NEW q \in Procs, job[q].pc = "rescan", RunOK(q)
  PROVE  /\ Busy(q) /\ Fresh(q) /\ Planned(q)
         /\ job[q].roots \in Seq(Roots) /\ job[q].call.roots \in Seq(Roots)
         /\ job[q].outcome = NoOutcome /\ job[q].gone = {}
         /\ \A f \in Files \ job[q].touched :
                /\ Steady(q, f) /\ RequestRoots(q) = job[q].roots
                /\ manifest[f] = job[q].entries[f]
                /\ job[q].plan.found[f] = IF job[q].roots = <<>> THEN job[q].entries[f]
                                         ELSE View(job[q].roots)[f]
  <1>1. Busy(q) /\ job[q].call \in Calls
    BY Stages DEF Busy, Typed, JobTyped
  <1>2. /\ job[q].roots \in Seq(Roots) /\ job[q].call.roots \in Seq(Roots)
        /\ job[q].outcome = NoOutcome /\ job[q].gone = {}
    BY <1>1, Stages, WatchAssumption DEF Typed, JobTyped, Executing, Ending, CallType
  <1> QED
    BY <1>1, <1>2, Stages DEF RunOK, Steady, Known, Before

\* The roots that are left to be ingested hold what the plan is about.
LEMMA ExecPlanned ==
  ASSUME Inv, Typed, NEW q \in Procs, job[q].pc = "rescan", RunOK(q), WellPosed(q),
         NEW f \in Files \ job[q].touched, NEW exec,
         exec = ExecRoots(q, RequestRoots(q))
  PROVE  /\ f \in job[q].plan.ingest =>
                \E r \in exec : r # Raw /\ source[r][f] # Gone
         /\ f \in job[q].plan.prune =>
                manifest[f] # Gone /\ (LostRoot(q) \/ job[q].roots[1] \in exec)
  <1> DEFINE roots == job[q].roots
             plan == job[q].plan
             entries == job[q].entries
  <1>1. /\ roots \in Seq(Roots) /\ job[q].call.roots \in Seq(Roots)
        /\ RequestRoots(q) = roots /\ manifest[f] = entries[f]
        /\ plan.ingest = Outdated(plan.found, entries)
        /\ plan.prune = IF job[q].call.prune THEN Missing(plan.found, entries) ELSE {}
        /\ \A g \in Files \ job[q].touched :
               plan.found[g] = IF roots = <<>> THEN entries[g] ELSE View(roots)[g]
    BY RescanKnows, Stages DEF Planned
  <1>2. exec = ExecRoots(q, roots)
    BY <1>1
  <1>3. \A i \in 1 .. Len(roots) : roots[i] \in Roots /\ roots[i] # Raw
                                  /\ \A g \in Files : At(roots[i], g) = source[roots[i]][g]
    BY <1>1, RawApart DEF At
  <1>4. ASSUME f \in plan.ingest PROVE \E r \in exec : r # Raw /\ source[r][f] # Gone
    <2>1. plan.found[f] \notin Corrupt \cup {Gone, entries[f]}
      BY <1>1, <1>4 DEF Outdated
    <2>2. roots # <<>> /\ plan.found[f] = View(roots)[f]
      BY <1>1, <2>1
    <2>3. f \in Outdated(View(roots), manifest) /\ View(roots)[f] # Gone
      BY <1>1, <2>1, <2>2 DEF Outdated
    <2>4. PICK i \in 1 .. Len(roots) : roots[i] \in exec /\ At(roots[i], f) # Gone
      BY <1>1, <1>2, <2>2, <2>3, ExecHolds
    <2> QED
      BY <1>3, <2>4
  <1>5. ASSUME f \in plan.prune, ~LostRoot(q) PROVE roots[1] \in exec
    <2>1. Len(roots) = 1 /\ roots # <<>> /\ plan.prune # {}
      <3>1. job[q].call.prune
        BY <1>1, <1>5
      <3>2. Len(roots) = 1
        BY <3>1 DEF WellPosed
      <3> QED
        BY <1>5, <3>2
    <2>2. CASE job[q].call.roots # <<>>
      <3>1. job[q].call.roots = roots
        BY <1>1, <2>2, RequestIs
      <3>2. roots[1] \in RangeOf(job[q].call.roots)
        BY <2>1, <3>1 DEF RangeOf
      <3> QED
        BY <1>2, <2>1, <3>2, ExecAsked
    <2>3. CASE job[q].call.roots = <<>>
      <3>1. PICK g \in Files \ job[q].touched : plan.found[g] # Gone
        BY <1>5, <2>3 DEF LostRoot
      <3>2. View(roots)[g] # Gone
        BY <1>1, <2>1, <3>1
      <3>3. PICK i \in 1 .. Len(roots) : roots[i] \in exec
        BY <1>1, <1>2, <2>1, <3>2, ExecHolds
      <3> QED
        BY <2>1, <3>3
    <2> QED
      BY <2>2, <2>3
  <1>6. ASSUME f \in plan.prune PROVE manifest[f] # Gone
    BY <1>1, <1>6 DEF Missing
  <1> QED
    BY <1>4, <1>5, <1>6

LEMMA RescanOK ==
  ASSUME Inv, Typed, Typed', NEW q \in Procs, RunOK(q), Rescan(q) PROVE RunOK(q)'
  <1> DEFINE exec == IF job[q].plan.ingest \cup job[q].plan.prune = {} THEN {}
                     ELSE ExecRoots(q, RequestRoots(q))
  <1>1. /\ job[q].pc = "rescan" /\ UNCHANGED <<source, manifest, graphify, config>>
    BY DEF Rescan
  <1>2. /\ Busy(q) /\ Fresh(q) /\ Planned(q)
        /\ job[q].roots \in Seq(Roots) /\ job[q].call.roots \in Seq(Roots)
        /\ job[q].outcome = NoOutcome /\ job[q].gone = {}
    BY <1>1, RescanKnows
  <1>3. ASSUME NEW f \in Files \ job[q].touched
        PROVE  /\ Steady(q, f) /\ RequestRoots(q) = job[q].roots
               /\ manifest[f] = job[q].entries[f]
               /\ exec \subseteq RangeOf(job[q].roots) \cup {Raw}
    <2>1. Steady(q, f) /\ RequestRoots(q) = job[q].roots /\ manifest[f] = job[q].entries[f]
      BY <1>1, RescanKnows
    <2>2. RangeOf(job[q].call.roots) \subseteq RangeOf(job[q].roots)
      BY <2>1, RequestIs DEF RangeOf
    <2>3. ExecRoots(q, job[q].roots)
              \subseteq RangeOf(job[q].roots) \cup RangeOf(job[q].call.roots) \cup {Raw}
      BY <1>2, ExecRange
    <2> QED
      BY <2>1, <2>2, <2>3
  <1>4. ASSUME NEW f \in Files \ job[q].touched, WellPosed(q)
        PROVE  /\ f \in job[q].plan.ingest =>
                      \E r \in exec : r # Raw /\ source[r][f] # Gone
               /\ f \in job[q].plan.prune =>
                      manifest[f] # Gone /\ (LostRoot(q) \/ job[q].roots[1] \in exec)
    BY <1>1, <1>4, ExecPlanned
  <1> HIDE DEF exec
  <1>5. Keeps(q, {"pc", "exec"}) /\ \/ job'[q].pc = "list" /\ job'[q].exec = exec
                                    \/ job'[q].pc = "saverun" /\ ~job[q].call.execute
    <2>1. CASE job[q].call.execute
      <3>1. Moves(q, [job[q] EXCEPT !.pc = "list", !.exec = exec])
        BY <2>1 DEF Rescan, exec
      <3>2. job'[q] = [job[q] EXCEPT !.pc = "list", !.exec = exec] /\ DOMAIN job[q] = Fields
        BY <3>1, Moved
      <3> QED
        BY <3>2, FieldsAre DEF Keeps
    <2>2. CASE ~job[q].call.execute
      <3>1. Moves(q, [job[q] EXCEPT !.pc = "saverun"])
        BY <2>2 DEF Rescan
      <3>2. job'[q] = [job[q] EXCEPT !.pc = "saverun"] /\ DOMAIN job[q] = Fields
        BY <3>1, Moved
      <3> QED
        BY <2>2, <3>2, FieldsAre DEF Keeps
    <2> QED
      BY <2>1, <2>2
  <1>6. /\ job'[q].call = job[q].call /\ job'[q].roots = job[q].roots
        /\ job'[q].entries = job[q].entries /\ job'[q].plan = job[q].plan
        /\ job'[q].gone = {} /\ job'[q].outcome = NoOutcome
        /\ job'[q].touched = job[q].touched
    BY <1>2, <1>5, KeptFields
  <1>7. Fresh(q)'
    BY <1>6 DEF Fresh, NoOutcome
  <1>8. Planned(q)'
    BY <1>1, <1>2, <1>6, Stages DEF Planned, NoOutcome
  <1>9. ASSUME NEW f \in Files \ job'[q].touched PROVE Steady(q, f)'
    <2>1. Steady(q, f) /\ RequestRoots(q)' = job[q].roots
          /\ exec \subseteq RangeOf(job[q].roots) \cup {Raw}
      BY <1>1, <1>3, <1>6, <1>9, RequestSame
    <2>2. View(job[q].roots)'[f] = View(job[q].roots)[f]
      BY <1>1, <1>2, <1>6, RawApart, ViewSame
    <2>3. Known(q, f)'
      BY <1>1, <1>6, <2>1, <2>2, Stages DEF Steady, Known
    <2> QED
      BY <1>5, <1>6, <2>1, <2>3 DEF Steady, Before, Executing
  <1>10. ASSUME NEW f \in Files \ job'[q].touched, WellPosed(q)' PROVE Right(q, f)'
    <2>1. WellPosed(q) /\ manifest'[f] = job'[q].entries[f]
      BY <1>1, <1>3, <1>6, <1>10, PosedSame
    <2>2. CASE job'[q].pc = "list" /\ job'[q].exec = exec
      <3>1. f \in job[q].plan.ingest => Awaited(q, f)'
        BY <1>1, <1>4, <1>6, <2>1, <2>2 DEF Awaited
      <3>2. LostRoot(q) => LostRoot(q)'
        BY <1>6 DEF LostRoot
      <3>3. f \in job[q].plan.prune => Pruning(q, f)'
        BY <1>1, <1>4, <1>6, <2>1, <2>2, <3>2 DEF Pruning
      <3>4. f \in job[q].plan.ingest => Ingesting(q, f)'
        BY <2>2, <3>1 DEF Ingesting
      <3> QED
        BY <1>6, <2>1, <2>2, <3>3, <3>4 DEF Right, Ending
    <2>3. CASE job'[q].pc = "saverun" /\ ~job[q].call.execute
      <3>1. Told(q, f)'
        BY <1>6, <2>3 DEF Told, NoOutcome
      <3> QED
        BY <2>1, <2>3, <3>1 DEF Right, Executing
    <2> QED
      BY <1>5, <2>2, <2>3
  <1> QED
    BY <1>7, <1>8, <1>9, <1>10 DEF RunOK

-----------------------------------------------------------------------------
(* A run executes its plan *)

\* What a run knows while it executes, and when it ends.
LEMMA RunKnows ==
  ASSUME Inv, Typed, NEW q \in Procs, job[q].pc \in Executing \cup Ending, Busy(q), RunOK(q)
  PROVE  /\ Fresh(q) /\ Planned(q) /\ ~(job[q].pc \in Executing /\ job[q].outcome # NoOutcome)
         /\ job[q].roots \in Seq(Roots) /\ job[q].entries \in Entries
         /\ job[q].plan.ingest = Outdated(job[q].plan.found, job[q].entries)
         /\ job[q].plan.prune = IF job[q].call.prune
                                THEN Missing(job[q].plan.found, job[q].entries) ELSE {}
         /\ \A f \in Files \ job[q].touched :
                /\ Steady(q, f) /\ (WellPosed(q) => Right(q, f))
                /\ RequestRoots(q) = job[q].roots
                /\ job[q].plan.found[f] = IF job[q].roots = <<>> THEN job[q].entries[f]
                                         ELSE View(job[q].roots)[f]
  <1>1. /\ job[q].roots \in Seq(Roots) /\ job[q].entries \in Entries
        /\ ~(job[q].pc \in Executing /\ job[q].outcome # NoOutcome)
    BY Stages DEF Busy, Typed, JobTyped
  <1> QED
    BY <1>1, Stages DEF RunOK, Steady, Known, Planned, Executing, Ending

\* What a run sees at the end it saw when it executed.
LEMMA EndingSteady ==
  ASSUME Typed, NEW q \in Procs, Busy(q), job[q].pc \in Executing \cup Ending,
         job'[q].pc \in Ending,
         Keeps(q, {"pc", "outcome"}), UNCHANGED <<source, config>>,
         NEW f \in Files, Steady(q, f)
  PROVE  Steady(q, f)'
  <1>1. job[q].roots \in Seq(Roots)
    BY Stages DEF Busy, Typed, JobTyped
  <1>2. /\ job'[q].call = job[q].call /\ job'[q].roots = job[q].roots
        /\ job'[q].entries = job[q].entries /\ job'[q].plan = job[q].plan
    BY KeptFields
  <1>3. View(job[q].roots)'[f] = View(job[q].roots)[f]
    BY <1>1, <1>2, RawApart, ViewSame
  <1>4. Known(q, f)'
    BY <1>2, <1>3, Stages DEF Steady, Known, Executing, Ending
  <1> QED
    BY <1>2, <1>4, RequestSame, Stages DEF Steady, Ending, Executing, Before

\* In a run in which an exception is raised, what has been done is done.
LEMMA RaisedRunOK ==
  ASSUME Inv, Typed, NEW q \in Procs, RunOK(q),
         job[q].pc \in Executing \cup {"graphify"}, job'[q] = Raised(q),
         UNCHANGED <<source, config, graphify>>,
         job[q].pc = "graphify" => manifest' = manifest,
         \A f \in Files \ job[q].touched :
             WellPosed(q) /\ f \notin job[q].plan.ingest \cup job[q].plan.prune
                 => manifest'[f] = manifest[f]
  PROVE  RunOK(q)'
  <1>1. CASE job[q].call.op # "run"
    BY <1>1, IdleFields, Stages DEF Raised, RunOK, Busy
  <1>2. CASE job[q].call.op = "run"
    <2>1. Busy(q) /\ job[q].pc \in Executing \cup Ending
      BY <1>2, Stages DEF Busy, Executing, Ending
    <2>2. Keeps(q, {"pc", "outcome"}) /\ job'[q].pc = "saverun"
      BY <1>2, RaisedFields DEF Keeps
    <2>3. /\ job'[q].outcome.failed
          /\ job'[q].outcome.ingested = job[q].outcome.ingested
          /\ job'[q].outcome.pruned = job[q].outcome.pruned
          /\ job'[q].outcome.graphified = job[q].outcome.graphified
      BY <1>2, RaisedFields DEF NoOutcome
    <2>4. /\ job'[q].call = job[q].call /\ job'[q].roots = job[q].roots
          /\ job'[q].entries = job[q].entries /\ job'[q].plan = job[q].plan
          /\ job'[q].touched = job[q].touched
      BY <2>2, KeptFields
    <2>5. Fresh(q)'
      BY <2>1, <2>3, RunKnows, Stages DEF Fresh, Executing
    <2>6. Planned(q)'
      <3>1. job[q].pc \in Executing => job[q].outcome = NoOutcome
        BY <2>1, RunKnows
      <3>2. /\ job'[q].outcome.ingested \subseteq job[q].plan.ingest
            /\ job'[q].outcome.pruned \subseteq job[q].plan.prune
        BY <2>1, <2>3, <3>1, RunKnows DEF Planned, NoOutcome
      <3> QED
        BY <2>1, <2>4, <3>2, RunKnows DEF Planned
    <2>7. ASSUME NEW f \in Files \ job'[q].touched PROVE Steady(q, f)'
      BY <2>1, <2>2, <2>4, <2>7, RunKnows, EndingSteady DEF Ending
    <2>8. ASSUME NEW f \in Files \ job'[q].touched, WellPosed(q)' PROVE Right(q, f)'
      <3>1. WellPosed(q) /\ Right(q, f)
        BY <2>1, <2>4, <2>8, RunKnows, PosedSame
      <3>2. /\ f \in job[q].outcome.ingested => Settled(q, f)'
            /\ f \in job[q].outcome.pruned => manifest'[f] = Gone
        <4>1. CASE job[q].pc \in Executing
          <5>1. job[q].outcome = NoOutcome
            BY <2>1, <4>1, RunKnows
          <5> QED
            BY <5>1 DEF NoOutcome
        <4>2. CASE job[q].pc = "graphify"
          <5>1. Settled(q, f)' <=> Settled(q, f)
            BY <2>4, <4>2 DEF Settled
          <5> QED
            BY <3>1, <4>2, <5>1 DEF Right, Told, Ending
        <4> QED
          BY <4>1, <4>2
      <3>3. Told(q, f)'
        BY <2>3, <3>2 DEF Told
      <3> QED
        BY <2>1, <2>2, <2>4, <2>8, <3>1, <3>3, Stages DEF Right, Ending
    <2> QED
      BY <2>5, <2>6, <2>7, <2>8 DEF RunOK
  <1> QED
    BY <1>1, <1>2

LEMMA ListRootOK ==
  ASSUME Inv, Typed, NEW q \in Procs, RunOK(q), ListRoot(q) PROVE RunOK(q)'
  <1> DEFINE present == {f \in Files : At(Root(q), f) # Gone}
             next == [job[q] EXCEPT !.pc = "lock", !.todo = present, !.failures = FALSE,
                                    !.listed = present]
  <1>1. /\ job[q].pc = "list" /\ Moves(q, next)
        /\ UNCHANGED <<source, manifest, graphify, config>>
    BY DEF ListRoot
  <1> HIDE DEF present
  <1>2. /\ job'[q].pc = "lock" /\ job'[q].todo = present /\ job'[q].listed = present
        /\ Keeps(q, {"pc", "todo", "failures", "listed"})
    <2>1. job'[q] = next /\ DOMAIN job[q] = Fields
      BY <1>1, Moved
    <2> QED
      BY <2>1, FieldsAre DEF Keeps
  <1> HIDE DEF next
  <1> SUFFICES ASSUME Busy(q)' PROVE RunOK(q)'
    BY DEF RunOK
  <1>3. /\ job'[q].call = job[q].call /\ job'[q].roots = job[q].roots
        /\ job'[q].entries = job[q].entries /\ job'[q].plan = job[q].plan
        /\ job'[q].exec = job[q].exec /\ job'[q].gone = job[q].gone
        /\ job'[q].touched = job[q].touched /\ job'[q].outcome = job[q].outcome
    BY <1>2, KeptFields
  <1>4. Busy(q) /\ job[q].pc \in Executing
    BY <1>1, <1>3, Stages DEF Busy, Executing
  <1>5. Root(q)' = Root(q)
    BY <1>3 DEF Root, First
  <1>6. Fresh(q)'
    BY <1>1, <1>3, <1>4, RunKnows DEF Fresh
  <1>7. Planned(q)'
    BY <1>2, <1>3, <1>4, RunKnows DEF Planned, Ending
  <1>8. ASSUME NEW f \in Files \ job'[q].touched PROVE Steady(q, f)'
    <2>1. Steady(q, f) /\ RequestRoots(q)' = job'[q].roots /\ job[q].roots \in Seq(Roots)
      BY <1>1, <1>3, <1>4, <1>8, RequestSame, RunKnows
    <2>2. View(job[q].roots)'[f] = View(job[q].roots)[f]
      BY <1>1, <1>3, <2>1, RawApart, ViewSame
    <2>3. Known(q, f)'
      BY <1>1, <1>3, <2>1, <2>2, Stages DEF Steady, Known
    <2>4. At(Root(q), f)' = At(Root(q), f)
      BY <1>1, <1>5 DEF At
    <2> QED
      BY <1>1, <1>2, <1>3, <1>5, <2>1, <2>3, <2>4 DEF Steady, present, Before, Executing
  <1>9. ASSUME NEW f \in Files \ job'[q].touched, WellPosed(q)' PROVE Right(q, f)'
    <2>1. WellPosed(q) /\ Right(q, f)
      BY <1>3, <1>4, <1>9, RunKnows, PosedSame
    <2>2. Settled(q, f)' <=> Settled(q, f)
      BY <1>1, <1>3 DEF Settled
    <2>3. Awaited(q, f)' <=> Awaited(q, f)
      BY <1>1, <1>3 DEF Awaited
    <2>4. LostRoot(q)' <=> LostRoot(q)
      BY <1>3 DEF LostRoot
    <2>5. Pruning(q, f)' <=> Pruning(q, f)
      BY <1>1, <1>3, <2>4 DEF Pruning
    <2>6. Ingesting(q, f) => Ingesting(q, f)'
      BY <1>2, <2>2, <2>3 DEF Ingesting
    <2> QED
      BY <1>1, <1>2, <1>3, <1>4, <2>1, <2>5, <2>6 DEF Right, Executing, Ending
  <1> QED
    BY <1>6, <1>7, <1>8, <1>9 DEF RunOK

LEMMA TakeLockOK ==
  ASSUME Inv, Typed, Typed', NEW q \in Procs, RunOK(q), TakeLock(q) PROVE RunOK(q)'
  <1>1. job[q].pc = "lock" /\ UNCHANGED <<source, manifest, graphify, config>>
    BY DEF TakeLock
  <1>2. CASE lock.ingest = None
    <2>1. Moves(q, [job[q] EXCEPT !.pc = "ingest"])
      BY <1>2 DEF TakeLock
    <2>2. PICK next : /\ Moves(q, next) /\ next.pc = "ingest"
                      /\ \A k \in Fields \ {"pc", "payload"} : next[k] = job[q][k]
      BY <2>1, Moved, FieldsAre
    <2> QED
      BY <1>1, <2>2, PlaceOK
  <1>3. CASE lock.ingest # None
    <2>1. job'[q] = Raised(q)
      BY <1>3, Moved DEF TakeLock
    <2> QED
      BY <1>1, <2>1, RaisedRunOK DEF Executing
  <1> QED
    BY <1>2, <1>3

\* A run that goes on with its roots keeps what it knows.
LEMMA ExecutionOK ==
  ASSUME Inv, Typed, NEW q \in Procs, RunOK(q), Busy(q),
         job[q].pc \in Executing, job'[q].pc \in Executing,
         Keeps(q, {"pc", "exec", "listed", "todo", "failures", "gone"}),
         job'[q].exec \subseteq job[q].exec,
         UNCHANGED <<source, graphify, config>>,
         \A f \in Files \ job[q].touched :
             /\ job'[q].pc \in {"lock", "ingest"} =>
                    (f \in job'[q].listed <=> At(Root(q), f)' # Gone)
             /\ WellPosed(q) => Right(q, f)'
  PROVE  RunOK(q)'
  <1>1. /\ job'[q].call = job[q].call /\ job'[q].roots = job[q].roots
        /\ job'[q].entries = job[q].entries /\ job'[q].plan = job[q].plan
        /\ job'[q].touched = job[q].touched /\ job'[q].outcome = job[q].outcome
    BY KeptFields
  <1>2. Fresh(q)'
    BY <1>1, RunKnows DEF Fresh, NoOutcome
  <1>3. Planned(q)'
    BY <1>1, RunKnows DEF Planned, Executing, Ending
  <1>4. ASSUME NEW f \in Files \ job'[q].touched PROVE Steady(q, f)'
    <2>1. Steady(q, f) /\ RequestRoots(q)' = job'[q].roots /\ job[q].roots \in Seq(Roots)
      BY <1>1, <1>4, RequestSame, RunKnows
    <2>2. View(job[q].roots)'[f] = View(job[q].roots)[f]
      BY <1>1, <2>1, RawApart, ViewSame
    <2>3. Known(q, f)'
      BY <1>1, <2>1, <2>2, Stages DEF Steady, Known, Executing
    <2> QED
      BY <1>1, <1>4, <2>1, <2>3 DEF Steady, Before, Executing
  <1>5. WellPosed(q)' => WellPosed(q)
    BY <1>1, PosedSame
  <1> QED
    BY <1>1, <1>2, <1>3, <1>4, <1>5 DEF RunOK

\* What a well posed run that ingests a root knows of a file that nobody has touched.
LEMMA IngestKnows ==
  ASSUME Inv, Typed, NEW q \in Procs, RunOK(q), Busy(q), job[q].pc = "ingest",
         WellPosed(q), NEW f \in Files \ job[q].touched
  PROVE  /\ Right(q, f) /\ Root(q) \in job[q].exec
         /\ f \in job[q].listed <=> At(Root(q), f) # Gone
         /\ job[q].entries[f] \in Textual \cup {Gone}
         /\ f \notin job[q].plan.ingest \cup job[q].plan.prune => manifest[f] = job[q].entries[f]
         /\ Root(q) # Raw =>
                /\ \E i \in 1 .. Len(job[q].roots) : Root(q) = job[q].roots[i]
                /\ At(Root(q), f) = source[Root(q)][f]
                /\ At(Root(q), f) # Gone => job[q].plan.found[f] = At(Root(q), f)
                /\ job[q].plan.found[f] = Gone => At(Root(q), f) = Gone
  <1>1. /\ Steady(q, f) /\ Right(q, f) /\ job[q].roots \in Seq(Roots)
        /\ job[q].entries \in Entries
        /\ job[q].plan.found[f] = IF job[q].roots = <<>> THEN job[q].entries[f]
                                  ELSE View(job[q].roots)[f]
    BY RunKnows DEF Executing
  <1>2. Root(q) \in job[q].exec /\ job[q].exec \subseteq RangeOf(job[q].roots) \cup {Raw}
    BY <1>1, NextRoot DEF Steady, Executing, Typed, JobTyped
  <1>3. ASSUME Root(q) # Raw
        PROVE  /\ \E i \in 1 .. Len(job[q].roots) : Root(q) = job[q].roots[i]
               /\ At(Root(q), f) = source[Root(q)][f]
               /\ At(Root(q), f) # Gone => job[q].plan.found[f] = At(Root(q), f)
               /\ job[q].plan.found[f] = Gone => At(Root(q), f) = Gone
    <2>1. PICK i \in 1 .. Len(job[q].roots) : Root(q) = job[q].roots[i]
      BY <1>2, <1>3 DEF RangeOf
    <2>2. At(Root(q), f) = source[Root(q)][f] /\ job[q].roots # <<>>
      BY <1>1, <1>3, <2>1 DEF At
    <2>3. At(Root(q), f) # Gone => View(job[q].roots)[f] = source[Root(q)][f]
      BY <1>1, <2>1, <2>2, SeenAt
    <2>4. View(job[q].roots)[f] = Gone => At(job[q].roots[i], f) = Gone
      BY <1>1, ViewFound
    <2> QED
      BY <1>1, <2>1, <2>2, <2>3, <2>4
  <1>4. /\ f \in job[q].listed <=> At(Root(q), f) # Gone
        /\ job[q].entries[f] \in Textual \cup {Gone}
        /\ f \notin job[q].plan.ingest \cup job[q].plan.prune => manifest[f] = job[q].entries[f]
    BY <1>1 DEF Steady, Right, Executing, Entries
  <1> QED
    BY <1>1, <1>2, <1>3, <1>4

\* Of the entries that nobody else has touched, an ingest of a well posed run changes
\* only those of the plan: it ingests what the plan has found.
LEMMA IngestPlanned ==
  ASSUME Inv, Typed, NEW q \in Procs, RunOK(q), Busy(q), job[q].pc = "ingest",
         WellPosed(q), NEW f \in Files \ job[q].touched,
         NEW c, c = At(Root(q), f), c \in Textual \cup Blank
  PROVE  /\ f \notin job[q].plan.ingest => EntryFor(c) = manifest[f]
         /\ Root(q) = Raw => EntryFor(c) = manifest[f]
         /\ Root(q) # Raw => c = job[q].plan.found[f]
  <1>1. /\ c \in Contents /\ c # Gone /\ c \notin Corrupt
    BY WatchAssumption DEF Textual
  <1>2. CASE Root(q) = Raw
    <2>1. c = manifest[f] /\ manifest[f] \in Textual \cup {Gone}
      BY <1>2 DEF At, Typed, Stored, Entries
    <2> QED
      BY <1>1, <1>2, <2>1 DEF EntryFor, Textual
  <1>3. CASE Root(q) # Raw
    <2>1. c = job[q].plan.found[f] /\ job[q].entries[f] \in Textual \cup {Gone}
      BY <1>1, <1>3, IngestKnows
    <2>2. /\ job[q].plan.ingest = Outdated(job[q].plan.found, job[q].entries)
          /\ job[q].plan.prune \subseteq Missing(job[q].plan.found, job[q].entries)
      BY RunKnows DEF Executing
    <2>3. ASSUME f \notin job[q].plan.ingest PROVE EntryFor(c) = manifest[f]
      <3>1. c = job[q].entries[f]
        BY <1>1, <2>1, <2>2, <2>3 DEF Outdated
      <3>2. f \notin job[q].plan.prune
        BY <1>1, <2>1, <2>2 DEF Missing
      <3>3. manifest[f] = c
        BY <2>3, <3>1, <3>2, IngestKnows
      <3> QED
        BY <1>1, <2>1, <3>1, <3>3 DEF EntryFor, Textual
    <2> QED
      BY <1>3, <2>1, <2>3
  <1> QED
    BY <1>2, <1>3

\* An ingest of a well posed run prunes only what the plan says.
LEMMA PruningPlanned ==
  ASSUME Inv, Typed, NEW q \in Procs, RunOK(q), Busy(q), job[q].pc = "ingest",
         WellPosed(q), NEW f \in Files \ job[q].touched, f \in Unlisted(q)
  PROVE  f \in job[q].plan.prune /\ f \notin job[q].plan.ingest
  <1>1. f \notin job[q].listed /\ manifest[f] # Gone /\ job[q].call.prune
    BY DEF Unlisted
  <1>2. At(Root(q), f) = Gone /\ Root(q) # Raw
    BY <1>1, IngestKnows DEF At
  <1>3. Len(job[q].roots) = 1
    BY <1>1 DEF WellPosed
  <1>4. Root(q) = job[q].roots[1]
    BY <1>2, <1>3, IngestKnows
  <1>5. /\ job[q].roots \in Seq(Roots)
        /\ job[q].plan.ingest = Outdated(job[q].plan.found, job[q].entries)
        /\ job[q].plan.prune = Missing(job[q].plan.found, job[q].entries)
        /\ job[q].plan.found[f] = IF job[q].roots = <<>> THEN job[q].entries[f]
                                  ELSE View(job[q].roots)[f]
    BY <1>1, RunKnows DEF Executing
  <1>6. View(job[q].roots)[f] = Gone
    <2>1. View(job[q].roots)[f] # Gone =>
              \E i \in 1 .. Len(job[q].roots) : View(job[q].roots)[f] = At(job[q].roots[i], f)
      BY <1>5, ViewFound
    <2> QED
      BY <1>2, <1>3, <1>4, <2>1
  <1>7. job[q].plan.found[f] = Gone
    <2>1. Len(<<>>) = 0
      OBVIOUS
    <2>2. job[q].roots # <<>>
      BY <1>3, <2>1
    <2> QED
      BY <1>5, <1>6, <2>2
  <1>8. f \notin job[q].plan.ingest
    BY <1>5, <1>7 DEF Outdated
  <1> QED
    BY <1>1, <1>5, <1>7, <1>8, IngestKnows DEF Missing

\* The next file of a root.
LEMMA IngestFileOK ==
  ASSUME Inv, Typed, NEW q \in Procs, RunOK(q), IngestFile(q) PROVE RunOK(q)'
  <1> DEFINE file == First(FileOrder, job[q].todo)
             content == At(Root(q), file)
             next == [job[q] EXCEPT !.todo = @ \ {file}]
             failing == [next EXCEPT !.failures = TRUE]
  <1>1. /\ job[q].pc = "ingest" /\ job[q].todo # {}
        /\ job[q].todo \subseteq job[q].listed /\ job[q].listed \subseteq Files
        /\ UNCHANGED <<source, graphify, config>>
    BY DEF IngestFile, Typed, JobTyped
  <1>2. file \in job[q].todo /\ file \in Files
    BY <1>1, NextFile
  <1>3. DOMAIN job[q] = Fields /\ DOMAIN next = Fields
    BY DEF Inv, Shape, Fields
  <1>4. /\ \A x \in {next, failing} :
               /\ x.todo = job[q].todo \ {file}
               /\ \A k \in Fields \ {"todo", "failures"} : x[k] = job[q][k]
        /\ failing.failures = TRUE /\ next.failures = job[q].failures
    BY <1>3, FieldsAre
  <1>5. \/ Moves(q, Raised(q)) /\ UNCHANGED manifest
        \/ content \in Empty /\ Moves(q, next) /\ UNCHANGED manifest
        \/ content \in Unreadable \cup Corrupt /\ Moves(q, failing) /\ UNCHANGED manifest
        \/ content \in Textual \cup Blank /\ SetEntry(q, file, EntryFor(content), next)
    BY DEF IngestFile
  <1> HIDE DEF file, content, next, failing
  <1>6. CASE Moves(q, Raised(q)) /\ UNCHANGED manifest
    BY <1>1, <1>6, Moved, RaisedRunOK DEF Executing
  <1>7. ASSUME NEW x \in {next, failing}, job'[q] = x,
               \/ content \in Empty /\ UNCHANGED manifest
               \/ content \in Unreadable \cup Corrupt /\ x = failing /\ UNCHANGED manifest
               \/ /\ content \in Textual \cup Blank
                  /\ manifest' = [manifest EXCEPT ![file] = EntryFor(content)]
        PROVE  RunOK(q)'
    <2>1. Keeps(q, {"todo", "failures"})
      BY <1>4, <1>7 DEF Keeps
    <2>2. /\ job'[q].pc = "ingest" /\ job'[q].exec = job[q].exec
          /\ job'[q].listed = job[q].listed /\ job'[q].todo = job[q].todo \ {file}
          /\ job'[q].call = job[q].call /\ job'[q].roots = job[q].roots
          /\ job'[q].entries = job[q].entries /\ job'[q].plan = job[q].plan
          /\ job'[q].touched = job[q].touched /\ job'[q].gone = job[q].gone
          /\ job[q].failures => job'[q].failures
      BY <1>1, <1>4, <1>7, <2>1, KeptFields
    <2>3. Root(q)' = Root(q)
      BY <2>2 DEF Root, First
    <2> SUFFICES ASSUME Busy(q)' PROVE RunOK(q)'
      BY DEF RunOK
    <2>4. Busy(q)
      BY <1>1, <2>2 DEF Busy
    <2>5. manifest \in Entries /\ \A g \in Files \ {file} : manifest'[g] = manifest[g]
      BY <1>7 DEF Typed, Stored, Entries
    <2>6. \/ manifest'[file] = manifest[file]
          \/ content \in Textual \cup Blank /\ manifest'[file] = EntryFor(content)
      BY <1>2, <1>7, <2>5 DEF Entries
    <2>7. ASSUME NEW g \in Files \ job[q].touched
          PROVE  g \in job'[q].listed <=> At(Root(q), g)' # Gone
      <3>1. g \in job[q].listed <=> At(Root(q), g) # Gone
        BY <1>1, <2>4, <2>7, RunKnows DEF Steady, Executing
      <3>2. Root(q) # Raw => At(Root(q), g)' = At(Root(q), g)
        BY <1>1, <2>3 DEF At
      <3>3. Root(q) = Raw => manifest'[g] = manifest[g]
        <4> SUFFICES ASSUME Root(q) = Raw, g = file, content \in Textual \cup Blank
                     PROVE  EntryFor(content) = manifest[g]
          BY <2>5, <2>6, <2>7
        <4>1. content = manifest[file]
          BY DEF content, At
        <4>2. manifest[file] \in Textual \cup {Gone}
          BY <1>2, <2>5 DEF Entries
        <4> QED
          BY <4>1, <4>2, WatchAssumption DEF EntryFor, Textual
      <3>4. Root(q) = Raw => At(Root(q), g)' = At(Root(q), g)
        BY <2>3, <3>3 DEF At
      <3> QED
        BY <2>2, <3>1, <3>2, <3>4
    <2>8. ASSUME NEW g \in Files \ job[q].touched, WellPosed(q) PROVE Right(q, g)'
      <3>1. Right(q, g) /\ (Root(q) # Raw /\ At(Root(q), g) # Gone =>
                                job[q].plan.found[g] = At(Root(q), g))
        BY <1>1, <2>4, <2>8, IngestKnows
      <3>2. /\ g \notin job[q].plan.ingest => manifest'[g] = manifest[g]
            /\ Root(q) = Raw => manifest'[g] = manifest[g]
        <4> SUFFICES ASSUME g = file, content \in Textual \cup Blank,
                            manifest'[file] = EntryFor(content)
                     PROVE  /\ file \notin job[q].plan.ingest => EntryFor(content) = manifest[file]
                            /\ Root(q) = Raw => EntryFor(content) = manifest[file]
          BY <2>5, <2>6, <2>8
        <4> QED
          BY <1>1, <2>4, <2>8, IngestPlanned DEF content
      <3>3. g = file /\ Root(q) # Raw => Settled(q, g)' \/ job'[q].failures
        <4> SUFFICES ASSUME g = file, Root(q) # Raw PROVE Settled(q, g)' \/ job'[q].failures
          OBVIOUS
        <4>1. CASE content \in Unreadable \cup Corrupt /\ x = failing
          BY <1>4, <1>7, <4>1
        <4>2. CASE content \in Empty
          <5>1. content # Gone
            BY <4>2, WatchAssumption
          <5>2. job[q].plan.found[g] = content
            BY <3>1, <5>1 DEF content
          <5> QED
            BY <2>2, <4>2, <5>2 DEF Settled
        <4>3. CASE /\ content \in Textual \cup Blank
                   /\ manifest' = [manifest EXCEPT ![file] = EntryFor(content)]
          <5>1. job[q].plan.found[g] = content
            BY <1>1, <2>4, <2>8, <4>3, IngestPlanned DEF content
          <5>2. manifest'[g] = EntryFor(content)
            BY <1>2, <2>5, <4>3 DEF Entries
          <5> QED
            BY <2>2, <4>3, <5>1, <5>2 DEF Settled, EntryFor
        <4> QED
          BY <1>7, <4>1, <4>2, <4>3
      <3>4. Settled(q, g) => Settled(q, g)' \/ (g = file /\ Root(q) # Raw)
        BY <2>2, <2>5, <3>2 DEF Settled
      <3>5. Awaited(q, g) => Awaited(q, g)'
        BY <1>1, <2>2 DEF Awaited
      <3> QED
        <4>1. ASSUME g \in job[q].plan.ingest PROVE Ingesting(q, g)'
          <5>1. Ingesting(q, g)
            BY <1>1, <3>1, <4>1 DEF Right, Executing
          <5>2. Settled(q, g)' \/ Awaited(q, g)'
            <6>1. CASE g = file /\ Root(q) # Raw
              <7>1. source[Root(q)][g] # Gone
                BY <1>1, <1>2, <2>4, <2>8, <6>1, IngestKnows
              <7>2. Root(q) \in job[q].exec
                BY <1>1, <2>4, <2>8, IngestKnows
              <7> QED
                BY <1>1, <2>2, <6>1, <7>1, <7>2 DEF Awaited
            <6>2. CASE ~(g = file /\ Root(q) # Raw)
              BY <3>4, <3>5, <5>1, <6>2 DEF Ingesting
            <6> QED
              BY <6>1, <6>2
          <5>3. g \in job[q].listed \ (job[q].todo \ {file}) /\ Root(q) # Raw
                    => Settled(q, g)' \/ job'[q].failures
            BY <1>1, <2>2, <3>3, <3>4, <5>1 DEF Ingesting
          <5> QED
            BY <2>2, <2>3, <5>2, <5>3 DEF Ingesting
        <4>2. ASSUME g \in job[q].plan.prune PROVE Pruning(q, g)'
          <5>1. Pruning(q, g)
            BY <1>1, <3>1, <4>2 DEF Right, Executing
          <5>3. /\ job[q].plan.ingest = Outdated(job[q].plan.found, job[q].entries)
                /\ job[q].plan.prune \subseteq Missing(job[q].plan.found, job[q].entries)
            BY <1>1, <2>4, RunKnows DEF Executing
          <5>4. g \notin job[q].plan.ingest
            BY <4>2, <5>3 DEF Outdated, Missing
          <5>5. manifest'[g] = manifest[g]
            BY <3>2, <5>4
          <5>2. LostRoot(q) => LostRoot(q)'
            BY <2>2 DEF LostRoot
          <5> QED
            BY <2>2, <5>1, <5>2, <5>5 DEF Pruning
        <4> QED
          BY <1>1, <2>2, <3>1, <3>2, <4>1, <4>2 DEF Right, Executing, Ending
    <2>9. /\ Keeps(q, {"pc", "exec", "listed", "todo", "failures", "gone"})
          /\ {job[q].pc, job'[q].pc} \subseteq Executing /\ job'[q].exec \subseteq job[q].exec
      BY <1>1, <2>1, <2>2 DEF Keeps, Executing
    <2>10. \A g \in Files \ job[q].touched :
               /\ job'[q].pc \in {"lock", "ingest"} =>
                      (g \in job'[q].listed <=> At(Root(q), g)' # Gone)
               /\ WellPosed(q) => Right(q, g)'
      BY <2>7, <2>8
    <2> QED
      BY <1>1, <2>4, <2>9, <2>10, ExecutionOK
  <1>8. CASE content \in Textual \cup Blank /\ SetEntry(q, file, EntryFor(content), next)
    <2>1. manifest' = [manifest EXCEPT ![file] = EntryFor(content)] /\ job'[q] = next
      BY <1>8 DEF SetEntry, Touched
    <2> QED
      BY <1>7, <1>8, <2>1
  <1>9. CASE ~(Moves(q, Raised(q)) /\ UNCHANGED manifest)
             /\ ~(content \in Textual \cup Blank /\ SetEntry(q, file, EntryFor(content), next))
    BY <1>5, <1>7, <1>9, Moved
  <1> QED
    BY <1>6, <1>8, <1>9

\* A root is done.
LEMMA EndIngestOK ==
  ASSUME Inv, Typed, NEW q \in Procs, RunOK(q), EndIngest(q) PROVE RunOK(q)'
  <1> DEFINE next == [job[q] EXCEPT !.pc = "list", !.exec = @ \ {Root(q)},
                                    !.gone = @ \cup Unlisted(q)]
             change == IF job[q].failures THEN Raised(q) ELSE next
  <1>1. /\ job[q].pc = "ingest" /\ job[q].todo = {} /\ UNCHANGED <<source, graphify, config>>
        /\ manifest' = [f \in Files |-> IF f \in Unlisted(q) THEN Gone ELSE manifest[f]]
        /\ job' = [Touched(Unlisted(q), Procs \ {q}) EXCEPT ![q] = change]
    BY DEF EndIngest
  <1>2. /\ next.pc = "list" /\ next.exec = job[q].exec \ {Root(q)}
        /\ next.gone = job[q].gone \cup Unlisted(q)
        /\ \A k \in Fields \ {"pc", "exec", "gone"} : next[k] = job[q][k]
    BY FieldsAre DEF Inv, Shape, Fields
  <1> HIDE DEF next
  <1>3. job'[q] = change
    BY <1>1 DEF Touched
  <1> SUFFICES ASSUME Busy(q)' PROVE RunOK(q)'
    BY DEF RunOK
  <1>4. Busy(q)
    <2>1. job[q].call.op = "run"
      <3>1. CASE job[q].failures
        BY <1>3, <3>1, IdleFields, Stages DEF Raised, Busy
      <3>2. CASE ~job[q].failures
        BY <1>2, <1>3, <3>2, FieldsAre DEF Busy
      <3> QED
        BY <3>1, <3>2
    <2> QED
      BY <1>1, <2>1, Stages DEF Busy
  <1>5. \A f \in Files : manifest'[f] = IF f \in Unlisted(q) THEN Gone ELSE manifest[f]
    BY <1>1
  <1>6. \A f \in Files \ job[q].touched : WellPosed(q) /\ f \in Unlisted(q)
                => f \in job[q].plan.prune /\ f \notin job[q].plan.ingest
    BY <1>1, <1>4, PruningPlanned
  <1>7. CASE job[q].failures
    <2>1. job'[q] = Raised(q)
      BY <1>3, <1>7
    <2>2. \A f \in Files \ job[q].touched :
              WellPosed(q) /\ f \notin job[q].plan.ingest \cup job[q].plan.prune
                  => manifest'[f] = manifest[f]
      BY <1>5, <1>6
    <2> QED
      BY <1>1, <2>1, <2>2, RaisedRunOK DEF Executing
  <1>8. CASE ~job[q].failures
    <2>1. job'[q] = next
      BY <1>3, <1>8
    <2>2. Keeps(q, {"pc", "exec", "gone"})
      BY <1>2, <2>1 DEF Keeps
    <2>3. /\ job'[q].pc = "list" /\ job'[q].exec = job[q].exec \ {Root(q)}
          /\ job'[q].gone = job[q].gone \cup Unlisted(q)
          /\ job'[q].call = job[q].call /\ job'[q].roots = job[q].roots
          /\ job'[q].entries = job[q].entries /\ job'[q].plan = job[q].plan
          /\ job'[q].touched = job[q].touched
      BY <1>2, <2>1, <2>2, KeptFields
    <2>4. ASSUME NEW f \in Files \ job[q].touched, WellPosed(q) PROVE Right(q, f)'
      <3>1. /\ Right(q, f) /\ Root(q) \in job[q].exec
            /\ f \in job[q].listed <=> At(Root(q), f) # Gone
        BY <1>1, <1>4, <2>4, IngestKnows
      <3>2. f \notin job[q].plan.prune => manifest'[f] = manifest[f]
        BY <1>5, <1>6, <2>4
      <3>3. ASSUME f \in job[q].plan.ingest PROVE Ingesting(q, f)'
        <4>1. Ingesting(q, f)
          BY <1>1, <3>1, <3>3 DEF Right, Executing
        <4>2. manifest'[f] = manifest[f]
          BY <1>5, <1>6, <2>4, <3>3
        <4>3. Settled(q, f) => Settled(q, f)'
          BY <2>3, <4>2 DEF Settled
        <4>4. ASSUME Awaited(q, f) PROVE Settled(q, f) \/ Awaited(q, f)'
          <5>1. PICK r \in job[q].exec : r # Raw /\ source[r][f] # Gone
            BY <4>4 DEF Awaited
          <5>2. CASE r = Root(q)
            <6>1. f \in job[q].listed \ job[q].todo
              BY <1>1, <3>1, <5>1, <5>2 DEF At
            <6> QED
              BY <1>1, <1>8, <4>1, <5>1, <5>2, <6>1 DEF Ingesting
          <5>3. CASE r # Root(q)
            BY <1>1, <2>3, <5>1, <5>3 DEF Awaited
          <5> QED
            BY <5>2, <5>3
        <4> QED
          BY <2>3, <4>1, <4>3, <4>4 DEF Ingesting
      <3>4. ASSUME f \in job[q].plan.prune PROVE Pruning(q, f)'
        <4>1. Pruning(q, f)
          BY <1>1, <3>1, <3>4 DEF Right, Executing
        <4>2. LostRoot(q) => LostRoot(q)'
          BY <2>3 DEF LostRoot
        <4>3. CASE f \in Unlisted(q)
          BY <1>5, <2>3, <4>3 DEF Pruning
        <4>4. CASE f \notin Unlisted(q)
          <5>1. manifest'[f] = manifest[f] /\ (f \in job'[q].gone <=> f \in job[q].gone)
            BY <1>5, <2>3, <4>4
          <5>2. CASE f \in job[q].gone \/ LostRoot(q)
            BY <2>3, <4>1, <4>2, <5>1, <5>2 DEF Pruning
          <5>3. CASE ~(f \in job[q].gone \/ LostRoot(q))
            <6>1. manifest[f] # Gone /\ job[q].roots[1] \in job[q].exec
              BY <4>1, <5>3 DEF Pruning
            <6>2. job[q].call.prune /\ job[q].plan.found[f] = Gone
              <7>1. job[q].plan.prune = IF job[q].call.prune
                        THEN Missing(job[q].plan.found, job[q].entries) ELSE {}
                BY <1>1, <1>4, RunKnows DEF Executing
              <7> QED
                BY <3>4, <7>1 DEF Missing
            <6>3. At(Root(q), f) # Gone
              BY <3>1, <4>4, <6>1, <6>2 DEF Unlisted
            <6>4. Root(q) = Raw
              BY <1>1, <1>4, <2>4, <6>2, <6>3, IngestKnows
            <6>5. job[q].roots[1] # Raw
              <7>1. job[q].roots \in Seq(Roots)
                BY <1>1, <1>4, RunKnows DEF Executing
              <7>2. Len(job[q].roots) = 1
                BY <2>4, <6>2 DEF WellPosed
              <7> QED
                BY <7>1, <7>2, RawApart
            <6> QED
              BY <2>3, <5>1, <5>3, <6>1, <6>4, <6>5 DEF Pruning
          <5> QED
            BY <5>2, <5>3
        <4> QED
          BY <4>3, <4>4
      <3> QED
        BY <1>1, <2>3, <3>1, <3>2, <3>3, <3>4 DEF Right, Executing, Ending
    <2>5. /\ Keeps(q, {"pc", "exec", "listed", "todo", "failures", "gone"})
          /\ {job[q].pc, job'[q].pc} \subseteq Executing /\ job'[q].exec \subseteq job[q].exec
          /\ job'[q].pc \notin {"lock", "ingest"}
      BY <1>1, <2>2, <2>3 DEF Keeps, Executing
    <2>6. \A f \in Files \ job[q].touched :
              /\ job'[q].pc \in {"lock", "ingest"} =>
                     (f \in job'[q].listed <=> At(Root(q), f)' # Gone)
              /\ WellPosed(q) => Right(q, f)'
      BY <2>4, <2>5
    <2> QED
      BY <1>1, <1>4, <2>5, <2>6, ExecutionOK
  <1> QED
    BY <1>7, <1>8

-----------------------------------------------------------------------------
(* A run ends *)

\* A run that ends in good order keeps what it knows.
LEMMA EndingOK ==
  ASSUME Inv, Typed, NEW q \in Procs, RunOK(q), Busy(q),
         job[q].pc \in Executing \cup Ending, job'[q].pc \in Ending,
         Keeps(q, {"pc", "outcome"}), UNCHANGED <<source, manifest, config>>,
         Fresh(q)',
         job'[q].outcome.ingested \subseteq job[q].plan.ingest,
         job'[q].outcome.pruned \subseteq job[q].plan.prune,
         \A f \in Files \ job[q].touched : WellPosed(q) /\ Right(q, f) => Told(q, f)'
  PROVE  RunOK(q)'
  <1>1. /\ job'[q].call = job[q].call /\ job'[q].roots = job[q].roots
        /\ job'[q].entries = job[q].entries /\ job'[q].plan = job[q].plan
        /\ job'[q].touched = job[q].touched
    BY KeptFields
  <1>2. Planned(q)'
    BY <1>1, RunKnows DEF Planned
  <1>3. ASSUME NEW f \in Files \ job'[q].touched PROVE Steady(q, f)'
    BY <1>1, <1>3, RunKnows, EndingSteady
  <1>4. ASSUME NEW f \in Files \ job'[q].touched, WellPosed(q)' PROVE Right(q, f)'
    <2>1. WellPosed(q) /\ Right(q, f)
      BY <1>1, <1>4, RunKnows, PosedSame
    <2> QED
      BY <1>1, <1>4, <2>1, Stages DEF Right
  <1> QED
    BY <1>2, <1>3, <1>4 DEF RunOK

LEMMA MarkOK ==
  ASSUME Inv, Typed, NEW q \in Procs, RunOK(q), Mark(q) PROVE RunOK(q)'
  <1> DEFINE outcome == [[job[q].outcome EXCEPT !.ingested = job[q].plan.ingest]
                            EXCEPT !.pruned = job[q].plan.prune \cap job[q].gone]
             pc == IF job[q].plan.graphify THEN "graphify" ELSE "saverun"
             next == [job[q] EXCEPT !.pc = pc, !.outcome = outcome]
  <1>1. /\ job[q].pc = "list" /\ job[q].exec = {}
        /\ UNCHANGED <<source, manifest, config>>
    BY DEF Mark
  <1>2. CASE job[q].call.op = "ingest"
    BY <1>2, Moved, IdleFields, Stages DEF Mark, RunOK, Busy
  <1>3. CASE job[q].call.op # "ingest"
    <2>1. /\ DOMAIN job[q] = Fields /\ DOMAIN job[q].outcome = DOMAIN NoOutcome
          /\ job[q].call.op = "run" /\ job[q].outcome = NoOutcome
      BY <1>1, <1>3, Stages DEF Inv, Shape, Fields, Typed, JobTyped, Executing, Ending
    <2>2. Moves(q, next)
      BY <1>3, <2>1, FieldsAre DEF Mark
    <2>3. /\ outcome.ingested = job[q].plan.ingest
          /\ outcome.pruned = job[q].plan.prune \cap job[q].gone
          /\ ~outcome.graphified
      BY <2>1 DEF NoOutcome
    <2>4. pc \in Ending
      BY DEF Ending
    <2> HIDE DEF outcome, pc
    <2>5. /\ job'[q].pc = pc /\ job'[q].outcome = outcome /\ Keeps(q, {"pc", "outcome"})
      <3>1. job'[q] = next
        BY <2>2, Moved
      <3> QED
        BY <2>1, <3>1, FieldsAre DEF Keeps
    <2>6. /\ job'[q].call = job[q].call /\ job'[q].plan = job[q].plan
          /\ job'[q].touched = job[q].touched
      BY <2>5, KeptFields
    <2>7. Busy(q) /\ job[q].pc \in Executing
      BY <1>1, <2>1, Stages DEF Busy, Executing
    <2>8. Fresh(q)'
      BY <2>3, <2>5 DEF Fresh
    <2>9. ASSUME NEW f \in Files \ job[q].touched, Right(q, f) PROVE Told(q, f)'
      <3>1. /\ f \in job[q].plan.ingest => Ingesting(q, f)
            /\ f \in job[q].plan.prune => Pruning(q, f)
        BY <2>7, <2>9 DEF Right
      <3>2. f \in job[q].plan.ingest => Settled(q, f)'
        <4>1. ~Awaited(q, f)
          BY <1>1 DEF Awaited
        <4> QED
          BY <1>1, <2>6, <3>1, <4>1 DEF Ingesting, Settled
      <3>3. f \in job[q].plan.prune =>
                IF f \in job[q].gone THEN manifest'[f] = Gone ELSE LostRoot(q)'
        <4>1. LostRoot(q) => LostRoot(q)'
          BY <2>6 DEF LostRoot
        <4> QED
          BY <1>1, <3>1, <4>1 DEF Pruning
      <3> QED
        BY <2>3, <2>5, <2>6, <3>2, <3>3 DEF Told, LeftOut
    <2>10. /\ job'[q].outcome.ingested \subseteq job[q].plan.ingest
           /\ job'[q].outcome.pruned \subseteq job[q].plan.prune
      BY <2>3, <2>5
    <2> QED
      BY <1>1, <2>4, <2>5, <2>7, <2>8, <2>9, <2>10, EndingOK
  <1> QED
    BY <1>2, <1>3

LEMMA GraphifyOK ==
  ASSUME Inv, Typed, NEW q \in Procs, RunOK(q), Graphify(q) PROVE RunOK(q)'
  <1> DEFINE next == [job[q] EXCEPT !.pc = "saverun", !.outcome.graphified = TRUE]
  <1>1. /\ job[q].pc = "graphify" /\ job[q].call.op = "run"
        /\ UNCHANGED <<source, manifest, config>>
    BY DEF Graphify, Typed, JobTyped, Ending
  <1>2. \/ Moves(q, Raised(q)) /\ UNCHANGED graphify
        \/ graphify' = manifest /\ Moves(q, next)
    BY DEF Graphify
  <1>3. CASE Moves(q, Raised(q)) /\ UNCHANGED graphify
    BY <1>1, <1>3, Moved, RaisedRunOK, Stages DEF Executing
  <1>4. CASE graphify' = manifest /\ Moves(q, next)
    <2>1. /\ job'[q].pc = "saverun" /\ Keeps(q, {"pc", "outcome"})
          /\ \A k \in DOMAIN NoOutcome \ {"graphified"} :
                 job'[q].outcome[k] = job[q].outcome[k]
      BY <1>4, BuiltFields
    <2> HIDE DEF next
    <2>2. /\ job'[q].outcome.ingested = job[q].outcome.ingested
          /\ job'[q].outcome.pruned = job[q].outcome.pruned
          /\ job'[q].outcome.failed = job[q].outcome.failed
      BY <2>1 DEF NoOutcome
    <2>3. /\ job'[q].call = job[q].call /\ job'[q].plan = job[q].plan
          /\ job'[q].touched = job[q].touched
      BY <2>1, KeptFields
    <2>4. Fresh(q)'
      BY <1>1, <1>4, <2>1 DEF Fresh
    <2>5. ASSUME NEW f \in Files \ job[q].touched, Right(q, f) PROVE Told(q, f)'
      <3>1. Told(q, f)
        BY <1>1, <2>5 DEF Right, Ending
      <3>2. Settled(q, f)' <=> Settled(q, f)
        BY <1>1, <2>3 DEF Settled
      <3>3. LostRoot(q)' <=> LostRoot(q)
        BY <2>3 DEF LostRoot
      <3>4. LeftOut(q)' = LeftOut(q)
        BY <2>2, <2>3 DEF LeftOut
      <3> QED
        BY <1>1, <2>2, <2>3, <3>1, <3>2, <3>3, <3>4 DEF Told
    <2>6. Busy(q) /\ job[q].pc \in Ending /\ job'[q].pc \in Ending
      BY <1>1, <2>1, Stages DEF Busy, Ending
    <2>7. /\ job'[q].outcome.ingested \subseteq job[q].plan.ingest
          /\ job'[q].outcome.pruned \subseteq job[q].plan.prune
      BY <2>2, <2>6, RunKnows DEF Planned
    <2> QED
      BY <1>1, <2>1, <2>4, <2>5, <2>6, <2>7, EndingOK
  <1> QED
    BY <1>2, <1>3, <1>4

-----------------------------------------------------------------------------
(* The invariant *)

\* Of a process that is not about to report nothing is asked.
LEMMA NotBusyOK ==
  ASSUME NEW q, ~Busy(q)' PROVE RunOK(q)'
  BY DEF RunOK

\* What a process does keeps its own knowledge right ...
LEMMA OwnStepOK ==
  ASSUME Inv, Typed, Typed', NEW q \in Procs, RunOK(q),
         Step(q) \/ Kill(q) \/ \E call \in Calls : Call(q, call)
  PROVE  RunOK(q)'
  <1>1. CASE EnterRun(q)
    <2>1. Ends(q) \/ Moves(q, [job[q] EXCEPT !.pc = "load"])
      BY <1>1 DEF EnterRun
    <2>2. Moves(q, [job[q] EXCEPT !.pc = "load"]) => job'[q].pc = "load"
      BY Moved, FieldsAre
    <2> QED
      BY <2>1, <2>2, EndsRunOK, NotBusyOK, Stages DEF Busy
  <1>2. CASE SaveRun(q)
    <2> DEFINE next == [Idle EXCEPT !.pc = "runpointer", !.call = job[q].call,
                                    !.plan = job[q].plan,
                                    !.payload = [plan |-> job[q].plan, run |-> Len(runs) + 1]]
    <2>1. Moves(q, next)
      BY <1>2 DEF SaveRun
    <2>2. next.pc = "runpointer"
      BY IdleFields
    <2> HIDE DEF next
    <2> QED
      BY <2>1, <2>2, Moved, NotBusyOK, Stages DEF Busy
  <1>3. CASE Kill(q)
    BY <1>3, EndsRunOK DEF Kill
  <1>4. ASSUME NEW call \in Calls, Call(q, call) PROVE RunOK(q)'
    <2>1. call.op \in {"scan", "run", "ingest"}
      BY WatchAssumption DEF CallType
    <2> DEFINE next == [Idle EXCEPT
                           !.pc   = CASE call.op = "scan"   -> "load"
                                      [] call.op = "run"    -> "enter"
                                      [] call.op = "ingest" -> "list",
                           !.call = call,
                           !.exec = IF call.op = "ingest" THEN {Head(call.roots)} ELSE {}]
    <2>2. Moves(q, next)
      BY <1>4 DEF Call
    <2>3. next.pc \in {"load", "enter"} \/ (next.call = call /\ call.op = "ingest")
      BY <2>1 DEF Idle
    <2> HIDE DEF next
    <2> QED
      BY <2>2, <2>3, Moved, NotBusyOK, Stages DEF Busy
  <1>5. CASE Step(q) /\ ~EnterRun(q) /\ ~SaveRun(q)
    BY <1>5, LoadOK, ClassifyOK, SaveRootsOK, SavePlanOK, ReadLatestOK, OpenTmpOK,
       WriteTmpOK, ReplaceLatestOK, RescanOK, ListRootOK, TakeLockOK, IngestFileOK, EndIngestOK,
       MarkOK, GraphifyOK DEF Step
  <1> QED
    BY <1>1, <1>2, <1>3, <1>4, <1>5

\* ... and that of the others.
LEMMA OtherStepOK ==
  ASSUME Inv, Typed, Typed', NEW q \in Procs,
         Step(q) \/ Kill(q) \/ \E call \in Calls : Call(q, call),
         NEW p \in Procs \ {q}, RunOK(p)
  PROVE  RunOK(p)'
  <1>1. Leaves(p)
    BY StepOrderly DEF Orderly
  <1>2. CASE Graphify(q)
    <2>1. Working(q)
      BY <1>2 DEF Graphify, Working, Typed, JobTyped, Ending
    <2>2. ~Busy(p)
      BY <2>1, Stages DEF Inv, Earned, Busy, Working
    <2>3. ~Busy(p)'
      BY <1>1, <2>2, FieldsAre DEF Leaves, Keeps, Busy
    <2> QED
      BY <2>3, NotBusyOK
  <1>3. CASE ~Graphify(q)
    <2>1. graphify' = graphify
      BY <1>3 DEF Step, EnterRun, Load, Classify, SaveRoots, SavePlan, ReadLatest, OpenTmp,
         WriteTmp, ReplaceLatest, Rescan, ListRoot, TakeLock, IngestFile, EndIngest, Mark, SaveRun,
         Kill, Call
    <2> QED
      BY <1>1, <2>1, LeavesOK
  <1> QED
    BY <1>2, <1>3

\* Every run does as it has planned.
WatchInv == Inv /\ Typed /\ \A p \in Procs : RunOK(p)

LEMMA WatchInvInit == Init => WatchInv
  <1> SUFFICES ASSUME Init PROVE WatchInv
    OBVIOUS
  <1>1. ASSUME NEW p \in Procs PROVE RunOK(p)
    BY IdleFields, Stages DEF Init, RunOK, Busy
  <1> QED
    BY <1>1, InitInv, TypedInit DEF WatchInv

LEMMA WatchInvNext == WatchInv /\ [Next]_vars => WatchInv'
  <1> SUFFICES ASSUME WatchInv, [Next]_vars PROVE WatchInv'
    OBVIOUS
  <1>1. Inv /\ Typed /\ Inv' /\ Typed' /\ \A p \in Procs : RunOK(p)
    BY NextInv, TypedNext DEF WatchInv
  <1>2. ASSUME NEW q \in Procs, Step(q) \/ Kill(q) \/ \E call \in Calls : Call(q, call)
        PROVE  \A p \in Procs : RunOK(p)'
    BY <1>1, <1>2, OwnStepOK, OtherStepOK
  <1>3. ASSUME NEW r \in Roots, NEW f \in Files, NEW c \in Contents \cup {Gone},
               Edit(r, f, c), NEW p \in Procs
        PROVE  RunOK(p)'
    <2>1. Leaves(p) /\ graphify' = graphify
      BY <1>1, <1>3, EditLeaves DEF Edit
    <2> QED
      BY <1>1, <2>1, LeavesOK
  <1>4. ASSUME UNCHANGED vars, NEW p \in Procs PROVE RunOK(p)'
    <2>1. Leaves(p) /\ graphify' = graphify
      <3>1. Goes(p, {}) /\ Keeps(p, {"touched"}) /\ UNCHANGED <<job, lock, graphify>>
        BY <1>4 DEF vars, Goes, Keeps, RequestRoots
      <3> QED
        BY <3>1 DEF Leaves
    <2> QED
      BY <1>1, <2>1, LeavesOK
  <1>5. \A p \in Procs : RunOK(p)'
    BY <1>2, <1>3, <1>4 DEF Next
  <1> QED
    BY <1>1, <1>5 DEF WatchInv

LEMMA WatchInvariance == Spec => []WatchInv
  BY WatchInvInit, WatchInvNext, PTL DEF Spec

-----------------------------------------------------------------------------
(* What a run reports *)

\* Graphify is built after the ingests of its run, from the entries they have left.
THEOREM GraphifyIsLast == Spec => []GraphifyFollows
  <1>1. WatchInv => GraphifyFollows
    <2> SUFFICES ASSUME WatchInv, NEW p \in Procs, job[p].pc = "saverun",
                        job[p].outcome.graphified, job[p].touched = {}
                 PROVE  graphify = manifest
      BY DEF GraphifyFollows
    <2>1. Busy(p) /\ RunOK(p)
      BY Stages DEF WatchInv, Typed, JobTyped, Busy, Ending
    <2> QED
      BY <2>1 DEF RunOK, Fresh
  <1> QED
    BY <1>1, WatchInvariance, PTL

\* The actions of a plan are about files.
LEMMA PlannedFiles ==
  ASSUME NEW p, Planned(p), job[p].pc = "saverun"
  PROVE  job[p].plan.ingest \cup job[p].plan.prune \subseteq Files
  BY Stages DEF Planned, Outdated, Missing

\* What a well posed run reports has happened, and if it reports no failure, all of
\* its plan has, unless its roots are saved ones that have become empty: watch run.
THEOREM ReportsAreTrue == Spec => []Reported
  <1>1. WatchInv => Reported
    <2> SUFFICES ASSUME WatchInv, NEW p \in Procs, Reporting(p)
                 PROVE  /\ \A f \in job[p].outcome.ingested \ job[p].touched : Settled(p, f)
                        /\ \A f \in job[p].outcome.pruned \ job[p].touched : manifest[f] = Gone
                        /\ job[p].outcome.failed \/ LostRoot(p) \/ LeftOut(p) = {}
      BY DEF Reported
    <2>1. /\ job[p].pc = "saverun" /\ job[p].call.execute /\ WellPosed(p)
          /\ Busy(p) /\ RunOK(p)
      BY Stages DEF WatchInv, Typed, JobTyped, Busy, Ending, Reporting
    <2>2. Planned(p) /\ \A f \in Files \ job[p].touched : Told(p, f)
      BY <2>1, Stages DEF RunOK, Right, Ending
    <2>3. /\ job[p].outcome.ingested \subseteq Files /\ job[p].outcome.pruned \subseteq Files
          /\ job[p].plan.ingest \cup job[p].plan.prune \subseteq Files
      BY <2>1, <2>2, PlannedFiles DEF Planned, Ending
    <2>4. job[p].outcome.failed \/ LostRoot(p) \/ LeftOut(p) = {}
      BY <2>1, <2>2, <2>3 DEF Told, LeftOut
    <2> QED
      BY <2>2, <2>3, <2>4 DEF Told
  <1> QED
    BY <1>1, WatchInvariance, PTL

\* Nobody but the run itself changes entries while it has the lock of the runtime.
LEMMA OnlyHolder ==
  ASSUME WatchInv, [Next]_vars, NEW p \in Procs, lock.ingest = p, manifest' # manifest
  PROVE  job[p].pc = "ingest" /\ (IngestFile(p) \/ EndIngest(p))
  <1>1. PICK q \in Procs : IngestFile(q) \/ EndIngest(q)
    BY DEF Next, Step, EnterRun, Load, Classify, SaveRoots, SavePlan, ReadLatest, OpenTmp,
       WriteTmp, ReplaceLatest, Rescan, ListRoot, TakeLock, Mark, Graphify, SaveRun, Kill, Call, Edit,
       vars
  <1>2. job[q].pc = "ingest" /\ lock.ingest = q
    BY <1>1 DEF IngestFile, EndIngest, WatchInv, Typed, JobTyped
  <1> QED
    BY <1>1, <1>2

\* A run changes the entries of exactly the sources of its plan, if its request is well
\* posed and nobody else has touched them: watch run, whatever comes in between.
THEOREM RunsAreBounded == Spec => OnlyPlanned
  <1>1. ASSUME WatchInv, [Next]_vars, NEW p \in Procs, NEW f \in Files,
               Unplanned(p, f), WellPosed(p), manifest'[f] # manifest[f]
        PROVE  FALSE
    <2>1. /\ Working(p) /\ lock.ingest = p /\ manifest'[f] # manifest[f]
          /\ f \in Files \ job[p].touched
          /\ f \notin job[p].plan.ingest /\ f \notin job[p].plan.prune
      BY <1>1 DEF Unplanned
    <2>2. job[p].pc = "ingest" /\ (IngestFile(p) \/ EndIngest(p))
      BY <1>1, <2>1, OnlyHolder
    <2>3. Inv /\ Typed /\ RunOK(p) /\ Busy(p)
      BY <1>1, <2>1, <2>2, Stages DEF WatchInv, Busy, Working
    <2>4. CASE IngestFile(p)
      <3> DEFINE file == First(FileOrder, job[p].todo)
                 content == At(Root(p), file)
      <3>1. /\ content \in Textual \cup Blank
            /\ manifest' = [manifest EXCEPT ![file] = EntryFor(content)]
        BY <2>1, <2>4 DEF IngestFile, SetEntry
      <3> HIDE DEF content
      <3>2. f = file /\ manifest'[f] = EntryFor(content)
        BY <2>1, <2>3, <3>1 DEF Typed, Stored, Entries
      <3>3. content = At(Root(p), f)
        BY <3>2 DEF content
      <3> QED
        BY <1>1, <2>1, <2>2, <2>3, <3>1, <3>2, <3>3, IngestPlanned
    <2>5. CASE EndIngest(p)
      <3>1. f \in Unlisted(p)
        BY <2>1, <2>5 DEF EndIngest
      <3> QED
        BY <1>1, <2>1, <2>2, <2>3, <3>1, PruningPlanned
    <2> QED
      BY <2>2, <2>4, <2>5
  <1>2. ASSUME NEW p \in Procs, NEW f \in Files, Unplanned(p, f), manifest'[f] = manifest[f]
        PROVE  f \in outworn
    BY <1>2 DEF Unplanned
  <1>3. WatchInv /\ [Next]_vars
            => [\A p \in Procs, f \in Files :
                    Unplanned(p, f) =>
                        ~WellPosed(p) \/ (f \in outworn /\ manifest'[f] = manifest[f])]_vars
    BY <1>1, <1>2
  <1> QED
    BY <1>3, WatchInvariance, PTL DEF Spec, OnlyPlanned
===============================================================================
