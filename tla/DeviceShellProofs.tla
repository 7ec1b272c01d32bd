-------------------------- MODULE DeviceShellProofs --------------------------
(***************************************************************************)
(* The device's lease and the background shells, for every number of       *)
(* processes, tasks and jobs and every limit of the registry.              *)
(*                                                                         *)
(* UiIsExclusive is not inductive: that two users are one follows from who *)
(* holds a clone of the lease.  The clones are counted by Lease: one task, *)
(* or one job, or for a moment a task and the job it has just started.     *)
(* ShutdownLeavesNothing needs what shutdown_background still waits for    *)
(* (Closed), which in turn needs that no unfinished job is forgotten.      *)
(***************************************************************************)
EXTENDS DeviceShell, FiniteSetTheorems, TLAPS

LEMMA Constants ==
  /\ Owner \in [Tasks -> Procs] /\ MaxStarted \in Nat /\ MaxJobs \in Nat \ {0} /\ None \notin Procs
BY DeviceAssumption

\* The steps of a task that it takes with the lease.
Using == {"ready", "acting", "running", "stopping", "reading", "starting", "started"}

Ended == {"ended", "released", "finished"}

\* What a task and a job may be, each for itself.
TaskSound(r) ==
  /\ r.pc \in Using => r.held
  /\ r.request # "no" => r.pc = "starting"

JobSound(r) ==
  /\ r.phase = "none" => r = NoJob
  /\ r.phase # "none" => r.proc \in Procs
  /\ r.phase \in Ended => r.child = "reaped"
  /\ r.mutating /\ r.phase # "orphaned" /\ r.child \in {"alive", "exited"} => r.leased

Sound ==
  /\ \A t \in Tasks : TaskSound(task[t])
  /\ \A j \in Jobs : JobSound(job[j])

\* Who shares the lock on the device's file.
Lease ==
  /\ \A t, u \in Tasks : task[t].held /\ task[u].held => t = u
  /\ \A t \in Tasks, j \in Jobs : task[t].held /\ job[j].leased => task[t].pc = "started"
  /\ \A i, j \in Jobs : job[i].leased /\ job[j].leased => i = j

Unfinished(j) == job[j].phase \notin {"none", "finished", "orphaned"}

Registered ==
  /\ \A j \in Jobs : Unfinished(j) => j \in known[job[j].proc]
  /\ \A p \in Procs : Cardinality(known[p]) <= MaxJobs

\* What a process that shuts down has left to wait for.
Closed ==
  \A j \in Jobs, p \in Procs : job[j].proc = p =>
    /\ job[j].phase = "orphaned" => proc[p].state = "exited"
    /\ proc[p].state = "closing" /\ job[j].phase # "finished" => j \in proc[p].left
    /\ proc[p].state = "clean" => job[j].phase = "finished"

IInv == TypeOK /\ Sound /\ Lease /\ Registered /\ Closed

----------------------------------------------------------------------------
LEMMA JobsFinite == IsFiniteSet(Jobs)
BY Constants, FS_Interval DEF Jobs

LEMMA KnownFinite ==
  ASSUME TypeOK, NEW p \in Procs
  PROVE  IsFiniteSet(known[p]) /\ Cardinality(known[p]) \in Nat
<1>1. known[p] \in SUBSET Jobs
  BY DEF TypeOK
<1>2. QED
  BY <1>1, JobsFinite, FS_Subset, FS_CardinalityType

\* Making room forgets only finished jobs.
LEMMA KeptSound ==
  ASSUME IInv, NEW p \in Procs
  PROVE  /\ Kept(p) \in SUBSET known[p]
         /\ IsFiniteSet(Kept(p))
         /\ Cardinality(Kept(p)) \in Nat
         /\ Cardinality(Kept(p)) <= MaxJobs
         /\ \A j \in known[p] : Unfinished(j) => j \in Kept(p)
<1>1. Kept(p) \in SUBSET known[p]
  BY DEF Kept
<1>2. IsFiniteSet(known[p]) /\ Cardinality(known[p]) \in Nat
  BY KnownFinite DEF IInv
<1>3. IsFiniteSet(Kept(p)) /\ Cardinality(Kept(p)) <= Cardinality(known[p])
  BY <1>1, <1>2, FS_Subset
<1>4. Cardinality(Kept(p)) \in Nat
  BY <1>3, FS_CardinalityType
<1>5. \A j \in known[p] : Unfinished(j) => j \in Kept(p)
  BY DEF Kept, Oldest, Finished, Unfinished
<1>6. Cardinality(known[p]) <= MaxJobs
  BY DEF IInv, Registered
<1>7. QED
  BY <1>1, <1>2, <1>3, <1>4, <1>5, <1>6, Constants

LEMMA InitInv == Init => IInv
<1> SUFFICES ASSUME Init PROVE IInv
  OBVIOUS
<1>1. TypeOK
  <2>1. proc \in [Procs -> Proc]
    BY DEF Init, Proc, ProcState
  <2>2. task \in [Tasks -> Task]
    BY Constants DEF Init, Task, TaskPC, Requests, Command, NoCommand
  <2>3. job \in [Jobs -> Job]
    BY DEF Init, NoJob, Job, Phases
  <2>4. known \in [Procs -> SUBSET Jobs]
    BY DEF Init
  <2>5. QED
    BY <2>1, <2>2, <2>3, <2>4 DEF TypeOK
<1>2. Sound
  BY DEF Init, Sound, TaskSound, JobSound, NoJob, Using, Ended
<1>3. Lease
  BY DEF Init, Lease, NoJob
<1>4. Registered
  <2>1. \A p \in Procs : known[p] = {}
    BY DEF Init
  <2>2. \A p \in Procs : Cardinality(known[p]) = 0
    BY <2>1, FS_EmptySet
  <2>3. QED
    BY <2>2, Constants DEF Init, Registered, Unfinished, NoJob
<1>5. Closed
  BY Constants DEF Init, Closed, NoJob
<1>6. QED
  BY <1>1, <1>2, <1>3, <1>4, <1>5 DEF IInv

----------------------------------------------------------------------------
(* Steps of one task or one job only *)

OneTask(t) ==
  /\ task' \in [Tasks -> Task]
  /\ \A u \in Tasks : u # t => task'[u] = task[u]

OneJob(j) ==
  /\ job' \in [Jobs -> Job]
  /\ \A i \in Jobs : i # j => job'[i] = job[i]

\* A task may take the lock when it is free, or keep what it has.
LEMMA TaskChange ==
  ASSUME IInv, NEW t \in Tasks, OneTask(t), UNCHANGED <<proc, job, known>>,
         TaskSound(task'[t]),
         task'[t].held => \/ LockFree
                          \/ task[t].held /\ (task[t].pc = "started" => task'[t].pc = "started")
  PROVE  IInv'
<1>1. TypeOK'
  BY DEF IInv, TypeOK, OneTask
<1>2. Sound'
  <2>1. \A u \in Tasks : TaskSound(task'[u])
    BY DEF IInv, Sound, OneTask
  <2>2. \A j \in Jobs : JobSound(job'[j])
    BY DEF IInv, Sound
  <2>3. QED
    BY <2>1, <2>2 DEF Sound, TaskSound, JobSound
<1>3. Lease'
  <2>1. CASE LockFree
    BY <2>1 DEF IInv, Lease, OneTask, LockFree
  <2>2. CASE ~ LockFree
    BY <2>2 DEF IInv, Lease, OneTask
  <2>3. QED
    BY <2>1, <2>2
<1>4. Registered' /\ Closed'
  BY DEF IInv, Registered, Unfinished, Closed
<1>5. QED
  BY <1>1, <1>2, <1>3, <1>4 DEF IInv

\* A supervisor may give its clone of the lease back and finish its job.
LEMMA JobChange ==
  ASSUME IInv, NEW j \in Jobs, OneJob(j), UNCHANGED <<proc, task, known>>,
         Unfinished(j), JobSound(job'[j]),
         job'[j].proc = job[j].proc, job'[j].phase \notin {"none", "orphaned"},
         job'[j].leased => job[j].leased
  PROVE  IInv'
<1>1. TypeOK'
  BY DEF IInv, TypeOK, OneJob
<1>2. Sound'
  <2>1. \A u \in Tasks : TaskSound(task'[u])
    BY DEF IInv, Sound
  <2>2. \A i \in Jobs : JobSound(job'[i])
    BY DEF IInv, Sound, OneJob
  <2>3. QED
    BY <2>1, <2>2 DEF Sound, TaskSound, JobSound
<1>3. Lease'
  BY DEF IInv, Lease, OneJob
<1>4. Registered'
  BY DEF IInv, Registered, Unfinished, OneJob
<1>5. Closed'
  BY DEF IInv, Closed, Unfinished, OneJob
<1>6. QED
  BY <1>1, <1>2, <1>3, <1>4, <1>5 DEF IInv

----------------------------------------------------------------------------
(* Each action *)

LEMMA BeginCallInv ==
  ASSUME IInv, NEW t \in Tasks, BeginCall(t)
  PROVE  IInv'
<1>1. TaskSound(task[t]) /\ task[t] \in Task
  BY DEF IInv, Sound, TypeOK
<1>2. OneTask(t) /\ UNCHANGED <<proc, job, known>>
  BY <1>1 DEF IInv, TypeOK, BeginCall, OneTask, Task, TaskPC, Requests
<1>3. TaskSound(task'[t])
  BY <1>1 DEF IInv, TypeOK, BeginCall, TaskSound, Using, Task, Requests
<1>4. task'[t].held =>
        \/ LockFree
        \/ task[t].held /\ (task[t].pc = "started" => task'[t].pc = "started")
  BY <1>1 DEF IInv, TypeOK, BeginCall, TaskSound, Task
<1>5. QED
  BY <1>2, <1>3, <1>4, TaskChange

LEMMA AcquireInv ==
  ASSUME IInv, NEW t \in Tasks, Acquire(t)
  PROVE  IInv'
<1>1. TaskSound(task[t]) /\ task[t] \in Task
  BY DEF IInv, Sound, TypeOK
<1>2. OneTask(t) /\ UNCHANGED <<proc, job, known>>
  BY <1>1 DEF IInv, TypeOK, Acquire, OneTask, Task, TaskPC, Requests
<1>3. TaskSound(task'[t])
  BY <1>1 DEF IInv, TypeOK, Acquire, TaskSound, Using, Task, Requests
<1>4. task'[t].held =>
        \/ LockFree
        \/ task[t].held /\ (task[t].pc = "started" => task'[t].pc = "started")
  BY <1>1 DEF IInv, TypeOK, Acquire, TaskSound, Task
<1>5. QED
  BY <1>2, <1>3, <1>4, TaskChange

LEMMA GiveUpInv ==
  ASSUME IInv, NEW t \in Tasks, GiveUp(t)
  PROVE  IInv'
<1>1. TaskSound(task[t]) /\ task[t] \in Task
  BY DEF IInv, Sound, TypeOK
<1>2. OneTask(t) /\ UNCHANGED <<proc, job, known>>
  BY <1>1 DEF IInv, TypeOK, GiveUp, OneTask, Task, TaskPC, Requests
<1>3. TaskSound(task'[t])
  BY <1>1 DEF IInv, TypeOK, GiveUp, TaskSound, Using, Task, Requests
<1>4. task'[t].held =>
        \/ LockFree
        \/ task[t].held /\ (task[t].pc = "started" => task'[t].pc = "started")
  BY <1>1 DEF IInv, TypeOK, GiveUp, TaskSound, Task
<1>5. QED
  BY <1>2, <1>3, <1>4, TaskChange

LEMMA ActInv ==
  ASSUME IInv, NEW t \in Tasks, Act(t)
  PROVE  IInv'
<1>1. TaskSound(task[t]) /\ task[t] \in Task
  BY DEF IInv, Sound, TypeOK
<1>2. OneTask(t) /\ UNCHANGED <<proc, job, known>>
  BY <1>1 DEF IInv, TypeOK, Act, OneTask, Task, TaskPC, Requests
<1>3. TaskSound(task'[t])
  BY <1>1 DEF IInv, TypeOK, Act, TaskSound, Using, Task, Requests
<1>4. task'[t].held =>
        \/ LockFree
        \/ task[t].held /\ (task[t].pc = "started" => task'[t].pc = "started")
  BY <1>1 DEF IInv, TypeOK, Act, TaskSound, Task
<1>5. QED
  BY <1>2, <1>3, <1>4, TaskChange

LEMMA ActedInv ==
  ASSUME IInv, NEW t \in Tasks, Acted(t)
  PROVE  IInv'
<1>1. TaskSound(task[t]) /\ task[t] \in Task
  BY DEF IInv, Sound, TypeOK
<1>2. OneTask(t) /\ UNCHANGED <<proc, job, known>>
  BY <1>1 DEF IInv, TypeOK, Acted, OneTask, Task, TaskPC, Requests
<1>3. TaskSound(task'[t])
  BY <1>1 DEF IInv, TypeOK, Acted, TaskSound, Using, Task, Requests
<1>4. task'[t].held =>
        \/ LockFree
        \/ task[t].held /\ (task[t].pc = "started" => task'[t].pc = "started")
  BY <1>1 DEF IInv, TypeOK, Acted, TaskSound, Task
<1>5. QED
  BY <1>2, <1>3, <1>4, TaskChange

LEMMA RunCommandInv ==
  ASSUME IInv, NEW t \in Tasks, RunCommand(t)
  PROVE  IInv'
<1>1. TaskSound(task[t]) /\ task[t] \in Task
  BY DEF IInv, Sound, TypeOK
<1>2. OneTask(t) /\ UNCHANGED <<proc, job, known>>
  BY <1>1 DEF IInv, TypeOK, RunCommand, OneTask, Task, TaskPC, Requests, Command, NoCommand
<1>3. TaskSound(task'[t])
  BY <1>1 DEF IInv, TypeOK, RunCommand, TaskSound, Using, Task, Requests, Command, NoCommand
<1>4. task'[t].held =>
        \/ LockFree
        \/ task[t].held /\ (task[t].pc = "started" => task'[t].pc = "started")
  BY <1>1 DEF IInv, TypeOK, RunCommand, TaskSound, Task, Command, NoCommand
<1>5. QED
  BY <1>2, <1>3, <1>4, TaskChange

LEMMA ForkInv ==
  ASSUME IInv, NEW t \in Tasks, Fork(t)
  PROVE  IInv'
<1>1. TaskSound(task[t]) /\ task[t] \in Task
  BY DEF IInv, Sound, TypeOK
<1>2. OneTask(t) /\ UNCHANGED <<proc, job, known>>
  BY <1>1 DEF IInv, TypeOK, Fork, OneTask, Task, TaskPC, Requests, Command, NoCommand
<1>3. TaskSound(task'[t])
  BY <1>1 DEF IInv, TypeOK, Fork, TaskSound, Using, Task, Requests, Command, NoCommand
<1>4. task'[t].held =>
        \/ LockFree
        \/ task[t].held /\ (task[t].pc = "started" => task'[t].pc = "started")
  BY <1>1 DEF IInv, TypeOK, Fork, TaskSound, Task, Command, NoCommand
<1>5. QED
  BY <1>2, <1>3, <1>4, TaskChange

LEMMA ShellExitsInv ==
  ASSUME IInv, NEW t \in Tasks, ShellExits(t)
  PROVE  IInv'
<1>1. TaskSound(task[t]) /\ task[t] \in Task
  BY DEF IInv, Sound, TypeOK
<1>2. OneTask(t) /\ UNCHANGED <<proc, job, known>>
  BY <1>1 DEF IInv, TypeOK, ShellExits, OneTask, Task, TaskPC, Requests, Command, NoCommand
<1>3. TaskSound(task'[t])
  BY <1>1 DEF IInv, TypeOK, ShellExits, TaskSound, Using, Task, Requests, Command, NoCommand
<1>4. task'[t].held =>
        \/ LockFree
        \/ task[t].held /\ (task[t].pc = "started" => task'[t].pc = "started")
  BY <1>1 DEF IInv, TypeOK, ShellExits, TaskSound, Task, Command, NoCommand
<1>5. QED
  BY <1>2, <1>3, <1>4, TaskChange

LEMMA DescendantEndsInv ==
  ASSUME IInv, NEW t \in Tasks, DescendantEnds(t)
  PROVE  IInv'
<1>1. TaskSound(task[t]) /\ task[t] \in Task
  BY DEF IInv, Sound, TypeOK
<1>2. OneTask(t) /\ UNCHANGED <<proc, job, known>>
  BY <1>1 DEF IInv, TypeOK, DescendantEnds, OneTask, Task, TaskPC, Requests, Command, NoCommand
<1>3. TaskSound(task'[t])
  BY <1>1 DEF IInv, TypeOK, DescendantEnds, TaskSound, Using, Task, Requests, Command, NoCommand
<1>4. task'[t].held =>
        \/ LockFree
        \/ task[t].held /\ (task[t].pc = "started" => task'[t].pc = "started")
  BY <1>1 DEF IInv, TypeOK, DescendantEnds, TaskSound, Task, Command, NoCommand
<1>5. QED
  BY <1>2, <1>3, <1>4, TaskChange

LEMMA StopCommandInv ==
  ASSUME IInv, NEW t \in Tasks, StopCommand(t)
  PROVE  IInv'
<1>1. TaskSound(task[t]) /\ task[t] \in Task
  BY DEF IInv, Sound, TypeOK
<1>2. OneTask(t) /\ UNCHANGED <<proc, job, known>>
  BY <1>1 DEF IInv, TypeOK, StopCommand, OneTask, Task, TaskPC, Requests, Command, NoCommand
<1>3. TaskSound(task'[t])
  BY <1>1 DEF IInv, TypeOK, StopCommand, TaskSound, Using, Task, Requests, Command, NoCommand
<1>4. task'[t].held =>
        \/ LockFree
        \/ task[t].held /\ (task[t].pc = "started" => task'[t].pc = "started")
  BY <1>1 DEF IInv, TypeOK, StopCommand, TaskSound, Task, Command, NoCommand
<1>5. QED
  BY <1>2, <1>3, <1>4, TaskChange

LEMMA KillCommandInv ==
  ASSUME IInv, NEW t \in Tasks, KillCommand(t)
  PROVE  IInv'
<1>1. TaskSound(task[t]) /\ task[t] \in Task
  BY DEF IInv, Sound, TypeOK
<1>2. OneTask(t) /\ UNCHANGED <<proc, job, known>>
  BY <1>1 DEF IInv, TypeOK, KillCommand, OneTask, Task, TaskPC, Requests, Command, NoCommand
<1>3. TaskSound(task'[t])
  BY <1>1 DEF IInv, TypeOK, KillCommand, TaskSound, Using, Task, Requests, Command, NoCommand
<1>4. task'[t].held =>
        \/ LockFree
        \/ task[t].held /\ (task[t].pc = "started" => task'[t].pc = "started")
  BY <1>1 DEF IInv, TypeOK, KillCommand, TaskSound, Task, Command, NoCommand
<1>5. QED
  BY <1>2, <1>3, <1>4, TaskChange

LEMMA ShellReapedInv ==
  ASSUME IInv, NEW t \in Tasks, ShellReaped(t)
  PROVE  IInv'
<1>1. TaskSound(task[t]) /\ task[t] \in Task
  BY DEF IInv, Sound, TypeOK
<1>2. OneTask(t) /\ UNCHANGED <<proc, job, known>>
  BY <1>1 DEF IInv, TypeOK, ShellReaped, OneTask, Task, TaskPC, Requests, Command, NoCommand
<1>3. TaskSound(task'[t])
  BY <1>1 DEF IInv, TypeOK, ShellReaped, TaskSound, Using, Task, Requests, Command, NoCommand
<1>4. task'[t].held =>
        \/ LockFree
        \/ task[t].held /\ (task[t].pc = "started" => task'[t].pc = "started")
  BY <1>1 DEF IInv, TypeOK, ShellReaped, TaskSound, Task, Command, NoCommand
<1>5. QED
  BY <1>2, <1>3, <1>4, TaskChange

LEMMA OutputReadInv ==
  ASSUME IInv, NEW t \in Tasks, OutputRead(t)
  PROVE  IInv'
<1>1. TaskSound(task[t]) /\ task[t] \in Task
  BY DEF IInv, Sound, TypeOK
<1>2. OneTask(t) /\ UNCHANGED <<proc, job, known>>
  BY <1>1 DEF IInv, TypeOK, OutputRead, OneTask, Task, TaskPC, Requests, Command, NoCommand
<1>3. TaskSound(task'[t])
  BY <1>1 DEF IInv, TypeOK, OutputRead, TaskSound, Using, Task, Requests, Command, NoCommand
<1>4. task'[t].held =>
        \/ LockFree
        \/ task[t].held /\ (task[t].pc = "started" => task'[t].pc = "started")
  BY <1>1 DEF IInv, TypeOK, OutputRead, TaskSound, Task, Command, NoCommand
<1>5. QED
  BY <1>2, <1>3, <1>4, TaskChange

LEMMA AskBackgroundInv ==
  ASSUME IInv, NEW t \in Tasks, NEW kind \in {"mutating", "reading"}, AskBackground(t, kind)
  PROVE  IInv'
<1>1. TaskSound(task[t]) /\ task[t] \in Task
  BY DEF IInv, Sound, TypeOK
<1>2. OneTask(t) /\ UNCHANGED <<proc, job, known>>
  BY <1>1 DEF IInv, TypeOK, AskBackground, OneTask, Task, TaskPC, Requests
<1>3. TaskSound(task'[t])
  BY <1>1 DEF IInv, TypeOK, AskBackground, TaskSound, Using, Task, Requests
<1>4. task'[t].held =>
        \/ LockFree
        \/ task[t].held /\ (task[t].pc = "started" => task'[t].pc = "started")
  BY <1>1 DEF IInv, TypeOK, AskBackground, TaskSound, Task
<1>5. QED
  BY <1>2, <1>3, <1>4, TaskChange

LEMMA ReleaseAfterStartInv ==
  ASSUME IInv, NEW t \in Tasks, ReleaseAfterStart(t)
  PROVE  IInv'
<1>1. TaskSound(task[t]) /\ task[t] \in Task
  BY DEF IInv, Sound, TypeOK
<1>2. OneTask(t) /\ UNCHANGED <<proc, job, known>>
  BY <1>1 DEF IInv, TypeOK, ReleaseAfterStart, OneTask, Task, TaskPC, Requests
<1>3. TaskSound(task'[t])
  BY <1>1 DEF IInv, TypeOK, ReleaseAfterStart, TaskSound, Using, Task, Requests
<1>4. task'[t].held =>
        \/ LockFree
        \/ task[t].held /\ (task[t].pc = "started" => task'[t].pc = "started")
  BY <1>1 DEF IInv, TypeOK, ReleaseAfterStart, TaskSound, Task
<1>5. QED
  BY <1>2, <1>3, <1>4, TaskChange

LEMMA ReleaseLeaseInv ==
  ASSUME IInv, NEW t \in Tasks, ReleaseLease(t)
  PROVE  IInv'
<1>1. TaskSound(task[t]) /\ task[t] \in Task
  BY DEF IInv, Sound, TypeOK
<1>2. OneTask(t) /\ UNCHANGED <<proc, job, known>>
  BY <1>1 DEF IInv, TypeOK, ReleaseLease, OneTask, Task, TaskPC, Requests
<1>3. TaskSound(task'[t])
  BY <1>1 DEF IInv, TypeOK, ReleaseLease, TaskSound, Using, Task, Requests
<1>4. task'[t].held =>
        \/ LockFree
        \/ task[t].held /\ (task[t].pc = "started" => task'[t].pc = "started")
  BY <1>1 DEF IInv, TypeOK, ReleaseLease, TaskSound, Task
<1>5. QED
  BY <1>2, <1>3, <1>4, TaskChange

LEMMA ChildExitsInv ==
  ASSUME IInv, NEW j \in Jobs, ChildExits(j)
  PROVE  IInv'
<1>1. JobSound(job[j]) /\ job[j] \in Job
  BY DEF IInv, Sound, TypeOK
<1>2. OneJob(j) /\ UNCHANGED <<proc, task, known>>
  BY <1>1 DEF IInv, TypeOK, ChildExits, OneJob, Job, Phases
<1>3. JobSound(job'[j])
  BY <1>1 DEF IInv, TypeOK, ChildExits, JobSound, Ended, NoJob, Job
<1>4. /\ Unfinished(j)
      /\ job'[j].proc = job[j].proc /\ job'[j].phase \notin {"none", "orphaned"}
      /\ job'[j].leased => job[j].leased
  BY <1>1 DEF IInv, TypeOK, ChildExits, Unfinished, Job
<1>5. QED
  BY <1>2, <1>3, <1>4, JobChange

LEMMA ExpireInv ==
  ASSUME IInv, NEW j \in Jobs, Expire(j)
  PROVE  IInv'
<1>1. JobSound(job[j]) /\ job[j] \in Job
  BY DEF IInv, Sound, TypeOK
<1>2. OneJob(j) /\ UNCHANGED <<proc, task, known>>
  BY <1>1 DEF IInv, TypeOK, Expire, OneJob, Job, Phases
<1>3. JobSound(job'[j])
  BY <1>1 DEF IInv, TypeOK, Expire, JobSound, Ended, NoJob, Job
<1>4. /\ Unfinished(j)
      /\ job'[j].proc = job[j].proc /\ job'[j].phase \notin {"none", "orphaned"}
      /\ job'[j].leased => job[j].leased
  BY <1>1 DEF IInv, TypeOK, Expire, Unfinished, Job
<1>5. QED
  BY <1>2, <1>3, <1>4, JobChange

LEMMA TerminateInv ==
  ASSUME IInv, NEW j \in Jobs, Terminate(j)
  PROVE  IInv'
<1>1. JobSound(job[j]) /\ job[j] \in Job
  BY DEF IInv, Sound, TypeOK
<1>2. OneJob(j) /\ UNCHANGED <<proc, task, known>>
  BY <1>1 DEF IInv, TypeOK, Terminate, OneJob, Job, Phases
<1>3. JobSound(job'[j])
  BY <1>1 DEF IInv, TypeOK, Terminate, JobSound, Ended, NoJob, Job
<1>4. /\ Unfinished(j)
      /\ job'[j].proc = job[j].proc /\ job'[j].phase \notin {"none", "orphaned"}
      /\ job'[j].leased => job[j].leased
  BY <1>1 DEF IInv, TypeOK, Terminate, Unfinished, Job
<1>5. QED
  BY <1>2, <1>3, <1>4, JobChange

LEMMA KillAndReapInv ==
  ASSUME IInv, NEW j \in Jobs, KillAndReap(j)
  PROVE  IInv'
<1>1. JobSound(job[j]) /\ job[j] \in Job
  BY DEF IInv, Sound, TypeOK
<1>2. OneJob(j) /\ UNCHANGED <<proc, task, known>>
  BY <1>1 DEF IInv, TypeOK, KillAndReap, OneJob, Job, Phases
<1>3. JobSound(job'[j])
  BY <1>1 DEF IInv, TypeOK, KillAndReap, JobSound, Ended, NoJob, Job
<1>4. /\ Unfinished(j)
      /\ job'[j].proc = job[j].proc /\ job'[j].phase \notin {"none", "orphaned"}
      /\ job'[j].leased => job[j].leased
  BY <1>1 DEF IInv, TypeOK, KillAndReap, Unfinished, Job
<1>5. QED
  BY <1>2, <1>3, <1>4, JobChange

LEMMA SuperviseFailsInv ==
  ASSUME IInv, NEW j \in Jobs, SuperviseFails(j)
  PROVE  IInv'
<1>1. JobSound(job[j]) /\ job[j] \in Job
  BY DEF IInv, Sound, TypeOK
<1>2. OneJob(j) /\ UNCHANGED <<proc, task, known>>
  BY <1>1 DEF IInv, TypeOK, SuperviseFails, OneJob, Job, Phases
<1>3. JobSound(job'[j])
  BY <1>1 DEF IInv, TypeOK, SuperviseFails, JobSound, Ended, NoJob, Job
<1>4. /\ Unfinished(j)
      /\ job'[j].proc = job[j].proc /\ job'[j].phase \notin {"none", "orphaned"}
      /\ job'[j].leased => job[j].leased
  BY <1>1 DEF IInv, TypeOK, SuperviseFails, Unfinished, Job
<1>5. QED
  BY <1>2, <1>3, <1>4, JobChange

LEMMA ReleaseJobLeaseInv ==
  ASSUME IInv, NEW j \in Jobs, ReleaseJobLease(j)
  PROVE  IInv'
<1>1. JobSound(job[j]) /\ job[j] \in Job
  BY DEF IInv, Sound, TypeOK
<1>2. OneJob(j) /\ UNCHANGED <<proc, task, known>>
  BY <1>1 DEF IInv, TypeOK, ReleaseJobLease, OneJob, Job, Phases
<1>3. JobSound(job'[j])
  BY <1>1 DEF IInv, TypeOK, ReleaseJobLease, JobSound, Ended, NoJob, Job
<1>4. /\ Unfinished(j)
      /\ job'[j].proc = job[j].proc /\ job'[j].phase \notin {"none", "orphaned"}
      /\ job'[j].leased => job[j].leased
  BY <1>1 DEF IInv, TypeOK, ReleaseJobLease, Unfinished, Job
<1>5. QED
  BY <1>2, <1>3, <1>4, JobChange

LEMMA FinishInv ==
  ASSUME IInv, NEW j \in Jobs, Finish(j)
  PROVE  IInv'
<1>1. JobSound(job[j]) /\ job[j] \in Job
  BY DEF IInv, Sound, TypeOK
<1>2. OneJob(j) /\ UNCHANGED <<proc, task, known>>
  BY <1>1 DEF IInv, TypeOK, Finish, OneJob, Job, Phases
<1>3. JobSound(job'[j])
  BY <1>1 DEF IInv, TypeOK, Finish, JobSound, Ended, NoJob, Job
<1>4. /\ Unfinished(j)
      /\ job'[j].proc = job[j].proc /\ job'[j].phase \notin {"none", "orphaned"}
      /\ job'[j].leased => job[j].leased
  BY <1>1 DEF IInv, TypeOK, Finish, Unfinished, Job
<1>5. QED
  BY <1>2, <1>3, <1>4, JobChange

LEMMA StopInv ==
  ASSUME IInv, NEW j \in Jobs, Stop(j)
  PROVE  IInv'
<1>1. JobSound(job[j]) /\ job[j] \in Job
  BY DEF IInv, Sound, TypeOK
<1>2. OneJob(j) /\ UNCHANGED <<proc, task, known>>
  BY <1>1 DEF IInv, TypeOK, Stop, OneJob, Job, Phases
<1>3. JobSound(job'[j])
  BY <1>1 DEF IInv, TypeOK, Stop, JobSound, Ended, NoJob, Job
<1>4. /\ Unfinished(j)
      /\ job'[j].proc = job[j].proc /\ job'[j].phase \notin {"none", "orphaned"}
      /\ job'[j].leased => job[j].leased
  BY <1>1 DEF IInv, TypeOK, Stop, Unfinished, Job
<1>5. QED
  BY <1>2, <1>3, <1>4, JobChange

LEMMA NewJobSound ==
  ASSUME NEW p \in Procs, NEW m \in BOOLEAN
  PROVE  /\ NewJob(p, m) \in Job
         /\ NewJob(p, m).proc = p /\ NewJob(p, m).phase = "running"
         /\ NewJob(p, m).child = "alive"
         /\ NewJob(p, m).leased = m /\ NewJob(p, m).mutating = m
BY DEF NewJob, NoJob, Job, Phases

\* A new job is registered where another, finished one may have been.
LEMMA SpawnInv ==
  ASSUME IInv, NEW t \in Tasks, NEW j \in Jobs, Spawn(t, j)
  PROVE  IInv'
<1> DEFINE p == task[t].proc
<1> DEFINE request == task[t].request
<1> DEFINE new == NewJob(p, request = "mutating")
<1>1. TaskSound(task[t]) /\ task[t] \in Task /\ JobSound(job[j]) /\ job[j] \in Job
  BY DEF IInv, Sound, TypeOK
<1>2. p \in Procs /\ request \in Requests /\ request # "no"
  BY <1>1 DEF Task, Spawn
<1>3. job[j] = NoJob /\ proc[p].state = "up" /\ UNCHANGED proc
  BY <1>1 DEF Spawn, MayStart, JobSound
<1>4. /\ new \in Job
      /\ new.proc = p /\ new.phase = "running" /\ new.child = "alive"
      /\ new.leased = (request = "mutating")
      /\ new.mutating = (request = "mutating")
  <2>1. (request = "mutating") \in BOOLEAN
    OBVIOUS
  <2>2. QED
    BY <1>2, <2>1, NewJobSound, Zenon
<1> HIDE DEF new
<1>5. job' = [job EXCEPT ![j] = new]
  BY DEF Spawn, new
<1>6. OneJob(j) /\ job'[j] = new
  BY <1>4, <1>5 DEF IInv, TypeOK, OneJob
<1>7. /\ OneTask(t)
      /\ task'[t] = [task[t] EXCEPT !.request = "no",
                                    !.pc = IF request = "mutating" THEN "started" ELSE "idle"]
  BY <1>1 DEF IInv, TypeOK, Spawn, OneTask, Task, TaskPC, Requests
<1>8. known' = [known EXCEPT ![p] = Kept(p) \union {j}]
  BY DEF Spawn
<1>9. TypeOK'
  <2>1. Kept(p) \in SUBSET Jobs
    BY <1>2, KeptSound DEF IInv, TypeOK
  <2>2. QED
    BY <1>3, <1>6, <1>7, <1>8, <2>1 DEF IInv, TypeOK, OneJob, OneTask
<1>10. Sound'
  <2>1. TaskSound(task'[t])
    BY <1>1, <1>2, <1>7 DEF TaskSound, Using, Task, Requests
  <2>2. JobSound(job'[j])
    BY <1>2, <1>4, <1>6 DEF JobSound, Ended
  <2>3. \A u \in Tasks : TaskSound(task'[u])
    BY <1>7, <2>1 DEF IInv, Sound, OneTask
  <2>4. \A i \in Jobs : JobSound(job'[i])
    BY <1>6, <2>2 DEF IInv, Sound, OneJob
  <2>5. QED
    BY <2>3, <2>4 DEF Sound, TaskSound, JobSound
<1>11. Lease'
  <2>1. \A u \in Tasks : task'[u].held = task[u].held
    BY <1>1, <1>7 DEF OneTask, Task
  <2>2. task[t].held /\ task[t].pc = "starting"
    BY <1>1, <1>2 DEF TaskSound, Using
  <2>3. \A i \in Jobs : ~ job[i].leased
    BY <2>2 DEF IInv, Lease
  <2>4. job'[j].leased => task'[t].pc = "started"
    BY <1>1, <1>4, <1>6, <1>7 DEF Task
  <2>5. \A i \in Jobs : i # j => ~ job'[i].leased
    BY <1>6, <2>3 DEF OneJob
  <2>6. QED
    BY <2>1, <2>2, <2>4, <2>5 DEF IInv, Lease
<1>12. Registered'
  <2>1. \A i \in Jobs : Unfinished(i)' => i \in known'[job'[i].proc]
    <3> SUFFICES ASSUME NEW i \in Jobs, Unfinished(i)' PROVE i \in known'[job'[i].proc]
      OBVIOUS
    <3>1. CASE i = j
      BY <3>1, <1>2, <1>4, <1>6, <1>8 DEF IInv, TypeOK
    <3>2. CASE i # j
      <4>1. job'[i] = job[i] /\ Unfinished(i) /\ i \in known[job[i].proc] /\ job[i].proc \in Procs
        BY <3>2, <1>6 DEF OneJob, Unfinished, IInv, Registered, Sound, JobSound
      <4>2. CASE job[i].proc = p
        BY <4>1, <4>2, <1>2, <1>8, KeptSound DEF IInv, TypeOK
      <4>3. CASE job[i].proc # p
        BY <4>1, <4>3, <1>2, <1>8 DEF IInv, TypeOK
      <4>4. QED
        BY <4>2, <4>3
    <3>3. QED
      BY <3>1, <3>2
  <2>2. Cardinality(Kept(p) \union {j}) <= MaxJobs
    <3>1. IsFiniteSet(Kept(p)) /\ Cardinality(Kept(p)) \in Nat
      BY <1>2, KeptSound
    <3>2. Cardinality(Kept(p)) < MaxJobs
      BY DEF Spawn, MayStart
    <3>3. Cardinality(Kept(p) \union {j}) = IF j \in Kept(p) THEN Cardinality(Kept(p))
                                                         ELSE Cardinality(Kept(p)) + 1
      BY <3>1, FS_AddElement
    <3>4. QED
      BY <3>1, <3>2, <3>3, Constants
  <2>3. \A q \in Procs : Cardinality(known'[q]) <= MaxJobs
    <3> SUFFICES ASSUME NEW q \in Procs PROVE Cardinality(known'[q]) <= MaxJobs
      OBVIOUS
    <3>1. CASE q = p
      <4>1. known'[q] = Kept(p) \union {j}
        BY <3>1, <1>8 DEF IInv, TypeOK
      <4>2. QED
        BY <4>1, <2>2
    <3>2. CASE q # p
      <4>1. known'[q] = known[q]
        BY <3>2, <1>8 DEF IInv, TypeOK
      <4>2. QED
        BY <4>1 DEF IInv, Registered
    <3>3. QED
      BY <3>1, <3>2
  <2>4. QED
    BY <2>1, <2>3 DEF Registered
<1>13. Closed'
  BY <1>2, <1>3, <1>4, <1>6 DEF IInv, Closed, OneJob
<1>14. QED
  BY <1>9, <1>10, <1>11, <1>12, <1>13 DEF IInv

\* A start that fails may still have made room.
LEMMA SpawnFailsInv ==
  ASSUME IInv, NEW t \in Tasks, SpawnFails(t)
  PROVE  IInv'
<1> DEFINE p == task[t].proc
<1>1. TaskSound(task[t]) /\ task[t] \in Task
  BY DEF IInv, Sound, TypeOK
<1>2. p \in Procs /\ UNCHANGED <<proc, job>>
  BY <1>1 DEF Task, SpawnFails
<1>3. OneTask(t)
  BY <1>1 DEF IInv, TypeOK, SpawnFails, OneTask, Task, TaskPC, Requests
<1>4. TaskSound(task'[t]) /\ task'[t].held = task[t].held /\ task[t].pc # "started"
  BY <1>1 DEF IInv, TypeOK, SpawnFails, TaskSound, Using, Task, Requests
<1>5. CASE UNCHANGED known
  BY <1>2, <1>3, <1>4, <1>5, TaskChange
<1>6. CASE known' = [known EXCEPT ![p] = Kept(p)]
  <2>1. TypeOK'
    <3>1. Kept(p) \in SUBSET Jobs
      BY <1>2, KeptSound DEF IInv, TypeOK
    <3>2. QED
      BY <1>2, <1>3, <1>6, <3>1 DEF IInv, TypeOK, OneTask
  <2>2. Sound'
    <3>1. \A u \in Tasks : TaskSound(task'[u])
      BY <1>3, <1>4 DEF IInv, Sound, OneTask
    <3>2. QED
      BY <1>2, <3>1 DEF IInv, Sound, TaskSound, JobSound
  <2>3. Lease'
    BY <1>2, <1>3, <1>4 DEF IInv, Lease, OneTask
  <2>4. Registered'
    <3>1. \A i \in Jobs : Unfinished(i) => i \in known'[job[i].proc]
      <4> SUFFICES ASSUME NEW i \in Jobs, Unfinished(i) PROVE i \in known'[job[i].proc]
        OBVIOUS
      <4>1. i \in known[job[i].proc] /\ job[i].proc \in Procs
        BY DEF Unfinished, IInv, Registered, Sound, JobSound
      <4>2. QED
        BY <4>1, <1>2, <1>6, KeptSound DEF IInv, TypeOK
    <3>2. \A q \in Procs : Cardinality(known'[q]) <= MaxJobs
      <4> SUFFICES ASSUME NEW q \in Procs PROVE Cardinality(known'[q]) <= MaxJobs
        OBVIOUS
      <4>1. CASE q = p
        <5>1. known'[q] = Kept(p)
          BY <4>1, <1>6 DEF IInv, TypeOK
        <5>2. QED
          BY <5>1, <1>2, KeptSound
      <4>2. CASE q # p
        <5>1. known'[q] = known[q]
          BY <4>2, <1>6 DEF IInv, TypeOK
        <5>2. QED
          BY <5>1 DEF IInv, Registered
      <4>3. QED
        BY <4>1, <4>2
    <3>3. QED
      BY <1>2, <3>1, <3>2 DEF Registered, Unfinished
  <2>5. Closed'
    BY <1>2 DEF IInv, Closed
  <2>6. QED
    BY <2>1, <2>2, <2>3, <2>4, <2>5 DEF IInv
<1>7. QED
  BY <1>5, <1>6 DEF SpawnFails

\* Whatever is not finished is known, and so is waited for.
LEMMA ShutdownInv ==
  ASSUME IInv, NEW p \in Procs, Shutdown(p)
  PROVE  IInv'
<1>1. /\ \A i \in Jobs : job[i] \in Job /\ JobSound(job[i])
      /\ UNCHANGED <<task, known>> /\ proc[p].state = "up"
  BY DEF IInv, TypeOK, Sound, Shutdown
<1>2. \A i \in Jobs :
        job'[i] = IF i \in known[p] /\ job[i].phase = "running"
                    THEN [job[i] EXCEPT !.cancel = TRUE] ELSE job[i]
  BY DEF Shutdown
<1>3. \A i \in Jobs :
        /\ job'[i] \in Job
        /\ job'[i].proc = job[i].proc /\ job'[i].phase = job[i].phase
        /\ job'[i].child = job[i].child /\ job'[i].leased = job[i].leased
        /\ job'[i].mutating = job[i].mutating
        /\ job[i].phase = "none" => job'[i] = job[i]
  <2> TAKE i \in Jobs
  <2>1. job[i] \in Job
    BY <1>1
  <2>2. CASE job[i].phase = "running" /\ job'[i] = [job[i] EXCEPT !.cancel = TRUE]
    BY <2>1, <2>2 DEF Job
  <2>3. CASE job'[i] = job[i]
    BY <2>1, <2>3
  <2>4. QED
    BY <1>2, <2>2, <2>3
<1>4. /\ proc' \in [Procs -> Proc]
      /\ proc'[p] = [state |-> "closing", left |-> known[p]]
      /\ \A r \in Procs : r # p => proc'[r] = proc[r]
  BY DEF Shutdown, IInv, TypeOK, Proc, ProcState
<1>5. TypeOK'
  <2>1. job' \in [Jobs -> Job]
    BY <1>3 DEF Shutdown
  <2>2. QED
    BY <1>1, <1>4, <2>1 DEF IInv, TypeOK
<1>6. Sound'
  <2>1. \A i \in Jobs : JobSound(job'[i])
    BY <1>1, <1>3 DEF JobSound
  <2>2. QED
    BY <1>1, <2>1 DEF IInv, Sound, TaskSound, JobSound
<1>7. Lease'
  BY <1>1, <1>3 DEF IInv, Lease
<1>8. Registered'
  BY <1>1, <1>3 DEF IInv, Registered, Unfinished
<1>9. Closed'
  <2>1. \A i \in Jobs : job[i].proc = p =>
          /\ job[i].phase \notin {"none", "orphaned"}
          /\ job[i].phase # "finished" => i \in known[p]
    BY <1>1, Constants DEF IInv, Closed, Registered, Unfinished, JobSound, NoJob
  <2>2. QED
    BY <1>1, <1>3, <1>4, <2>1 DEF IInv, Closed
<1>10. QED
  BY <1>5, <1>6, <1>7, <1>8, <1>9 DEF IInv

LEMMA ShutdownWaitsInv ==
  ASSUME IInv, NEW p \in Procs, ShutdownWaits(p)
  PROVE  IInv'
<1> DEFINE first == Min(proc[p].left)
<1>1. UNCHANGED <<task, job, known>> /\ proc[p].state = "closing" /\ proc[p] \in Proc
  BY DEF ShutdownWaits, IInv, TypeOK
<1>2. CASE proc[p].left = {}
  <2>1. proc' = [proc EXCEPT ![p].state = "clean"]
    BY <1>2 DEF ShutdownWaits
  <2>2. TypeOK'
    BY <1>1, <2>1 DEF IInv, TypeOK, Proc, ProcState
  <2>3. Sound' /\ Lease' /\ Registered'
    BY <1>1 DEF IInv, Sound, TaskSound, JobSound, Lease, Registered, Unfinished
  <2>4. Closed'
    BY <1>1, <1>2, <2>1 DEF IInv, Closed, TypeOK, Proc
  <2>5. QED
    BY <2>2, <2>3, <2>4 DEF IInv
<1>3. CASE proc[p].left # {}
  <2>1. job[first].phase = "finished" /\ proc' = [proc EXCEPT ![p].left = @ \ {first}]
    BY <1>3 DEF ShutdownWaits
  <2> HIDE DEF first
  <2>2. TypeOK'
    BY <1>1, <2>1 DEF IInv, TypeOK, Proc, ProcState
  <2>3. Sound' /\ Lease' /\ Registered'
    BY <1>1 DEF IInv, Sound, TaskSound, JobSound, Lease, Registered, Unfinished
  <2>4. Closed'
    BY <1>1, <2>1 DEF IInv, Closed, TypeOK, Proc
  <2>5. QED
    BY <2>2, <2>3, <2>4 DEF IInv
<1>4. QED
  BY <1>2, <1>3

LEMMA ShutdownGivesUpInv ==
  ASSUME IInv, NEW p \in Procs, ShutdownGivesUp(p)
  PROVE  IInv'
<1>1. /\ UNCHANGED <<task, job, known>> /\ proc[p].state = "closing" /\ proc[p] \in Proc
      /\ proc' = [proc EXCEPT ![p] = [state |-> "failed", left |-> {}]]
  BY DEF ShutdownGivesUp, IInv, TypeOK
<1>2. TypeOK'
  BY <1>1 DEF IInv, TypeOK, Proc, ProcState
<1>3. Sound' /\ Lease' /\ Registered'
  BY <1>1 DEF IInv, Sound, TaskSound, JobSound, Lease, Registered, Unfinished
<1>4. Closed'
  BY <1>1 DEF IInv, Closed, TypeOK, Proc
<1>5. QED
  BY <1>2, <1>3, <1>4 DEF IInv

\* The kernel takes every clone of the lease back.
LEMMA ExitInv ==
  ASSUME IInv, NEW p \in Procs, Exit(p)
  PROVE  IInv'
<1>1. /\ \A i \in Jobs : job[i] \in Job /\ JobSound(job[i])
      /\ \A t \in Tasks : task[t] \in Task /\ TaskSound(task[t])
  BY DEF IInv, TypeOK, Sound
<1>2. \A i \in Jobs :
        /\ job'[i] \in Job
        /\ job'[i].proc = job[i].proc
        /\ job[i].proc # p => job'[i] = job[i]
        /\ job'[i].leased => job[i].leased
        /\ job[i].proc = p =>
             \/ job'[i] = job[i] /\ job[i].phase = "finished"
             \/ job'[i].phase = "orphaned"
  BY <1>1 DEF Exit, NoJob, Job, Phases
<1>3. \A t \in Tasks :
        /\ task'[t] \in Task
        /\ task[t].proc # p => task'[t] = task[t]
        /\ task[t].proc = p => ~ task'[t].held /\ task'[t].pc = "gone" /\ task'[t].request = "no"
  BY <1>1 DEF Exit, Task, TaskPC, Requests, NoCommand, Command
<1>4. /\ proc' \in [Procs -> Proc]
      /\ proc'[p].state = "exited"
      /\ \A r \in Procs : r # p => proc'[r] = proc[r]
  BY DEF Exit, IInv, TypeOK, Proc, ProcState
<1>5. /\ known' \in [Procs -> SUBSET Jobs]
      /\ known'[p] = {}
      /\ \A r \in Procs : r # p => known'[r] = known[r]
  BY DEF Exit, IInv, TypeOK
<1>6. TypeOK'
  <2>1. job' \in [Jobs -> Job] /\ task' \in [Tasks -> Task]
    BY <1>2, <1>3 DEF Exit
  <2>2. QED
    BY <1>4, <1>5, <2>1 DEF TypeOK
<1>7. Sound'
  <2>1. ASSUME NEW i \in Jobs PROVE JobSound(job'[i])
    <3>1. CASE job[i].proc = p
      <4>1. CASE job'[i].phase = "orphaned"
        BY <3>1, <4>1, <1>2 DEF JobSound, Ended
      <4>2. CASE job'[i] = job[i]
        BY <4>2, <1>1
      <4>3. QED
        BY <3>1, <4>1, <4>2, <1>2
    <3>2. CASE job[i].proc # p
      BY <3>2, <1>1, <1>2
    <3>3. QED
      BY <3>1, <3>2
  <2>2. \A t \in Tasks : TaskSound(task'[t])
    BY <1>1, <1>3 DEF TaskSound, Using
  <2>3. QED
    BY <2>1, <2>2 DEF Sound, TaskSound, JobSound
<1>8. Lease'
  BY <1>2, <1>3 DEF IInv, Lease
<1>9. Registered'
  <2>1. \A i \in Jobs : Unfinished(i)' => i \in known'[job'[i].proc]
    BY <1>1, <1>2, <1>5 DEF IInv, Registered, Unfinished, JobSound
  <2>2. \A r \in Procs : Cardinality(known'[r]) <= MaxJobs
    <3>1. Cardinality(known'[p]) = 0
      BY <1>5, FS_EmptySet
    <3>2. QED
      BY <1>5, <3>1, Constants DEF IInv, Registered
  <2>3. QED
    BY <2>1, <2>2 DEF Registered
<1>10. Closed'
  BY <1>2, <1>4 DEF IInv, Closed
<1>11. QED
  BY <1>6, <1>7, <1>8, <1>9, <1>10 DEF IInv

----------------------------------------------------------------------------
LEMMA StutterInv == IInv /\ UNCHANGED vars => IInv'
BY DEF vars, IInv, TypeOK, Sound, TaskSound, JobSound, Lease, Registered, Unfinished, Closed

\* No step breaks the invariant.
LEMMA NextInv == IInv /\ [Next]_vars => IInv'
<1> SUFFICES ASSUME IInv, [Next]_vars PROVE IInv'
  OBVIOUS
<1>1. ASSUME NEW t \in Tasks, TaskStep(t) PROVE IInv'
  BY <1>1, BeginCallInv, AcquireInv, GiveUpInv, ActInv, ActedInv, RunCommandInv, ForkInv,
     ShellExitsInv, DescendantEndsInv, StopCommandInv, KillCommandInv, ShellReapedInv,
     OutputReadInv, AskBackgroundInv, ReleaseAfterStartInv, ReleaseLeaseInv, SpawnInv,
     SpawnFailsInv
     DEF TaskStep
<1>2. ASSUME NEW j \in Jobs, JobStep(j) PROVE IInv'
  BY <1>2, ChildExitsInv, ExpireInv, TerminateInv, KillAndReapInv, SuperviseFailsInv,
     ReleaseJobLeaseInv, FinishInv, StopInv
     DEF JobStep
<1>3. ASSUME NEW p \in Procs, ProcStep(p) PROVE IInv'
  BY <1>3, ShutdownInv, ShutdownWaitsInv, ShutdownGivesUpInv, ExitInv DEF ProcStep
<1>4. CASE UNCHANGED vars
  BY <1>4, StutterInv
<1>5. QED
  BY <1>1, <1>2, <1>3, <1>4 DEF Next

\* Who uses the device shares the lock, and the lock has one holder.
LEMMA OneUser == IInv => UiIsExclusive
<1> SUFFICES ASSUME IInv, NEW u \in Users, NEW v \in Users PROVE u = v
  BY DEF UiIsExclusive
<1> DEFINE TaskUses(t) == t \in Tasks /\ task[t].held /\ task[t].pc # "started"
<1> DEFINE JobUses(j) == j \in Jobs /\ job[j].leased
<1>1. \A w \in Users : TaskUses(w) \/ JobUses(w)
  BY DEF Users, InCommand, IInv, Sound, TaskSound, JobSound, Using
<1>2. CASE TaskUses(u) /\ TaskUses(v)
  BY <1>2 DEF IInv, Lease
<1>3. CASE JobUses(u) /\ JobUses(v)
  BY <1>3 DEF IInv, Lease
<1>4. ~ (TaskUses(u) /\ JobUses(v)) /\ ~ (TaskUses(v) /\ JobUses(u))
  BY DEF IInv, Lease
<1>5. QED
  BY <1>1, <1>2, <1>3, <1>4

LEMMA Invariance == Spec => []IInv
<1>1. QED
  BY InitInv, NextInv, PTL DEF Spec

\* The state of a process, its tasks and its jobs is always what the code's types allow.
THEOREM TypeCorrect == Spec => []TypeOK
<1>1. IInv => TypeOK
  BY DEF IInv
<1>2. QED
  BY <1>1, Invariance, PTL

\* At most one task or background shell of all processes uses the device at a time,
\* although a start shares the lock between a task and its shell (shell/broker.rs,
\* runtime/resources.rs).
THEOREM DeviceIsExclusive == Spec => []UiIsExclusive
BY OneUser, Invariance, PTL

\* The registry keeps every shell that may still run, and never more than MAX_JOBS
\* (shell/background.rs, spawn).
THEOREM RegistryIsComplete == Spec => []NothingIsForgotten
<1>1. IInv => NothingIsForgotten
  BY DEF IInv, Registered, Unfinished, NothingIsForgotten
<1>2. QED
  BY <1>1, Invariance, PTL

\* When shutdown_background succeeds, every child was reaped and no start under way
\* leaves another one behind.
THEOREM ShutdownIsClean == Spec => []ShutdownLeavesNothing
<1>1. IInv => ShutdownLeavesNothing
  BY DEF IInv, Closed, Sound, JobSound, Ended, ShutdownLeavesNothing
<1>2. QED
  BY <1>1, Invariance, PTL
=============================================================================
