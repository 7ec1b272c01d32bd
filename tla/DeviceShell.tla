----------------------------- MODULE DeviceShell -----------------------------
(***************************************************************************)
(* The device's screen, focus and input are shared by every nl2sh process. *)
(* A task acquires the kernel lock on one file before it uses them         *)
(* (runtime/resources.rs, agent/runtime.rs) and shares it with the         *)
(* background shells it starts (shell/broker.rs, shell/executor.rs,        *)
(* shell/background.rs), which own it until their children are reaped.  A  *)
(* foreground command runs on pipes or on a terminal of its own            *)
(* (shell/pipeline.rs, shell/pty.rs) while the task holds the lease.       *)
(*                                                                         *)
(* The processes modelled are privileged ones, whose shell commands need   *)
(* the lock too.  Output, exit codes and the recorded outcome of a job are *)
(* left out, and so are descendants that leave the group of their shell.   *)
(***************************************************************************)
EXTENDS Naturals, FiniteSets, FiniteSetsExt

CONSTANTS
  Procs,      \* nl2sh processes
  Tasks,      \* slots for tasks; when one ends, another may take its slot
  Owner,      \* the process of each slot
  MaxStarted, \* bound on the background jobs started
  MaxJobs,    \* MAX_JOBS
  None

Jobs == 1 .. MaxStarted

ASSUME DeviceAssumption ==
  /\ Owner \in [Tasks -> Procs]
  /\ MaxStarted \in Nat
  /\ MaxJobs \in Nat \ {0}
  /\ None \notin Procs

VARIABLES
  proc,   \* process -> where main is, and the jobs its shutdown still waits for
  task,   \* slot -> process, program counter, whether it holds the lease, pending
          \* start, foreground command
  job,    \* job -> its process, supervisor, child, lease, and the requests to end it
  known   \* process -> the jobs in its registry

vars == <<proc, task, job, known>>

ProcState == {"up", "closing", "clean", "failed", "exited"}
Proc == [state : ProcState, left : SUBSET Jobs]

\* request: what spawn_background was asked for and has not started yet.
Requests == {"no", "mutating", "reading"}

\* A foreground command: its shell, and whether a descendant holds the pipes.
Command == [shell : {"none", "alive", "exited"}, pipes : BOOLEAN]
NoCommand == [shell |-> "none", pipes |-> FALSE]

TaskPC == {"idle", "waiting", "ready", "acting", "running", "stopping", "reading",
           "starting", "started", "gone"}
Task == [proc : Procs, pc : TaskPC, held : BOOLEAN, request : Requests, cmd : Command]

Phases == {"none", "running", "terminating", "ended", "released", "finished", "orphaned"}
Job == [proc : Procs \union {None}, phase : Phases, child : {"none", "alive", "exited", "reaped"},
        leased : BOOLEAN, mutating : BOOLEAN, cancel : BOOLEAN]

TypeOK ==
  /\ proc \in [Procs -> Proc]
  /\ task \in [Tasks -> Task]
  /\ job \in [Jobs -> Job]
  /\ known \in [Procs -> SUBSET Jobs]

NoJob == [proc |-> None, phase |-> "none", child |-> "none", leased |-> FALSE,
          mutating |-> FALSE, cancel |-> FALSE]

Init ==
  /\ proc = [p \in Procs |-> [state |-> "up", left |-> {}]]
  /\ task = [t \in Tasks |-> [proc |-> Owner[t], pc |-> "idle", held |-> FALSE, request |-> "no",
                            cmd |-> NoCommand]]
  /\ job = [j \in Jobs |-> NoJob]
  /\ known = [p \in Procs |-> {}]

Running(p) == proc[p].state # "exited"

\* flock(LOCK_EX | LOCK_NB) succeeds: no clone of an earlier lease is left, in a
\* task, in a start that is under way or in a job.
LockFree ==
  /\ \A t \in Tasks : ~ task[t].held /\ task[t].request # "mutating"
  /\ \A j \in Jobs : ~ job[j].leased

----------------------------------------------------------------------------
(* Tasks *)

\* acquire_resources: a lease that is held is used again.
BeginCall(t) ==
  /\ task[t].pc = "idle"
  /\ task' = [task EXCEPT ![t].pc = IF task[t].held THEN "ready" ELSE "waiting"]
  /\ UNCHANGED <<proc, job, known>>

\* One of the polls of acquire_path.
Acquire(t) ==
  /\ task[t].pc = "waiting"
  /\ LockFree
  /\ task' = [task EXCEPT ![t].pc = "ready", ![t].held = TRUE]
  /\ UNCHANGED <<proc, job, known>>

\* Ten seconds of polls: the call's result says that the device is busy.
GiveUp(t) ==
  /\ task[t].pc = "waiting"
  /\ ~ LockFree
  /\ task' = [task EXCEPT ![t].pc = "idle"]
  /\ UNCHANGED <<proc, job, known>>

\* A tool uses the device, or an approval is refused.
Act(t) ==
  /\ task[t].pc = "ready"
  /\ \E next \in {"acting", "idle"} : task' = [task EXCEPT ![t].pc = next]
  /\ UNCHANGED <<proc, job, known>>

Acted(t) ==
  /\ task[t].pc = "acting"
  /\ task' = [task EXCEPT ![t].pc = "idle"]
  /\ UNCHANGED <<proc, job, known>>

\* ExecutionBroker::spawn_background: unless the command only reads, the start
\* takes a clone of the task's lease with it.
AskBackground(t, kind) ==
  /\ task[t].pc = "ready"
  /\ task' = [task EXCEPT ![t].pc = "starting", ![t].request = kind]
  /\ UNCHANGED <<proc, job, known>>

\* Mutant: after a start the task goes on with its lease.
ReleaseAfterStart_KeepsLease(t) ==
  /\ task[t].pc = "started"
  /\ task' = [task EXCEPT ![t].pc = "idle"]
  /\ UNCHANGED <<proc, job, known>>

\* The child owns the lease now; the task must acquire it again.
ReleaseAfterStart(t) ==
  /\ task[t].pc = "started"
  /\ task' = [task EXCEPT ![t].pc = "idle", ![t].held = FALSE]
  /\ UNCHANGED <<proc, job, known>>

\* The task ended, was cancelled while it waited, or waits for a continuation.
ReleaseLease(t) ==
  /\ task[t].pc \in {"idle", "waiting"}
  /\ task[t].pc = "waiting" \/ task[t].held
  /\ task' = [task EXCEPT ![t].pc = "idle", ![t].held = FALSE]
  /\ UNCHANGED <<proc, job, known>>

----------------------------------------------------------------------------
(* execute_with_config: a foreground command, on pipes or on a terminal *)

InCommand(t) == task[t].pc \in {"running", "stopping", "reading"}

RunCommand(t) ==
  /\ task[t].pc = "ready"
  /\ task' = [task EXCEPT ![t].pc = "running", ![t].cmd.shell = "alive"]
  /\ UNCHANGED <<proc, job, known>>

\* The shell starts something in the background that inherits its pipes.
Fork(t) ==
  /\ task[t].cmd.shell = "alive"
  /\ task' = [task EXCEPT ![t].cmd.pipes = TRUE]
  /\ UNCHANGED <<proc, job, known>>

ShellExits(t) ==
  /\ task[t].cmd.shell = "alive"
  /\ task' = [task EXCEPT ![t].cmd.shell = "exited"]
  /\ UNCHANGED <<proc, job, known>>

DescendantEnds(t) ==
  /\ task[t].cmd.pipes
  /\ task' = [task EXCEPT ![t].cmd.pipes = FALSE]
  /\ UNCHANGED <<proc, job, known>>

\* The time limit is over, or Ctrl-C or the cancel signal: SIGTERM, or SIGINT and
\* SIGTERM, to the group of the shell.
StopCommand(t) ==
  /\ task[t].pc = "running"
  /\ task' = [task EXCEPT ![t].pc = "stopping"]
  /\ UNCHANGED <<proc, job, known>>

\* Half a second later: a shell that is still alive is killed with its group; one
\* that has exited is only reaped, whoever is left of its group.
KillCommand(t) ==
  /\ task[t].pc = "stopping"
  /\ task' = [task EXCEPT ![t].pc = "reading", ![t].cmd.shell = "exited",
                          ![t].cmd.pipes = @ /\ task[t].cmd.shell = "exited"]
  /\ UNCHANGED <<proc, job, known>>

ShellReaped(t) ==
  /\ task[t].pc = "running"
  /\ task[t].cmd.shell = "exited"
  /\ task' = [task EXCEPT ![t].pc = "reading"]
  /\ UNCHANGED <<proc, job, known>>

\* The readers of the pipes end when nobody holds them; what a terminal still has
\* is drained without waiting.
OutputRead(t) ==
  /\ task[t].pc = "reading"
  /\ ~ task[t].cmd.pipes
  /\ task' = [task EXCEPT ![t].pc = "idle", ![t].cmd = NoCommand]
  /\ UNCHANGED <<proc, job, known>>

----------------------------------------------------------------------------
(* background::spawn, under the registry lock *)

Finished(p) == {j \in known[p] : job[j].phase = "finished"}

\* Mutant: the oldest job makes room, finished or not.
Oldest_OfAll(p) == {j \in known[p] : \A i \in known[p] : j <= i}

\* The oldest finished job, if there is one.
Oldest(p) == {j \in Finished(p) : \A i \in Finished(p) : j <= i}

\* The jobs that stay when one is added: at the limit the oldest finished one goes.
Kept(p) == IF Cardinality(known[p]) < MaxJobs THEN known[p] ELSE known[p] \ Oldest(p)

\* Mutant: the stopping flag is not looked at.
MayStart_NotStopping(p) == Cardinality(Kept(p)) < MaxJobs

MayStart(p) == proc[p].state = "up" /\ Cardinality(Kept(p)) < MaxJobs

\* A job that mutates owns a clone of the lease.
NewJob(p, mutates) ==
  [NoJob EXCEPT !.proc = p, !.phase = "running", !.child = "alive",
                !.leased = mutates, !.mutating = mutates]

Spawn(t, j) ==
  LET p == task[t].proc
      request == task[t].request IN
  /\ request # "no"
  /\ MayStart(p)
  /\ job[j].phase = "none" /\ \A i \in Jobs : i < j => job[i].phase # "none"
  /\ job' = [job EXCEPT ![j] = NewJob(p, request = "mutating")]
  /\ known' = [known EXCEPT ![p] = Kept(p) \union {j}]
  /\ task' = [task EXCEPT ![t].request = "no",
                          ![t].pc = IF request = "mutating" THEN "started" ELSE "idle"]
  /\ UNCHANGED proc

\* Shutting down, too many jobs, `su`, a cancelled executor, or the shell or its
\* supervisor cannot be created; a finished job may have made room in vain.
SpawnFails(t) ==
  LET p == task[t].proc IN
  /\ task[t].request # "no"
  /\ task' = [task EXCEPT ![t].request = "no", ![t].pc = "idle"]
  /\ \/ UNCHANGED known
     \/ MayStart(p) /\ known' = [known EXCEPT ![p] = Kept(p)]
  /\ UNCHANGED <<proc, job>>

----------------------------------------------------------------------------
(* supervise: one thread for each job *)

\* The shell exits; descendants in its group may go on until they are killed.
ChildExits(j) ==
  /\ job[j].phase \in {"running", "terminating"} /\ job[j].child = "alive"
  /\ job' = [job EXCEPT ![j].child = "exited"]
  /\ UNCHANGED <<proc, task, known>>

\* The time limit of the job is over.
Expire(j) ==
  /\ job[j].phase = "running"
  /\ job' = [job EXCEPT ![j].phase = "terminating"]
  /\ UNCHANGED <<proc, task, known>>

\* Mutant: only an exit or the time limit ends a job.
Terminate_IgnoresCancel(j) ==
  /\ job[j].phase = "running"
  /\ job[j].child = "exited"
  /\ job' = [job EXCEPT ![j].phase = "terminating"]
  /\ UNCHANGED <<proc, task, known>>

\* SIGTERM to the group, because the shell exited or is to be stopped.
Terminate(j) ==
  /\ job[j].phase = "running"
  /\ job[j].child = "exited" \/ job[j].cancel
  /\ job' = [job EXCEPT ![j].phase = "terminating"]
  /\ UNCHANGED <<proc, task, known>>

\* 500 ms later: SIGKILL to the group, the shell is reaped and its pipes are read
\* to their end, or for another 500 ms.
KillAndReap(j) ==
  /\ job[j].phase = "terminating"
  /\ job' = [job EXCEPT ![j].phase = "ended", ![j].child = "reaped"]
  /\ UNCHANGED <<proc, task, known>>

\* A read, signal or wait fails: ChildGuard kills and reaps on the way out.
SuperviseFails(j) ==
  /\ job[j].phase \in {"running", "terminating"}
  /\ job' = [job EXCEPT ![j].phase = "ended", ![j].child = "reaped"]
  /\ UNCHANGED <<proc, task, known>>

ReleaseJobLease(j) ==
  /\ job[j].phase = "ended"
  /\ job' = [job EXCEPT ![j].phase = "released", ![j].leased = FALSE]
  /\ UNCHANGED <<proc, task, known>>

Finish(j) ==
  /\ job[j].phase = "released"
  /\ job' = [job EXCEPT ![j].phase = "finished"]
  /\ UNCHANGED <<proc, task, known>>

\* background::stop, of any task of the process and without the lease.  Later than
\* this the request changes nothing, and neither do the five seconds it waits.
Stop(j) ==
  /\ \E p \in Procs : j \in known[p]
  /\ job[j].phase = "running"
  /\ job' = [job EXCEPT ![j].cancel = TRUE]
  /\ UNCHANGED <<proc, task, known>>

----------------------------------------------------------------------------
(* The end of a process *)

\* shutdown_background refuses new jobs and cancels those there are.
Shutdown(p) ==
  /\ proc[p].state = "up"
  /\ proc' = [proc EXCEPT ![p] = [state |-> "closing", left |-> known[p]]]
  /\ job' = [j \in Jobs |-> IF j \in known[p] /\ job[j].phase = "running"
                            THEN [job[j] EXCEPT !.cancel = TRUE] ELSE job[j]]
  /\ UNCHANGED <<task, known>>

\* wait_finished, one job after the other.
ShutdownWaits(p) ==
  /\ proc[p].state = "closing"
  /\ IF proc[p].left = {} THEN proc' = [proc EXCEPT ![p].state = "clean"]
     ELSE /\ job[Min(proc[p].left)].phase = "finished"
          /\ proc' = [proc EXCEPT ![p].left = @ \ {Min(@)}]
  /\ UNCHANGED <<task, job, known>>

\* The first job that is not finished within five seconds ends it.
ShutdownGivesUp(p) ==
  /\ proc[p].state = "closing" /\ proc[p].left # {}
  /\ job[Min(proc[p].left)].phase # "finished"
  /\ proc' = [proc EXCEPT ![p] = [state |-> "failed", left |-> {}]]
  /\ UNCHANGED <<task, job, known>>

\* main returns after the shutdown, or the process dies at any time: the kernel
\* closes the lock file, and children that are not reaped go on unsupervised and
\* out of the model.
Exit(p) ==
  /\ Running(p)
  /\ proc' = [proc EXCEPT ![p] = [state |-> "exited", left |-> {}]]
  /\ task' = [t \in Tasks |-> IF task[t].proc = p
                              THEN [task[t] EXCEPT !.pc = "gone", !.held = FALSE, !.request = "no",
                                                   !.cmd = NoCommand]
                              ELSE task[t]]
  /\ job' = [j \in Jobs |-> IF job[j].proc = p /\ job[j].phase # "finished"
                            THEN [NoJob EXCEPT !.proc = p, !.phase = "orphaned"]
                            ELSE job[j]]
  /\ known' = [known EXCEPT ![p] = {}]

----------------------------------------------------------------------------
TaskStep(t) ==
  \/ BeginCall(t)
  \/ Acquire(t)
  \/ GiveUp(t)
  \/ Act(t)
  \/ Acted(t)
  \/ RunCommand(t) \/ Fork(t) \/ ShellExits(t) \/ DescendantEnds(t)
  \/ StopCommand(t) \/ KillCommand(t) \/ ShellReaped(t) \/ OutputRead(t)
  \/ \E kind \in {"mutating", "reading"} : AskBackground(t, kind)
  \/ ReleaseAfterStart(t)
  \/ ReleaseLease(t)
  \/ \E j \in Jobs : Spawn(t, j)
  \/ SpawnFails(t)

JobStep(j) ==
  \/ ChildExits(j)
  \/ Expire(j)
  \/ Terminate(j)
  \/ KillAndReap(j)
  \/ SuperviseFails(j)
  \/ ReleaseJobLease(j)
  \/ Finish(j)
  \/ Stop(j)

ProcStep(p) ==
  \/ Shutdown(p)
  \/ ShutdownWaits(p)
  \/ ShutdownGivesUp(p)
  \/ Exit(p)

Next ==
  \/ \E t \in Tasks : TaskStep(t)
  \/ \E j \in Jobs : JobStep(j)
  \/ \E p \in Procs : ProcStep(p)

Spec == Init /\ [][Next]_vars

\* The supervisor is a thread of its own: it goes on, whatever its shell does.
Supervise(j) ==
  Terminate(j) \/ KillAndReap(j) \/ ReleaseJobLease(j) \/ Finish(j)

\* And so does the wait for a foreground command, a future or thread of its own.
Attend(t) ==
  StopCommand(t) \/ KillCommand(t) \/ ShellReaped(t) \/ OutputRead(t)

FairSpec ==
  Spec /\ (\A j \in Jobs : WF_vars(Supervise(j))) /\ (\A t \in Tasks : WF_vars(Attend(t)))

----------------------------------------------------------------------------
(* Properties *)

\* At most one task or background shell uses the device at a time, in whichever
\* processes they are, from the moment a lease is shared with a shell until its
\* group is killed.  (Children of a process that is gone are unsupervised.)
Users ==
  {t \in Tasks : task[t].pc = "acting" \/ InCommand(t)}
    \union {j \in Jobs : job[j].mutating /\ job[j].phase # "orphaned"
                           /\ job[j].child \in {"alive", "exited"}}

UiIsExclusive == \A u, v \in Users : u = v

\* A shell that may still run can be found, read and stopped by its handle, and
\* the registry never holds more than MAX_JOBS.
NothingIsForgotten ==
  /\ \A j \in Jobs : job[j].phase \notin {"none", "finished", "orphaned"} => j \in known[job[j].proc]
  /\ \A p \in Procs : Cardinality(known[p]) <= MaxJobs

\* When shutdown_background succeeds every child is reaped, and no start that was
\* under way leaves another one behind.
ShutdownLeavesNothing ==
  \A p \in Procs : proc[p].state = "clean" =>
    \A j \in Jobs : job[j].proc = p => job[j].phase = "finished" /\ job[j].child = "reaped"

\* A job that was told to stop, or ran out of time, gives the device back and ends,
\* even if its shell ignores every request; only the end of its process forestalls it.
JobsEnd ==
  \A j \in Jobs :
    job[j].cancel \/ job[j].child = "exited" \/ job[j].phase = "terminating"
      ~> job[j].phase \in {"finished", "orphaned"} /\ ~ job[j].leased

\* A foreground command ends, at the latest when its time limit is over.
CommandEnds == \A t \in Tasks : InCommand(t) ~> ~ InCommand(t)
=============================================================================
