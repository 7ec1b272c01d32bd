------------------------------- MODULE Service -------------------------------
(***************************************************************************)
(* The managed background service of one configuration (service.rs).       *)
(* Controllers, the processes of `service start`, `stop` and `restart`,    *)
(* take the operation lock, read the state file and talk to the service    *)
(* it names.  A service process takes the running lock, starts its         *)
(* servers, writes the state file and removes it again before it exits.    *)
(* Any process may die at any time: the kernel then frees its locks, and   *)
(* what it wrote or launched stays.                                        *)
(*                                                                         *)
(* The record is the number of the process that wrote it: process          *)
(* identifier, start time and executable identify a process for good, so   *)
(* that a record is never taken for another one.  Ports, the policy a      *)
(* service was started with and the log are left out; so is `status`,      *)
(* which changes nothing.                                                  *)
(***************************************************************************)
EXTENDS Naturals

CONSTANTS
  Controllers,
  MaxServices,  \* bound on the service processes launched
  MaxOperations \* bound on the operations asked for

Services == 1 .. MaxServices
Nobody == 0

ASSUME ServiceAssumption == MaxServices \in Nat /\ MaxOperations \in Nat

VARIABLES
  controller,  \* operation, program counter, the service it read of, its child
  service,     \* phase, the shutdown request, whether its controller left it alone
  record,      \* state.json: the process it names
  asked,       \* operations asked for so far
  quiet        \* history: a stop has succeeded and nothing was launched since

vars == <<controller, service, record, asked, quiet>>

Operations == {"start", "stop", "restart"}
PC == {"idle", "locking", "status", "health", "launch", "polling", "stop", "sending", "sent",
       "ending"}
Controller == [op : Operations, pc : PC, seen : Services \union {Nobody},
               child : Services \union {Nobody}]
Idle == [op |-> "stop", pc |-> "idle", seen |-> Nobody, child |-> Nobody]

Phases == {"none", "waiting", "starting", "serving", "closing", "draining", "gone"}
Service == [phase : Phases, request : {"no", "sent", "accepted"}, stray : BOOLEAN]

TypeOK ==
  /\ controller \in [Controllers -> Controller]
  /\ service \in [Services -> Service]
  /\ record \in Services \union {Nobody}
  /\ asked \in 0 .. MaxOperations
  /\ quiet \in BOOLEAN

Init ==
  /\ controller = [c \in Controllers |-> Idle]
  /\ service = [s \in Services |-> [phase |-> "none", request |-> "no", stray |-> FALSE]]
  /\ record = Nobody
  /\ asked = 0
  /\ quiet = TRUE

At(c, label) == controller[c].pc = label
Goto(c, label) == controller' = [controller EXCEPT ![c].pc = label]
Return(c) == controller' = [controller EXCEPT ![c] = Idle]

Alive(s) == s # Nobody /\ service[s].phase \notin {"none", "gone"}

\* Mutant: the locks are given back before the state file is removed.
HasRunningLock_NotClosing(s) == service[s].phase \in {"starting", "serving"}

\* flock on running.lock, from its acquisition to the end of the process.
HasRunningLock(s) == service[s].phase \in {"starting", "serving", "closing", "draining"}

RunningLockFree == \A s \in Services : ~ HasRunningLock(s)

OperationLockFree == \A c \in Controllers : controller[c].pc \in {"idle", "locking"}

\* A controller that is polling goes away; its child, in a session of its own, stays.
LeaveChild(c) ==
  [s \in Services |-> [service[s] EXCEPT
                        !.stray = @ \/ (At(c, "polling") /\ controller[c].child = s)]]

----------------------------------------------------------------------------
(* Service::control *)

Ask(c, op) ==
  /\ At(c, "idle")
  /\ asked < MaxOperations
  /\ asked' = asked + 1
  /\ controller' = [controller EXCEPT ![c] = [Idle EXCEPT !.op = op, !.pc = "locking"]]
  /\ UNCHANGED <<service, record, quiet>>

LockOperation(c) ==
  /\ At(c, "locking")
  /\ OperationLockFree
  /\ Goto(c, IF controller[c].op = "start" THEN "status" ELSE "stop")
  /\ UNCHANGED <<service, record, asked, quiet>>

\* Twenty seconds of polls: the lifecycle is busy.
LockTimesOut(c) ==
  /\ At(c, "locking")
  /\ ~ OperationLockFree
  /\ Return(c)
  /\ UNCHANGED <<service, record, asked, quiet>>

----------------------------------------------------------------------------
(* start *)

\* status: a record of a process that is gone counts for nothing.
ReadStatus(c) ==
  /\ At(c, "status")
  /\ controller' = [controller EXCEPT ![c].seen = IF Alive(record) THEN record ELSE Nobody,
                                      ![c].pc = IF Alive(record) THEN "health" ELSE "launch"]
  /\ UNCHANGED <<service, record, asked, quiet>>

\* A healthy service is returned as it is, and an unhealthy one is not replaced.
\* Either way nothing changes, even if the service ends in the meantime.
CheckHealth(c) ==
  /\ At(c, "health")
  /\ Return(c)
  /\ UNCHANGED <<service, record, asked, quiet>>

Launch(c, s) ==
  /\ At(c, "launch")
  /\ service[s].phase = "none" /\ \A r \in Services : r < s => service[r].phase # "none"
  /\ service' = [service EXCEPT ![s].phase = "waiting"]
  /\ controller' = [controller EXCEPT ![c].child = s, ![c].pc = "polling"]
  /\ quiet' = FALSE
  /\ UNCHANGED <<record, asked>>

\* The log cannot be opened, or no process can be created.
LaunchFails(c) ==
  /\ At(c, "launch")
  /\ Return(c)
  /\ UNCHANGED <<service, record, asked, quiet>>

\* The process on record ends while it is being identified, between the reads of
\* /proc: an error.  A controller that polls returns with it and leaves its child.
IdentifyFails(c) ==
  /\ controller[c].pc \in {"status", "polling", "stop"}
  /\ record # Nobody /\ ~ Alive(record)
  /\ Return(c)
  /\ service' = LeaveChild(c)
  /\ UNCHANGED <<record, asked, quiet>>

\* A poll finds that the child is gone, or that it is recorded and healthy (which
\* it may still be while it closes).
PollEnds(c) ==
  LET s == controller[c].child IN
  /\ At(c, "polling")
  /\ \/ service[s].phase = "gone"
     \/ service[s].phase \in {"serving", "closing"} /\ record = s
  /\ Return(c)
  /\ UNCHANGED <<service, record, asked, quiet>>

\* Mutant: a child that is late is left alone.
PollTimesOut_LeavesChild(c) ==
  /\ At(c, "polling")
  /\ Return(c)
  /\ UNCHANGED <<service, record, asked, quiet>>

\* A minute, or 150 polls: the child is killed and waited for.
PollTimesOut(c) ==
  /\ At(c, "polling")
  /\ Return(c)
  /\ service' = [service EXCEPT ![controller[c].child].phase = "gone"]
  /\ UNCHANGED <<record, asked, quiet>>

----------------------------------------------------------------------------
(* stop *)

\* Nothing is left to stop: `stop` is done, `restart` goes on.
Stopped(c) ==
  /\ quiet' = TRUE
  /\ IF controller[c].op = "restart"
       THEN controller' = [controller EXCEPT ![c].pc = "status", ![c].seen = Nobody]
       ELSE Return(c)

ReadForStop(c) ==
  /\ At(c, "stop")
  /\ IF Alive(record)
       THEN /\ controller' = [controller EXCEPT ![c].seen = record, ![c].pc = "sending"]
            /\ UNCHANGED quiet
       ELSE Stopped(c)
  /\ UNCHANGED <<service, record, asked>>

\* The control channel is open while the service serves.  A token sent by an earlier
\* stop, which gave up, may still be waiting there; either one has the effect.
SendToken(c) ==
  LET s == controller[c].seen IN
  /\ At(c, "sending")
  /\ service[s].phase = "serving"
  /\ service' = [service EXCEPT ![s].request = "sent"]
  /\ Goto(c, "sent")
  /\ UNCHANGED <<record, asked, quiet>>

\* The token may be accepted later than the controller waits for the reply.
ReadReply(c) ==
  /\ At(c, "sent")
  /\ service[controller[c].seen].request = "accepted"
  /\ Goto(c, "ending")
  /\ UNCHANGED <<service, record, asked, quiet>>

\* The process is no longer the one on record.
StopEnds(c) ==
  /\ At(c, "ending")
  /\ ~ Alive(controller[c].seen)
  /\ Stopped(c)
  /\ UNCHANGED <<service, record, asked>>

\* No connection or no reply within two seconds each, or no end within ten.
StopFails(c) ==
  /\ controller[c].pc \in {"sending", "sent", "ending"}
  /\ Return(c)
  /\ UNCHANGED <<service, record, asked, quiet>>

----------------------------------------------------------------------------
(* serve *)

SetPhase(s, phase) == service' = [service EXCEPT ![s].phase = phase]

LockRunning(s) ==
  /\ service[s].phase = "waiting"
  /\ RunningLockFree
  /\ SetPhase(s, "starting")
  /\ UNCHANGED <<controller, record, asked, quiet>>

\* Another service runs for the whole twenty seconds of polls.
LockRunningTimesOut(s) ==
  /\ service[s].phase = "waiting"
  /\ ~ RunningLockFree
  /\ SetPhase(s, "gone")
  /\ UNCHANGED <<controller, record, asked, quiet>>

\* The configuration is invalid, a port is taken, the state cannot be written.
FailStart(s) ==
  /\ service[s].phase = "starting"
  /\ SetPhase(s, "gone")
  /\ UNCHANGED <<controller, record, asked, quiet>>

\* The servers listen, and state.json is replaced by a rename.
Publish(s) ==
  /\ service[s].phase = "starting"
  /\ SetPhase(s, "serving")
  /\ record' = s
  /\ UNCHANGED <<controller, asked, quiet>>

\* authorized_shutdown
AcceptToken(s) ==
  /\ service[s].phase = "serving" /\ service[s].request = "sent"
  /\ service' = [service EXCEPT ![s].phase = "closing", ![s].request = "accepted"]
  /\ UNCHANGED <<controller, record, asked, quiet>>

\* A signal, or the Web or protocol server stopped.
Terminate(s) ==
  /\ service[s].phase = "serving"
  /\ SetPhase(s, "closing")
  /\ UNCHANGED <<controller, record, asked, quiet>>

\* The Web server is shut down; Cleanup removes state.json, whatever it says.
RemoveRecord(s) ==
  /\ service[s].phase = "closing"
  /\ SetPhase(s, "draining")
  /\ record' = Nobody
  /\ UNCHANGED <<controller, asked, quiet>>

\* The protocol server is shut down, the lock is given back, the process exits.
Leave(s) ==
  /\ service[s].phase = "draining"
  /\ SetPhase(s, "gone")
  /\ UNCHANGED <<controller, record, asked, quiet>>

----------------------------------------------------------------------------
(* Crashes *)

\* A service is killed; its record stays.
Die(s) ==
  /\ Alive(s)
  /\ SetPhase(s, "gone")
  /\ UNCHANGED <<controller, record, asked, quiet>>

\* A controller is killed or interrupted.
Abandon(c) ==
  /\ ~ At(c, "idle")
  /\ Return(c)
  /\ service' = LeaveChild(c)
  /\ UNCHANGED <<record, asked, quiet>>

----------------------------------------------------------------------------
Work(c) ==
  \/ LockOperation(c)
  \/ LockTimesOut(c)
  \/ ReadStatus(c)
  \/ CheckHealth(c)
  \/ \E s \in Services : Launch(c, s)
  \/ LaunchFails(c)
  \/ IdentifyFails(c)
  \/ PollEnds(c)
  \/ PollTimesOut(c)
  \/ ReadForStop(c)
  \/ SendToken(c)
  \/ ReadReply(c)
  \/ StopEnds(c)
  \/ StopFails(c)

Serve(s) ==
  \/ LockRunning(s)
  \/ LockRunningTimesOut(s)
  \/ FailStart(s)
  \/ Publish(s)
  \/ AcceptToken(s)
  \/ Terminate(s)
  \/ RemoveRecord(s)
  \/ Leave(s)
  \/ Die(s)

Next ==
  \/ \E c \in Controllers : Work(c) \/ Abandon(c) \/ \E op \in Operations : Ask(c, op)
  \/ \E s \in Services : Serve(s)

Spec == Init /\ [][Next]_vars

----------------------------------------------------------------------------
(* Properties *)

\* The service that serves is the one the state file names, so that it can be found
\* and stopped: no cleanup of an earlier service removes it, and no later one
\* replaces it.
RecordIsKept == \A s \in Services : service[s].phase = "serving" => record = s

\* After a `stop` that succeeded nothing runs or is about to, but what is already
\* closing, until a controller launches a service again.  (A child whose controller
\* left while it polled is not on record yet, and `stop` cannot know of it.)
StopIsEffective ==
  quiet => \A s \in Services :
             service[s].phase \in {"waiting", "starting", "serving"} => service[s].stray
=============================================================================
