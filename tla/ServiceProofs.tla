---------------------------- MODULE ServiceProofs ----------------------------
(***************************************************************************)
(* The managed service, for every number of controllers, service processes *)
(* and operations.                                                         *)
(*                                                                         *)
(* RecordIsKept follows from the running lock: one service at a time is    *)
(* between its publication and its cleanup.  StopIsEffective needs who     *)
(* still looks after a service that is not on record: a controller that    *)
(* polls (Awaited), which the operation lock keeps away from a stop; and   *)
(* that the service a stop waits for is the only other one (SeenIsRight).  *)
(***************************************************************************)
EXTENDS Service, TLAPS

OneLock == \A r, s \in Services : HasRunningLock(r) /\ HasRunningLock(s) => r = s

Operating(c) == controller[c].pc \notin {"idle", "locking"}

OneOperator == \A c, d \in Controllers : Operating(c) /\ Operating(d) => c = d

Awaited ==
  \A s \in Services : service[s].phase \in {"waiting", "starting"} =>
    service[s].stray \/ \E c \in Controllers : At(c, "polling") /\ controller[c].child = s

Running(s) == service[s].phase \in {"waiting", "starting", "serving"} /\ ~ service[s].stray

SeenIsRight ==
  \A c \in Controllers : controller[c].pc \in {"sending", "sent", "ending"} =>
    \A s \in Services : Running(s) => s = controller[c].seen

IInv ==
  TypeOK /\ OneLock /\ OneOperator /\ RecordIsKept /\ Awaited /\ SeenIsRight /\ StopIsEffective

----------------------------------------------------------------------------
LEMMA InitInv == Init => IInv
BY ServiceAssumption
   DEF Init, IInv, TypeOK, OneLock, HasRunningLock, OneOperator, Operating, RecordIsKept, Awaited,
       SeenIsRight, Running, StopIsEffective, Services, Service, Phases, Controller, Idle, Operations,
       PC, Nobody

----------------------------------------------------------------------------
(* What each step leaves alone, and what it changes *)

LEMMA ReturnType ==
  ASSUME IInv, NEW c \in Controllers, Return(c)
  PROVE  controller' \in [Controllers -> Controller]
<1>1. Idle \in Controller
  BY DEF Idle, Controller, Operations, PC, Nobody
<1>2. QED
  BY <1>1 DEF IInv, TypeOK, Return

LEMMA LeaveChildType ==
  ASSUME IInv, NEW c \in Controllers
  PROVE  LeaveChild(c) \in [Services -> Service]
<1>1. service \in [Services -> Service]
  BY DEF IInv, TypeOK
<1>2. ASSUME NEW s \in Services
      PROVE  [service[s] EXCEPT !.stray = @ \/ (At(c, "polling") /\ controller[c].child = s)] \in Service
  BY <1>1 DEF Service
<1>3. QED
  BY <1>2 DEF LeaveChild

LEMMA LeftChild ==
  ASSUME IInv, NEW c \in Controllers, NEW s \in Services
  PROVE  /\ LeaveChild(c)[s].phase = service[s].phase
         /\ LeaveChild(c)[s].stray <=> service[s].stray \/ (At(c, "polling") /\ controller[c].child = s)
<1>1. service[s] \in Service
  BY DEF IInv, TypeOK
<1>2. LeaveChild(c)[s] =
        [service[s] EXCEPT !.stray = @ \/ (At(c, "polling") /\ controller[c].child = s)]
  BY DEF LeaveChild
<1>3. QED
  BY <1>1, <1>2 DEF Service

LEMMA AskInv == ASSUME IInv, NEW c \in Controllers, NEW op \in Operations, Ask(c, op) PROVE IInv'
<1>1. TypeOK'
  <2>1. controller' \in [Controllers -> Controller]
    BY DEF IInv, Ask, TypeOK, Controller, Operations, PC, Idle, Nobody
  <2>2. asked' \in 0 .. MaxOperations
    BY ServiceAssumption DEF IInv, Ask, TypeOK
  <2>3. QED
    BY <2>1, <2>2 DEF IInv, Ask, TypeOK
<1>2. OneLock'
  BY DEF IInv, Ask, OneLock, HasRunningLock
<1>3. OneOperator'
  BY DEF IInv, Ask, At, TypeOK, OneOperator, Operating
<1>4. RecordIsKept'
  BY DEF IInv, Ask, RecordIsKept
<1>5. Awaited'
  BY DEF IInv, Ask, TypeOK, At, Awaited, OneOperator, Operating
<1>6. SeenIsRight'
  BY DEF IInv, Ask, TypeOK, At, OneOperator, Operating, SeenIsRight, Running
<1>7. StopIsEffective'
  BY DEF IInv, Ask, StopIsEffective
<1>8. QED
  BY <1>1, <1>2, <1>3, <1>4, <1>5, <1>6, <1>7 DEF IInv

LEMMA LockOperationInv == ASSUME IInv, NEW c \in Controllers, LockOperation(c) PROVE IInv'
<1>1. TypeOK'
  BY DEF IInv, LockOperation, Goto, TypeOK, Controller, PC
<1>2. OneLock'
  BY DEF IInv, LockOperation, OneLock, HasRunningLock
<1>3. OneOperator'
  BY DEF IInv, LockOperation, Goto, At, OperationLockFree, TypeOK, OneOperator, Operating
<1>4. RecordIsKept'
  BY DEF IInv, LockOperation, RecordIsKept
<1>5. Awaited'
  BY DEF IInv, LockOperation, Goto, TypeOK, At, Awaited, OneOperator, Operating
<1>6. SeenIsRight'
  BY DEF IInv, LockOperation, Goto, TypeOK, At, OneOperator, Operating, SeenIsRight, Running
<1>7. StopIsEffective'
  BY DEF IInv, LockOperation, StopIsEffective
<1>8. QED
  BY <1>1, <1>2, <1>3, <1>4, <1>5, <1>6, <1>7 DEF IInv

LEMMA LockTimesOutInv == ASSUME IInv, NEW c \in Controllers, LockTimesOut(c) PROVE IInv'
<1>1. TypeOK'
  BY DEF IInv, LockTimesOut, Return, TypeOK, Controller, PC, Idle, Operations, Nobody
<1>2. OneLock'
  BY DEF IInv, LockTimesOut, OneLock, HasRunningLock
<1>3. OneOperator'
  BY DEF IInv, LockTimesOut, Return, At, OperationLockFree, TypeOK, Idle, OneOperator, Operating
<1>4. RecordIsKept'
  BY DEF IInv, LockTimesOut, RecordIsKept
<1>5. Awaited'
  BY DEF IInv, LockTimesOut, Return, TypeOK, At, Awaited, OneOperator, Operating, Idle
<1>6. SeenIsRight'
  BY DEF IInv, LockTimesOut, Return, TypeOK, At, OneOperator, Operating, Idle, SeenIsRight,
      Running
<1>7. StopIsEffective'
  BY DEF IInv, LockTimesOut, StopIsEffective
<1>8. QED
  BY <1>1, <1>2, <1>3, <1>4, <1>5, <1>6, <1>7 DEF IInv

LEMMA ReadStatusInv == ASSUME IInv, NEW c \in Controllers, ReadStatus(c) PROVE IInv'
<1>1. TypeOK'
  BY DEF IInv, ReadStatus, TypeOK, Controller, PC, At, Alive, Nobody
<1>2. OneLock'
  BY DEF IInv, ReadStatus, OneLock, HasRunningLock
<1>3. OneOperator'
  BY DEF IInv, ReadStatus, At, TypeOK, OneOperator, Operating
<1>4. RecordIsKept'
  BY DEF IInv, ReadStatus, RecordIsKept
<1>5. Awaited'
  BY DEF IInv, ReadStatus, TypeOK, At, Awaited, OneOperator, Operating
<1>6. SeenIsRight'
  BY DEF IInv, ReadStatus, TypeOK, At, OneOperator, Operating, SeenIsRight, Running
<1>7. StopIsEffective'
  BY DEF IInv, ReadStatus, StopIsEffective
<1>8. QED
  BY <1>1, <1>2, <1>3, <1>4, <1>5, <1>6, <1>7 DEF IInv

LEMMA CheckHealthInv == ASSUME IInv, NEW c \in Controllers, CheckHealth(c) PROVE IInv'
<1>1. TypeOK'
  BY DEF IInv, CheckHealth, Return, TypeOK, Controller, PC, Idle, Operations, Nobody
<1>2. OneLock'
  BY DEF IInv, CheckHealth, OneLock, HasRunningLock
<1>3. OneOperator'
  BY DEF IInv, CheckHealth, Return, At, TypeOK, Idle, OneOperator, Operating
<1>4. RecordIsKept'
  BY DEF IInv, CheckHealth, RecordIsKept
<1>5. Awaited'
  BY DEF IInv, CheckHealth, Return, TypeOK, At, Awaited, OneOperator, Operating, Idle
<1>6. SeenIsRight'
  BY DEF IInv, CheckHealth, Return, TypeOK, At, OneOperator, Operating, Idle, SeenIsRight,
      Running
<1>7. StopIsEffective'
  BY DEF IInv, CheckHealth, StopIsEffective
<1>8. QED
  BY <1>1, <1>2, <1>3, <1>4, <1>5, <1>6, <1>7 DEF IInv

LEMMA LaunchInv == ASSUME IInv, NEW c \in Controllers, NEW s \in Services, Launch(c, s) PROVE IInv'
<1>1. TypeOK'
  BY DEF IInv, Launch, TypeOK, Controller, PC, Service, Phases, At, Nobody
<1>2. OneLock'
  BY DEF IInv, Launch, TypeOK, OneLock, HasRunningLock
<1>3. OneOperator'
  BY DEF IInv, Launch, At, TypeOK, OneOperator, Operating
<1>4. RecordIsKept'
  BY DEF IInv, Launch, TypeOK, RecordIsKept
<1>5. Awaited'
  BY DEF IInv, Launch, TypeOK, At, Awaited, OneOperator, Operating
<1>6. SeenIsRight'
  BY DEF IInv, Launch, TypeOK, At, OneOperator, Operating, SeenIsRight, Running
<1>7. StopIsEffective'
  BY DEF IInv, Launch, TypeOK, StopIsEffective
<1>8. QED
  BY <1>1, <1>2, <1>3, <1>4, <1>5, <1>6, <1>7 DEF IInv

LEMMA LaunchFailsInv == ASSUME IInv, NEW c \in Controllers, LaunchFails(c) PROVE IInv'
<1>1. TypeOK'
  BY DEF IInv, LaunchFails, Return, TypeOK, Controller, PC, Idle, Operations, Nobody
<1>2. OneLock'
  BY DEF IInv, LaunchFails, OneLock, HasRunningLock
<1>3. OneOperator'
  BY DEF IInv, LaunchFails, Return, At, TypeOK, Idle, OneOperator, Operating
<1>4. RecordIsKept'
  BY DEF IInv, LaunchFails, RecordIsKept
<1>5. Awaited'
  BY DEF IInv, LaunchFails, Return, TypeOK, At, Awaited, OneOperator, Operating, Idle
<1>6. SeenIsRight'
  BY DEF IInv, LaunchFails, Return, TypeOK, At, OneOperator, Operating, Idle, SeenIsRight,
      Running
<1>7. StopIsEffective'
  BY DEF IInv, LaunchFails, StopIsEffective
<1>8. QED
  BY <1>1, <1>2, <1>3, <1>4, <1>5, <1>6, <1>7 DEF IInv

LEMMA IdentifyFailsInv == ASSUME IInv, NEW c \in Controllers, IdentifyFails(c) PROVE IInv'
<1>1. TypeOK'
  BY ReturnType, LeaveChildType DEF IInv, TypeOK, IdentifyFails
<1>2. OneLock'
  BY DEF IInv, IdentifyFails, LeaveChild, TypeOK, OneLock, HasRunningLock, Service
<1>3. OneOperator'
  BY DEF IInv, IdentifyFails, Return, At, TypeOK, Idle, OneOperator, Operating
<1>4. RecordIsKept'
  BY DEF IInv, IdentifyFails, LeaveChild, TypeOK, RecordIsKept, Service
<1>5. Awaited'
  <2> SUFFICES ASSUME NEW s \in Services, service'[s].phase \in {"waiting", "starting"},
                      ~ service'[s].stray
               PROVE \E d \in Controllers : At(d, "polling")' /\ controller'[d].child = s
    BY DEF Awaited, At
  <2>1. service[s].phase \in {"waiting", "starting"} /\ ~ service[s].stray
        /\ ~ (At(c, "polling") /\ controller[c].child = s)
    BY LeftChild DEF IdentifyFails
  <2>2. PICK d \in Controllers : At(d, "polling") /\ controller[d].child = s
    BY <2>1 DEF IInv, Awaited
  <2>3. d # c /\ controller'[d] = controller[d]
    BY <2>1, <2>2 DEF IInv, IdentifyFails, Return, TypeOK
  <2>4. QED
    BY <2>2, <2>3 DEF At
<1>6. SeenIsRight'
  BY DEF IInv, IdentifyFails, Return, LeaveChild, TypeOK, At, OneOperator, Operating, Idle,
      SeenIsRight, Running, Service
<1>7. StopIsEffective'
  BY DEF IInv, IdentifyFails, LeaveChild, TypeOK, StopIsEffective, Service
<1>8. QED
  BY <1>1, <1>2, <1>3, <1>4, <1>5, <1>6, <1>7 DEF IInv

LEMMA PollEndsInv == ASSUME IInv, NEW c \in Controllers, PollEnds(c) PROVE IInv'
<1>1. TypeOK'
  BY DEF IInv, PollEnds, Return, TypeOK, Controller, PC, Idle, Operations, Nobody
<1>2. OneLock'
  BY DEF IInv, PollEnds, OneLock, HasRunningLock
<1>3. OneOperator'
  BY DEF IInv, PollEnds, Return, At, TypeOK, Idle, OneOperator, Operating
<1>4. RecordIsKept'
  BY DEF IInv, PollEnds, RecordIsKept
<1>5. Awaited'
  BY DEF IInv, PollEnds, Return, TypeOK, At, Awaited, OneOperator, Operating, Idle
<1>6. SeenIsRight'
  BY DEF IInv, PollEnds, Return, TypeOK, At, OneOperator, Operating, Idle, SeenIsRight, Running
<1>7. StopIsEffective'
  BY DEF IInv, PollEnds, StopIsEffective
<1>8. QED
  BY <1>1, <1>2, <1>3, <1>4, <1>5, <1>6, <1>7 DEF IInv

LEMMA PollTimesOutInv == ASSUME IInv, NEW c \in Controllers, PollTimesOut(c) PROVE IInv'
<1>1. TypeOK'
  <2>1. service' \in [Services -> Service]
    BY DEF IInv, PollTimesOut, TypeOK, Service, Phases
  <2>2. QED
    BY <2>1, ReturnType DEF IInv, PollTimesOut, TypeOK
<1>2. OneLock'
  BY DEF IInv, PollTimesOut, TypeOK, OneLock, HasRunningLock
<1>3. OneOperator'
  BY DEF IInv, PollTimesOut, Return, At, TypeOK, Idle, OneOperator, Operating
<1>4. RecordIsKept'
  BY DEF IInv, PollTimesOut, TypeOK, RecordIsKept
<1>5. Awaited'
  BY DEF IInv, PollTimesOut, Return, TypeOK, At, Awaited, OneOperator, Operating, Idle
<1>6. SeenIsRight'
  BY DEF IInv, PollTimesOut, Return, TypeOK, At, OneOperator, Operating, Idle, SeenIsRight,
      Running
<1>7. StopIsEffective'
  BY DEF IInv, PollTimesOut, TypeOK, StopIsEffective
<1>8. QED
  BY <1>1, <1>2, <1>3, <1>4, <1>5, <1>6, <1>7 DEF IInv

LEMMA ReadForStopInv == ASSUME IInv, NEW c \in Controllers, ReadForStop(c) PROVE IInv'
<1>1. TypeOK'
  <2>1. controller' \in [Controllers -> Controller]
    <3>1. CASE Alive(record)
      BY <3>1 DEF IInv, ReadForStop, TypeOK, Controller, PC
    <3>2. CASE ~ Alive(record) /\ controller[c].op = "restart"
      BY <3>2 DEF IInv, ReadForStop, Stopped, TypeOK, Controller, PC, Nobody
    <3>3. CASE ~ Alive(record) /\ controller[c].op # "restart"
      BY <3>3 DEF IInv, ReadForStop, Stopped, Return, TypeOK, Controller, Idle, Operations, PC, Nobody
    <3>4. QED
      BY <3>1, <3>2, <3>3
  <2>2. QED
    BY <2>1 DEF IInv, ReadForStop, Stopped, TypeOK
<1>2. OneLock'
  BY DEF IInv, ReadForStop, OneLock, HasRunningLock
<1>3. OneOperator'
  BY DEF IInv, ReadForStop, Return, Stopped, At, TypeOK, Idle, OneOperator, Operating
<1>4. RecordIsKept'
  BY DEF IInv, ReadForStop, RecordIsKept
<1>5. Awaited'
  BY DEF IInv, ReadForStop, Return, Stopped, TypeOK, At, Awaited, OneOperator, Operating, Idle
<1>6. SeenIsRight'
  BY DEF IInv, ReadForStop, Return, Stopped, TypeOK, At, OneOperator, Operating, Idle,
      SeenIsRight, Running, RecordIsKept, Awaited, Alive, Nobody, Controller
<1>7. StopIsEffective'
  <2>1. CASE Alive(record)
    BY <2>1 DEF IInv, ReadForStop, StopIsEffective
  <2>2. CASE ~ Alive(record)
    <3>1. ASSUME NEW s \in Services, service[s].phase \in {"waiting", "starting", "serving"}
          PROVE service[s].stray
      BY <2>2, <3>1 DEF IInv, ReadForStop, At, OneOperator, Operating, RecordIsKept, Awaited,
                        Alive, Nobody, Services
    <3>2. service' = service
      BY DEF ReadForStop
    <3>3. QED
      BY <3>1, <3>2 DEF StopIsEffective
  <2>3. QED
    BY <2>1, <2>2
<1>8. QED
  BY <1>1, <1>2, <1>3, <1>4, <1>5, <1>6, <1>7 DEF IInv

LEMMA SendTokenInv == ASSUME IInv, NEW c \in Controllers, SendToken(c) PROVE IInv'
<1>1. TypeOK'
  <2>1. controller' \in [Controllers -> Controller]
    BY DEF IInv, SendToken, Goto, TypeOK, Controller, PC
  <2>2. service' \in [Services -> Service]
    BY DEF IInv, SendToken, TypeOK, Service, Controller
  <2>3. QED
    BY <2>1, <2>2 DEF IInv, SendToken, TypeOK
<1>2. OneLock'
  BY DEF IInv, SendToken, TypeOK, OneLock, HasRunningLock
<1>3. OneOperator'
  BY DEF IInv, SendToken, Goto, At, TypeOK, OneOperator, Operating
<1>4. RecordIsKept'
  BY DEF IInv, SendToken, TypeOK, RecordIsKept
<1>5. Awaited'
  BY DEF IInv, SendToken, Goto, TypeOK, At, Awaited, OneOperator, Operating
<1>6. SeenIsRight'
  BY DEF IInv, SendToken, Goto, TypeOK, At, OneOperator, Operating, SeenIsRight, Running
<1>7. StopIsEffective'
  BY DEF IInv, SendToken, TypeOK, StopIsEffective
<1>8. QED
  BY <1>1, <1>2, <1>3, <1>4, <1>5, <1>6, <1>7 DEF IInv

LEMMA ReadReplyInv == ASSUME IInv, NEW c \in Controllers, ReadReply(c) PROVE IInv'
<1>1. TypeOK'
  BY DEF IInv, ReadReply, Goto, TypeOK, Controller, PC
<1>2. OneLock'
  BY DEF IInv, ReadReply, OneLock, HasRunningLock
<1>3. OneOperator'
  BY DEF IInv, ReadReply, Goto, At, TypeOK, OneOperator, Operating
<1>4. RecordIsKept'
  BY DEF IInv, ReadReply, RecordIsKept
<1>5. Awaited'
  BY DEF IInv, ReadReply, Goto, TypeOK, At, Awaited, OneOperator, Operating
<1>6. SeenIsRight'
  BY DEF IInv, ReadReply, Goto, TypeOK, At, OneOperator, Operating, SeenIsRight, Running
<1>7. StopIsEffective'
  BY DEF IInv, ReadReply, StopIsEffective
<1>8. QED
  BY <1>1, <1>2, <1>3, <1>4, <1>5, <1>6, <1>7 DEF IInv

LEMMA StopEndsInv == ASSUME IInv, NEW c \in Controllers, StopEnds(c) PROVE IInv'
<1>1. TypeOK'
  BY DEF IInv, StopEnds, Return, Stopped, TypeOK, Controller, PC, Idle, Operations, Nobody
<1>2. OneLock'
  BY DEF IInv, StopEnds, OneLock, HasRunningLock
<1>3. OneOperator'
  BY DEF IInv, StopEnds, Return, Stopped, At, TypeOK, Idle, OneOperator, Operating
<1>4. RecordIsKept'
  BY DEF IInv, StopEnds, RecordIsKept
<1>5. Awaited'
  BY DEF IInv, StopEnds, Return, Stopped, TypeOK, At, Awaited, OneOperator, Operating, Idle
<1>6. SeenIsRight'
  BY DEF IInv, StopEnds, Return, Stopped, TypeOK, At, OneOperator, Operating, Idle, SeenIsRight,
      Running, Controller
<1>7. StopIsEffective'
  <2>1. ASSUME NEW s \in Services, service[s].phase \in {"waiting", "starting", "serving"}
        PROVE service[s].stray
    <3>1. ~ Running(s)
      BY <2>1 DEF IInv, StopEnds, At, SeenIsRight, Running, Alive, Nobody, Services
    <3>2. QED
      BY <2>1, <3>1 DEF Running
  <2>2. service' = service
    BY DEF StopEnds
  <2>3. QED
    BY <2>1, <2>2 DEF StopIsEffective
<1>8. QED
  BY <1>1, <1>2, <1>3, <1>4, <1>5, <1>6, <1>7 DEF IInv

LEMMA StopFailsInv == ASSUME IInv, NEW c \in Controllers, StopFails(c) PROVE IInv'
<1>1. TypeOK'
  BY DEF IInv, StopFails, Return, TypeOK, Controller, PC, Idle, Operations, Nobody
<1>2. OneLock'
  BY DEF IInv, StopFails, OneLock, HasRunningLock
<1>3. OneOperator'
  BY DEF IInv, StopFails, Return, TypeOK, Idle, OneOperator, Operating
<1>4. RecordIsKept'
  BY DEF IInv, StopFails, RecordIsKept
<1>5. Awaited'
  BY DEF IInv, StopFails, Return, TypeOK, At, Awaited, OneOperator, Operating, Idle
<1>6. SeenIsRight'
  BY DEF IInv, StopFails, Return, TypeOK, At, OneOperator, Operating, Idle, SeenIsRight, Running
<1>7. StopIsEffective'
  BY DEF IInv, StopFails, StopIsEffective
<1>8. QED
  BY <1>1, <1>2, <1>3, <1>4, <1>5, <1>6, <1>7 DEF IInv

LEMMA AbandonInv == ASSUME IInv, NEW c \in Controllers, Abandon(c) PROVE IInv'
<1>1. TypeOK'
  BY ReturnType, LeaveChildType DEF IInv, TypeOK, Abandon
<1>2. OneLock'
  BY DEF IInv, Abandon, LeaveChild, TypeOK, OneLock, HasRunningLock, Service
<1>3. OneOperator'
  BY DEF IInv, Abandon, Return, At, TypeOK, Idle, OneOperator, Operating
<1>4. RecordIsKept'
  BY DEF IInv, Abandon, LeaveChild, TypeOK, RecordIsKept, Service
<1>5. Awaited'
  <2> SUFFICES ASSUME NEW s \in Services, service'[s].phase \in {"waiting", "starting"},
                      ~ service'[s].stray
               PROVE \E d \in Controllers : At(d, "polling")' /\ controller'[d].child = s
    BY DEF Awaited, At
  <2>1. service[s].phase \in {"waiting", "starting"} /\ ~ service[s].stray
        /\ ~ (At(c, "polling") /\ controller[c].child = s)
    BY LeftChild DEF Abandon
  <2>2. PICK d \in Controllers : At(d, "polling") /\ controller[d].child = s
    BY <2>1 DEF IInv, Awaited
  <2>3. d # c /\ controller'[d] = controller[d]
    BY <2>1, <2>2 DEF IInv, Abandon, Return, TypeOK
  <2>4. QED
    BY <2>2, <2>3 DEF At
<1>6. SeenIsRight'
  BY DEF IInv, Abandon, Return, LeaveChild, TypeOK, At, OneOperator, Operating, Idle,
      SeenIsRight, Running, Service
<1>7. StopIsEffective'
  BY DEF IInv, Abandon, LeaveChild, TypeOK, StopIsEffective, Service
<1>8. QED
  BY <1>1, <1>2, <1>3, <1>4, <1>5, <1>6, <1>7 DEF IInv

LEMMA LockRunningInv == ASSUME IInv, NEW s \in Services, LockRunning(s) PROVE IInv'
<1>1. TypeOK'
  BY DEF IInv, LockRunning, SetPhase, TypeOK, Service, Phases
<1>2. OneLock'
  BY DEF IInv, LockRunning, SetPhase, RunningLockFree, TypeOK, OneLock, HasRunningLock
<1>3. OneOperator'
  BY DEF IInv, LockRunning, OneOperator, Operating
<1>4. RecordIsKept'
  BY DEF IInv, LockRunning, SetPhase, TypeOK, RecordIsKept
<1>5. Awaited'
  BY DEF IInv, LockRunning, SetPhase, TypeOK, At, Awaited
<1>6. SeenIsRight'
  BY DEF IInv, LockRunning, SetPhase, TypeOK, SeenIsRight, Running
<1>7. StopIsEffective'
  BY DEF IInv, LockRunning, SetPhase, TypeOK, StopIsEffective
<1>8. QED
  BY <1>1, <1>2, <1>3, <1>4, <1>5, <1>6, <1>7 DEF IInv

LEMMA LockRunningTimesOutInv == ASSUME IInv, NEW s \in Services, LockRunningTimesOut(s) PROVE IInv'
<1>1. TypeOK'
  BY DEF IInv, LockRunningTimesOut, SetPhase, TypeOK, Service, Phases
<1>2. OneLock'
  BY DEF IInv, LockRunningTimesOut, SetPhase, RunningLockFree, TypeOK, OneLock, HasRunningLock
<1>3. OneOperator'
  BY DEF IInv, LockRunningTimesOut, OneOperator, Operating
<1>4. RecordIsKept'
  BY DEF IInv, LockRunningTimesOut, SetPhase, TypeOK, RecordIsKept
<1>5. Awaited'
  BY DEF IInv, LockRunningTimesOut, SetPhase, TypeOK, At, Awaited
<1>6. SeenIsRight'
  BY DEF IInv, LockRunningTimesOut, SetPhase, TypeOK, SeenIsRight, Running
<1>7. StopIsEffective'
  BY DEF IInv, LockRunningTimesOut, SetPhase, TypeOK, StopIsEffective
<1>8. QED
  BY <1>1, <1>2, <1>3, <1>4, <1>5, <1>6, <1>7 DEF IInv

LEMMA FailStartInv == ASSUME IInv, NEW s \in Services, FailStart(s) PROVE IInv'
<1>1. TypeOK'
  BY DEF IInv, FailStart, SetPhase, TypeOK, Service, Phases
<1>2. OneLock'
  BY DEF IInv, FailStart, SetPhase, TypeOK, OneLock, HasRunningLock
<1>3. OneOperator'
  BY DEF IInv, FailStart, OneOperator, Operating
<1>4. RecordIsKept'
  BY DEF IInv, FailStart, SetPhase, TypeOK, RecordIsKept
<1>5. Awaited'
  BY DEF IInv, FailStart, SetPhase, TypeOK, At, Awaited
<1>6. SeenIsRight'
  BY DEF IInv, FailStart, SetPhase, TypeOK, SeenIsRight, Running
<1>7. StopIsEffective'
  BY DEF IInv, FailStart, SetPhase, TypeOK, StopIsEffective
<1>8. QED
  BY <1>1, <1>2, <1>3, <1>4, <1>5, <1>6, <1>7 DEF IInv

LEMMA PublishInv == ASSUME IInv, NEW s \in Services, Publish(s) PROVE IInv'
<1>1. TypeOK'
  BY DEF IInv, Publish, SetPhase, TypeOK, Service, Phases
<1>2. OneLock'
  BY DEF IInv, Publish, SetPhase, TypeOK, OneLock, HasRunningLock
<1>3. OneOperator'
  BY DEF IInv, Publish, OneOperator, Operating
<1>4. RecordIsKept'
  BY DEF IInv, Publish, SetPhase, TypeOK, OneLock, HasRunningLock, RecordIsKept
<1>5. Awaited'
  BY DEF IInv, Publish, SetPhase, TypeOK, At, Awaited
<1>6. SeenIsRight'
  BY DEF IInv, Publish, SetPhase, TypeOK, SeenIsRight, Running
<1>7. StopIsEffective'
  BY DEF IInv, Publish, SetPhase, TypeOK, StopIsEffective
<1>8. QED
  BY <1>1, <1>2, <1>3, <1>4, <1>5, <1>6, <1>7 DEF IInv

LEMMA AcceptTokenInv == ASSUME IInv, NEW s \in Services, AcceptToken(s) PROVE IInv'
<1>1. TypeOK'
  BY DEF IInv, AcceptToken, TypeOK, Service, Phases
<1>2. OneLock'
  BY DEF IInv, AcceptToken, TypeOK, OneLock, HasRunningLock
<1>3. OneOperator'
  BY DEF IInv, AcceptToken, OneOperator, Operating
<1>4. RecordIsKept'
  BY DEF IInv, AcceptToken, TypeOK, RecordIsKept
<1>5. Awaited'
  BY DEF IInv, AcceptToken, TypeOK, At, Awaited
<1>6. SeenIsRight'
  BY DEF IInv, AcceptToken, TypeOK, SeenIsRight, Running
<1>7. StopIsEffective'
  BY DEF IInv, AcceptToken, TypeOK, StopIsEffective
<1>8. QED
  BY <1>1, <1>2, <1>3, <1>4, <1>5, <1>6, <1>7 DEF IInv

LEMMA TerminateInv == ASSUME IInv, NEW s \in Services, Terminate(s) PROVE IInv'
<1>1. TypeOK'
  BY DEF IInv, Terminate, SetPhase, TypeOK, Service, Phases
<1>2. OneLock'
  BY DEF IInv, Terminate, SetPhase, TypeOK, OneLock, HasRunningLock
<1>3. OneOperator'
  BY DEF IInv, Terminate, OneOperator, Operating
<1>4. RecordIsKept'
  BY DEF IInv, Terminate, SetPhase, TypeOK, RecordIsKept
<1>5. Awaited'
  BY DEF IInv, Terminate, SetPhase, TypeOK, At, Awaited
<1>6. SeenIsRight'
  BY DEF IInv, Terminate, SetPhase, TypeOK, SeenIsRight, Running
<1>7. StopIsEffective'
  BY DEF IInv, Terminate, SetPhase, TypeOK, StopIsEffective
<1>8. QED
  BY <1>1, <1>2, <1>3, <1>4, <1>5, <1>6, <1>7 DEF IInv

LEMMA RemoveRecordInv == ASSUME IInv, NEW s \in Services, RemoveRecord(s) PROVE IInv'
<1>1. TypeOK'
  BY DEF IInv, RemoveRecord, SetPhase, TypeOK, Service, Phases
<1>2. OneLock'
  BY DEF IInv, RemoveRecord, SetPhase, TypeOK, OneLock, HasRunningLock
<1>3. OneOperator'
  BY DEF IInv, RemoveRecord, OneOperator, Operating
<1>4. RecordIsKept'
  BY DEF IInv, RemoveRecord, SetPhase, TypeOK, OneLock, HasRunningLock, RecordIsKept
<1>5. Awaited'
  BY DEF IInv, RemoveRecord, SetPhase, TypeOK, At, Awaited
<1>6. SeenIsRight'
  BY DEF IInv, RemoveRecord, SetPhase, TypeOK, SeenIsRight, Running
<1>7. StopIsEffective'
  BY DEF IInv, RemoveRecord, SetPhase, TypeOK, StopIsEffective
<1>8. QED
  BY <1>1, <1>2, <1>3, <1>4, <1>5, <1>6, <1>7 DEF IInv

LEMMA LeaveInv == ASSUME IInv, NEW s \in Services, Leave(s) PROVE IInv'
<1>1. TypeOK'
  BY DEF IInv, Leave, SetPhase, TypeOK, Service, Phases
<1>2. OneLock'
  BY DEF IInv, Leave, SetPhase, TypeOK, OneLock, HasRunningLock
<1>3. OneOperator'
  BY DEF IInv, Leave, OneOperator, Operating
<1>4. RecordIsKept'
  BY DEF IInv, Leave, SetPhase, TypeOK, RecordIsKept
<1>5. Awaited'
  BY DEF IInv, Leave, SetPhase, TypeOK, At, Awaited
<1>6. SeenIsRight'
  BY DEF IInv, Leave, SetPhase, TypeOK, SeenIsRight, Running
<1>7. StopIsEffective'
  BY DEF IInv, Leave, SetPhase, TypeOK, StopIsEffective
<1>8. QED
  BY <1>1, <1>2, <1>3, <1>4, <1>5, <1>6, <1>7 DEF IInv

LEMMA DieInv == ASSUME IInv, NEW s \in Services, Die(s) PROVE IInv'
<1>1. TypeOK'
  BY DEF IInv, Die, SetPhase, TypeOK, Service, Phases
<1>2. OneLock'
  BY DEF IInv, Die, SetPhase, TypeOK, OneLock, HasRunningLock
<1>3. OneOperator'
  BY DEF IInv, Die, OneOperator, Operating
<1>4. RecordIsKept'
  BY DEF IInv, Die, SetPhase, TypeOK, RecordIsKept
<1>5. Awaited'
  BY DEF IInv, Die, SetPhase, TypeOK, At, Awaited
<1>6. SeenIsRight'
  BY DEF IInv, Die, SetPhase, TypeOK, SeenIsRight, Running
<1>7. StopIsEffective'
  BY DEF IInv, Die, SetPhase, TypeOK, StopIsEffective
<1>8. QED
  BY <1>1, <1>2, <1>3, <1>4, <1>5, <1>6, <1>7 DEF IInv

LEMMA StutterInv == IInv /\ UNCHANGED vars => IInv'
BY DEF vars, IInv, TypeOK, OneLock, HasRunningLock, OneOperator, Operating, RecordIsKept, Awaited,
       SeenIsRight, Running, StopIsEffective, At

LEMMA NextInv == IInv /\ [Next]_vars => IInv'
<1> SUFFICES ASSUME IInv, [Next]_vars PROVE IInv'
  OBVIOUS
<1>1. ASSUME NEW c \in Controllers, Work(c) PROVE IInv'
  BY <1>1, LockOperationInv, LockTimesOutInv, ReadStatusInv, CheckHealthInv, LaunchInv, LaunchFailsInv,
     IdentifyFailsInv, PollEndsInv, PollTimesOutInv, ReadForStopInv, SendTokenInv, ReadReplyInv,
     StopEndsInv, StopFailsInv
     DEF Work
<1>2. ASSUME NEW s \in Services, Serve(s) PROVE IInv'
  BY <1>2, LockRunningInv, LockRunningTimesOutInv, FailStartInv, PublishInv, AcceptTokenInv,
     TerminateInv, RemoveRecordInv, LeaveInv, DieInv
     DEF Serve
<1>3. ASSUME NEW c \in Controllers, NEW op \in Operations, Ask(c, op) PROVE IInv'
  BY <1>3, AskInv
<1>4. ASSUME NEW c \in Controllers, Abandon(c) PROVE IInv'
  BY <1>4, AbandonInv
<1>5. CASE UNCHANGED vars
  BY <1>5, StutterInv
<1>6. QED
  BY <1>1, <1>2, <1>3, <1>4, <1>5 DEF Next

LEMMA Invariance == Spec => []IInv
<1>1. QED
  BY InitInv, NextInv, PTL DEF Spec

\* The state of the controllers, the services and the record is always what the
\* code's types allow.
THEOREM TypeCorrect == Spec => []TypeOK
<1>1. IInv => TypeOK
  BY DEF IInv
<1>2. QED
  BY <1>1, Invariance, PTL

\* A service that serves is always the one on record: the running lock orders the
\* cleanup of a service before the publication of the next (Service::serve).
THEOREM ServiceIsFound == Spec => []RecordIsKept
<1>1. IInv => RecordIsKept
  BY DEF IInv
<1>2. QED
  BY <1>1, Invariance, PTL

\* A successful stop leaves no service running or starting that a controller looks
\* after, however controllers and services die (Service::stop and start).
THEOREM StopStops == Spec => []StopIsEffective
<1>1. IInv => StopIsEffective
  BY DEF IInv
<1>2. QED
  BY <1>1, Invariance, PTL
=============================================================================
