--------------------------- MODULE ProtocolTasks ----------------------------
(***************************************************************************)
(* Tasks of the MCP and A2A server (src/protocol/tasks.rs) over the task   *)
(* database (src/protocol/store.rs).                                       *)
(*                                                                         *)
(* A submission takes one of `capacity` permits, writes its record while   *)
(* it holds the lock of the active map, and leaves a worker behind.  The   *)
(* worker announces WORKING, runs the operation, reads the cancel signal   *)
(* once more and writes the final record before anyone is told of it.      *)
(* Delegated asks that share a context take turns: each loads the last     *)
(* turns of the context, runs, and saves these with its own appended.      *)
(*                                                                         *)
(* Clients wait, poll, cancel and disconnect at any moment; a disconnect   *)
(* drops the future of a submission under way, not the write it awaits.    *)
(* The server may be shut down or die and be opened again.  A task         *)
(* document is abstracted to its status; every write may fail.             *)
(***************************************************************************)
EXTENDS Naturals, Sequences, FiniteSets

CONSTANTS
  Ids,          \* identifiers that submissions will draw
  Sessions,     \* the sessions of the contexts asks name
  SessionOf,    \* the session of an ask, None for a direct operation
  Capacity,     \* permits for active tasks
  MaxTasks,     \* records the store retains
  ContextTurns, \* max_context_turns: turns of a context an ask loads
  MaxStarts,    \* bound on the number of times the server is opened
  None

Submitted == "SUBMITTED"
Working == "WORKING"
Final == {"COMPLETED", "FAILED", "CANCELED"}
Unfinished == {Submitted, Working}
Status == Unfinished \union Final

ASSUME TasksAssumption ==
  /\ IsFiniteSet(Ids)
  /\ SessionOf \in [Ids -> Sessions \union {None}]
  /\ Capacity \in Nat \ {0}
  /\ MaxTasks \in Nat \ {0}
  /\ ContextTurns \in Nat \ {0}
  /\ MaxStarts \in Nat
  /\ None \notin Ids /\ None \notin Sessions /\ None \notin Status

VARIABLES
  server,      \* where the server process is
  starts,
  pc,          \* where each submission and then its worker is
  permits,     \* available permits of `capacity`
  locked,      \* the submission that holds the lock of `active`
  active,      \* keys of the active map
  cancel,      \* the cancel signal of each task
  shown,       \* the value of each `updates` channel
  contexts,    \* the lock each session's weak reference points to, if any
  lock,        \* the context lock a worker keeps alive
  loaded,      \* the turns an ask has loaded
  status,      \* the final status a worker will record
  turns,       \* the turns in the file of each session, oldest first
  row,         \* the stored status of each record
  told,        \* history: the final status a client got, if any
  saved,       \* history: all turns ever saved in each session, oldest first
  drain        \* the tasks shutdown waits for

process == <<server, starts, drain>>
admission == <<permits, locked, active>>
signals == <<cancel, shown>>
queues == <<contexts, lock, loaded>>
disk == <<turns, row>>
ghosts == <<told, saved>>
vars == <<process, pc, admission, signals, status, queues, disk, ghosts>>

\* A submission's steps, a worker's steps, and the ends of both.
Submitting == {"locking", "storing", "stored", "unstored"}
Executing == {"checking", "queued", "asking", "calling"}
Recording == {"saving", "resaving"}
Worker == {"starting"} \union Executing \union Recording \union {"leaving"}
PC == {"new", "gone", "detached", "publishing"} \union Submitting \union Worker

Serving == server \in {"serving", "stopping", "draining", "drained"}

\* The turns of a session, oldest first; a turn is named after its ask.
File == Seq(Ids)

TypeOK ==
  /\ server \in {"down", "serving", "stopping", "draining", "drained"}
  /\ starts \in 0 .. MaxStarts
  /\ pc \in [Ids -> PC]
  /\ permits \in Nat
  /\ locked \in Ids \union {None}
  /\ active \subseteq Ids
  /\ cancel \in [Ids -> BOOLEAN]
  /\ shown \in [Ids -> Status]
  /\ contexts \in [Sessions -> Ids \union {None}]
  /\ lock \in [Ids -> Ids \union {None}]
  /\ loaded \in [Ids -> File]
  /\ status \in [Ids -> Final]
  /\ turns \in [Sessions -> File]
  /\ row \in [Ids -> Status \union {None}]
  /\ told \in [Ids -> Final \union {None}]
  /\ saved \in [Sessions -> File]
  /\ drain \subseteq Ids

Volatile(first) ==
  /\ pc' = first
  /\ permits' = Capacity
  /\ locked' = None
  /\ active' = {}
  /\ cancel' = [t \in Ids |-> FALSE]
  /\ shown' = [t \in Ids |-> Submitted]
  /\ contexts' = [s \in Sessions |-> None]
  /\ lock' = [t \in Ids |-> None]
  /\ loaded' = [t \in Ids |-> <<>>]
  /\ status' = [t \in Ids |-> "FAILED"]
  /\ drain' = {}

Init ==
  /\ server = "down"
  /\ starts = 0
  /\ pc = [t \in Ids |-> "new"]
  /\ permits = Capacity
  /\ locked = None
  /\ active = {}
  /\ cancel = [t \in Ids |-> FALSE]
  /\ shown = [t \in Ids |-> Submitted]
  /\ contexts = [s \in Sessions |-> None]
  /\ lock = [t \in Ids |-> None]
  /\ loaded = [t \in Ids |-> <<>>]
  /\ status = [t \in Ids |-> "FAILED"]
  /\ turns = [s \in Sessions |-> <<>>]
  /\ row = [t \in Ids |-> None]
  /\ told = [t \in Ids |-> None]
  /\ saved = [s \in Sessions |-> <<>>]
  /\ drain = {}

----------------------------------------------------------------------------
(* The store *)

Goto(t, label) == pc' = [pc EXCEPT ![t] = label]

\* Mutant: any other record may make room.
Put_EvictsAny(t, s) ==
  \E evicted \in SUBSET (Ids \ {t}) :
    LET left == {u \in Ids \ evicted : row[u] # None} \union {t}
    IN  /\ Cardinality(left) <= MaxTasks
        /\ \A u \in evicted : row[u] # None /\ Cardinality(left \union {u}) > MaxTasks
        /\ row' = [u \in Ids |-> IF u = t THEN s ELSE IF u \in evicted THEN None ELSE row[u]]

\* save: one transaction writes the record and removes terminal records of
\* others, as few as the limit asks for.  The device clock decides which are
\* the oldest.
Put(t, s) ==
  \E evicted \in SUBSET {u \in Ids \ {t} : row[u] \in Final} :
    LET left == {u \in Ids \ evicted : row[u] # None} \union {t}
    IN  /\ Cardinality(left) <= MaxTasks
        /\ \A u \in evicted : Cardinality(left \union {u}) > MaxTasks
        /\ row' = [u \in Ids |-> IF u = t THEN s ELSE IF u \in evicted THEN None ELSE row[u]]

\* The transaction fails: too large a document, no room, or a failing disk.
PutFails == UNCHANGED row

\* Store::open under the exclusive lock: what was in flight has failed.
Open ==
  /\ server = "down" /\ starts < MaxStarts
  /\ server' = "serving"
  /\ starts' = starts + 1
  /\ row' = [t \in Ids |-> IF row[t] \in Unfinished THEN "FAILED" ELSE row[t]]
  /\ UNCHANGED <<drain, pc, admission, signals, status, queues, turns, ghosts>>

\* The process ends: only what is on disk is left.
Die ==
  /\ Serving
  /\ server' = "down"
  /\ Volatile([t \in Ids |-> IF pc[t] = "new" THEN "new" ELSE "gone"])
  /\ UNCHANGED <<starts, disk, ghosts>>

----------------------------------------------------------------------------
(* Submission *)

\* try_acquire_owned; without a permit the caller is told the server is busy.
Submit(t) ==
  /\ Serving
  /\ pc[t] = "new" /\ permits > 0
  /\ permits' = permits - 1
  /\ Goto(t, "locking")
  /\ UNCHANGED <<process, locked, active, signals, status, queues, disk, ghosts>>

\* Mutant: the stopping flag was read before the lock was taken.
Lock_Unchecked(t) ==
  /\ pc[t] = "locking" /\ locked = None
  /\ locked' = t
  /\ Goto(t, "storing")
  /\ UNCHANGED <<process, permits, active, signals, status, queues, disk, ghosts>>

\* The active map is locked and the stopping flag read under the lock.
Lock(t) ==
  /\ pc[t] = "locking" /\ locked = None
  /\ IF server = "serving"
       THEN locked' = t /\ Goto(t, "storing") /\ UNCHANGED permits
       ELSE permits' = permits + 1 /\ Goto(t, "gone") /\ UNCHANGED locked
  /\ UNCHANGED <<process, active, signals, status, queues, disk, ghosts>>

\* The blocking write of the SUBMITTED record ends, whether or not the
\* submission still waits for it.
Store(t) ==
  /\ pc[t] \in {"storing", "detached"}
  /\ \/ /\ Put(t, Submitted)
        /\ Goto(t, IF pc[t] = "storing" THEN "stored" ELSE "gone")
     \/ /\ PutFails
        /\ Goto(t, IF pc[t] = "storing" THEN "unstored" ELSE "gone")
  /\ UNCHANGED <<process, admission, signals, status, queues, turns, ghosts>>

\* Mutant: the permit is not moved into the worker.
Resume_ReturnsPermit(t) ==
  /\ pc[t] \in {"stored", "unstored"}
  /\ locked' = None
  /\ permits' = permits + 1
  /\ IF pc[t] = "stored"
       THEN active' = active \union {t} /\ Goto(t, "starting")
       ELSE Goto(t, "gone") /\ UNCHANGED active
  /\ UNCHANGED <<process, signals, status, queues, disk, ghosts>>

\* The submission resumes: it inserts the task, releases the map and spawns
\* the worker, or returns the error.
Resume(t) ==
  /\ pc[t] \in {"stored", "unstored"}
  /\ locked' = None
  /\ IF pc[t] = "stored"
       THEN active' = active \union {t} /\ Goto(t, "starting") /\ UNCHANGED permits
       ELSE permits' = permits + 1 /\ Goto(t, "gone") /\ UNCHANGED active
  /\ UNCHANGED <<process, signals, status, queues, disk, ghosts>>

\* The client disconnects and the submission's future is dropped.
Drop(t) ==
  /\ pc[t] \in Submitting
  /\ permits' = permits + 1
  /\ locked' = IF locked = t THEN None ELSE locked
  /\ Goto(t, IF pc[t] = "storing" THEN "detached" ELSE "gone")
  /\ UNCHANGED <<process, active, signals, status, queues, disk, ghosts>>

----------------------------------------------------------------------------
(* The worker *)

\* The result is known and the cancel signal is read again: this fixes the
\* status that will be recorded.  The ask's locals are gone, its lock too.
Settle(t, ok) ==
  /\ status' = [status EXCEPT ![t] = IF cancel[t] THEN "CANCELED"
                                     ELSE IF ok THEN "COMPLETED" ELSE "FAILED"]
  /\ lock' = [lock EXCEPT ![t] = None]
  /\ loaded' = [loaded EXCEPT ![t] = <<>>]
  /\ Goto(t, "saving")

\* Mutant: the error of the first write ends the worker.
Start_Abandons(t) ==
  /\ pc[t] = "starting"
  /\ \/ /\ Put(t, Working)
        /\ shown' = [shown EXCEPT ![t] = Working]
        /\ Goto(t, "checking")
     \/ PutFails /\ Goto(t, "gone") /\ UNCHANGED shown
  /\ UNCHANGED <<process, admission, cancel, status, queues, turns, ghosts>>

\* WORKING is stored, then shown; a failed write is the result.
Start(t) ==
  /\ pc[t] = "starting"
  /\ \/ /\ Put(t, Working)
        /\ shown' = [shown EXCEPT ![t] = Working]
        /\ Goto(t, "checking")
        /\ UNCHANGED <<status, lock, loaded>>
     \/ PutFails /\ Settle(t, FALSE) /\ UNCHANGED shown
  /\ UNCHANGED <<process, admission, cancel, contexts, turns, ghosts>>

\* Mutant: a waiting worker does not keep the lock object alive.
Alive_HoldersOnly(s) ==
  contexts[s] # None /\ \E u \in Ids : lock[u] = contexts[s] /\ pc[u] = "asking"

\* A worker keeps the lock object of its session alive.
Alive(s) == contexts[s] # None /\ \E u \in Ids : lock[u] = contexts[s]

\* Mutant: a lock that is alive is not found again.
Join_Fresh(t) ==
  LET s == SessionOf[t] IN
  /\ contexts' = [c \in Sessions |-> IF c = s THEN t ELSE contexts[c]]
  /\ lock' = [lock EXCEPT ![t] = t]

\* Dead entries are removed; the live lock of the session is shared, or a new
\* one, identified here by the worker that made it, takes its place.
Join(t) ==
  LET s    == SessionOf[t]
      mine == IF Alive(s) THEN contexts[s] ELSE t
  IN  /\ contexts' = [c \in Sessions |-> IF c = s THEN mine
                                         ELSE IF Alive(c) THEN contexts[c] ELSE None]
      /\ lock' = [lock EXCEPT ![t] = mine]

\* execute up to its first await.
Check(t) ==
  /\ pc[t] = "checking"
  /\ \/ cancel[t] /\ Settle(t, FALSE) /\ UNCHANGED contexts
     \/ /\ ~ cancel[t] /\ SessionOf[t] = None
        /\ Goto(t, "calling")
        /\ UNCHANGED <<status, contexts, lock, loaded>>
     \/ /\ ~ cancel[t] /\ SessionOf[t] # None
        /\ Join(t)
        /\ Goto(t, "queued")
        /\ UNCHANGED <<status, loaded>>
  /\ UNCHANGED <<process, admission, signals, disk, ghosts>>

\* The cancel signal ends the wait for the context.
GiveUp(t) ==
  /\ pc[t] = "queued" /\ cancel[t]
  /\ Settle(t, FALSE)
  /\ UNCHANGED <<process, admission, signals, contexts, disk, ghosts>>

\* load: the most recent turns of a file.
LastTurns(file) ==
  IF Len(file) > ContextTurns THEN SubSeq(file, Len(file) - ContextTurns + 1, Len(file)) ELSE file

\* The context is free: the ask that waited for it first loads its last turns.
Acquire(t) ==
  /\ pc[t] = "queued"
  /\ \A u \in Ids : pc[u] = "asking" => lock[u] # lock[t]
  /\ loaded' = [loaded EXCEPT ![t] = LastTurns(turns[SessionOf[t]])]
  /\ Goto(t, "asking")
  /\ UNCHANGED <<process, admission, signals, status, contexts, lock, disk, ghosts>>

\* The Agent returns; its turn is saved behind the loaded ones, or it fails.
Ask(t) ==
  /\ pc[t] = "asking"
  /\ \/ /\ turns' = [turns EXCEPT ![SessionOf[t]] = Append(loaded[t], t)]
        /\ saved' = [saved EXCEPT ![SessionOf[t]] = Append(@, t)]
        /\ Settle(t, TRUE)
     \/ UNCHANGED <<turns, saved>> /\ Settle(t, FALSE)
  /\ UNCHANGED <<process, admission, signals, contexts, row, told>>

\* inspect, tools or invoke_tool returns.
Call(t) ==
  /\ pc[t] = "calling"
  /\ \E ok \in BOOLEAN : Settle(t, ok)
  /\ UNCHANGED <<process, admission, signals, contexts, disk, ghosts>>

\* Mutant: a failed write leaves the status as it was.
Save_Forgets(t) ==
  /\ pc[t] = "saving"
  /\ Put(t, status[t]) \/ PutFails
  /\ Goto(t, "leaving")
  /\ UNCHANGED <<process, admission, signals, status, queues, turns, ghosts>>

\* The final record is written.  When that fails the task has failed.
Save(t) ==
  /\ pc[t] = "saving"
  /\ \/ Put(t, status[t]) /\ Goto(t, "leaving") /\ UNCHANGED status
     \/ /\ PutFails
        /\ status' = [status EXCEPT ![t] = "FAILED"]
        /\ Goto(t, "resaving")
  /\ UNCHANGED <<process, admission, signals, queues, turns, ghosts>>

\* The failure is written; an error of this write is ignored.
Resave(t) ==
  /\ pc[t] = "resaving"
  /\ Put(t, status[t]) \/ PutFails
  /\ Goto(t, "leaving")
  /\ UNCHANGED <<process, admission, signals, status, queues, turns, ghosts>>

\* The task leaves the active map and returns its permit.
Leave(t) ==
  /\ pc[t] = "leaving" /\ locked = None
  /\ active' = active \ {t}
  /\ permits' = permits + 1
  /\ Goto(t, "publishing")
  /\ UNCHANGED <<process, locked, signals, status, queues, disk, ghosts>>

\* Mutant: only a task whose final record was written is announced.
Publish_IfRecorded(t) ==
  /\ pc[t] = "publishing"
  /\ shown' = IF row[t] = status[t] THEN [shown EXCEPT ![t] = status[t]] ELSE shown
  /\ Goto(t, "gone")
  /\ UNCHANGED <<process, admission, cancel, status, queues, disk, ghosts>>

\* Everyone who waits for the task is woken.
Publish(t) ==
  /\ pc[t] = "publishing"
  /\ shown' = [shown EXCEPT ![t] = status[t]]
  /\ Goto(t, "gone")
  /\ UNCHANGED <<process, admission, cancel, status, queues, disk, ghosts>>

----------------------------------------------------------------------------
(* Clients and shutdown *)

\* cancel, or a dropped MCP request: the ticket's sender needs no lock.
Cancel(t) ==
  /\ pc[t] \in Worker /\ ~ cancel[t]
  /\ cancel' = [cancel EXCEPT ![t] = TRUE]
  /\ UNCHANGED <<process, pc, admission, shown, status, queues, disk, ghosts>>

Told(t, s) == told' = [told EXCEPT ![t] = s]

\* What get answers: the live value of an active task, else its record.
Answer(t) == IF t \in active THEN shown[t] ELSE row[t]

\* A final answer reaches a client, from Ticket::wait or from get.
Learn(t) ==
  /\ Serving
  /\ \/ pc[t] = "gone" /\ shown[t] \in Final /\ Told(t, shown[t])
     \/ locked = None /\ Answer(t) \in Final /\ Told(t, Answer(t))
  /\ UNCHANGED <<process, pc, admission, signals, status, queues, disk, saved>>

\* shutdown first refuses further submissions,
Stop ==
  /\ server = "serving"
  /\ server' = "stopping"
  /\ UNCHANGED <<starts, drain, pc, admission, signals, status, queues, disk, ghosts>>

\* then cancels every active task,
CancelAll ==
  /\ server = "stopping" /\ locked = None
  /\ server' = "draining"
  /\ drain' = active
  /\ cancel' = [t \in Ids |-> t \in active \/ cancel[t]]
  /\ UNCHANGED <<starts, pc, admission, shown, status, queues, disk, ghosts>>

\* and waits until each is final.  The process then exits.
Drained ==
  /\ server = "draining"
  /\ \A t \in drain : shown[t] \in Final
  /\ server' = "drained"
  /\ UNCHANGED <<starts, drain, pc, admission, signals, status, queues, disk, ghosts>>

----------------------------------------------------------------------------

Work(t) ==
  \/ Start(t) \/ Check(t) \/ GiveUp(t) \/ Acquire(t) \/ Ask(t) \/ Call(t)
  \/ Save(t) \/ Resave(t) \/ Leave(t) \/ Publish(t)

Admit(t) == Submit(t) \/ Lock(t) \/ Store(t) \/ Resume(t) \/ Drop(t)

Next ==
  \/ \E t \in Ids : Admit(t) \/ Work(t) \/ Cancel(t) \/ Learn(t)
  \/ Open \/ Die \/ Stop \/ CancelAll \/ Drained

Spec == Init /\ [][Next]_vars

\* Every started worker and every started write goes on; the lock of the
\* active map and the context locks are handed out in order.  An operation
\* returns, which is assumed here: for an ask AgentLoop shows it (TimeLimitEnds,
\* CancelEnds) except for a tool that never returns, as a command does whose
\* descendants hold its pipes; an approval expires.
Fairness ==
  /\ \A t \in Ids : WF_vars(Store(t)) /\ WF_vars(Resume(t))
  /\ \A t \in Ids : WF_vars(Start(t)) /\ WF_vars(Check(t)) /\ WF_vars(Ask(t)) /\ WF_vars(Call(t))
  /\ \A t \in Ids : WF_vars(Save(t)) /\ WF_vars(Resave(t)) /\ WF_vars(Publish(t))
  /\ \A t \in Ids : SF_vars(Acquire(t)) /\ SF_vars(Leave(t))
  /\ SF_vars(CancelAll) /\ WF_vars(Drained)

FairSpec == Spec /\ Fairness

----------------------------------------------------------------------------
(* Properties *)

\* At most `capacity` tasks are active or about to be, however submissions,
\* disconnects and failed writes interleave.
AtMostCapacity ==
  Cardinality(active \union {t \in Ids : pc[t] \in Submitting \union Worker}) <= Capacity

\* Asks that share a context never run at the same time, although the lock
\* object they share lives only as long as somebody uses it.
AsksTakeTurns ==
  \A t, u \in Ids :
    pc[t] = "asking" /\ pc[u] = "asking" /\ SessionOf[t] = SessionOf[u] => t = u

Holds(file, t) == \E i \in DOMAIN file : file[i] = t

\* An ask that is recorded as completed has saved its turn, and the turn stays in
\* the file of its context until max_context_turns further asks have saved theirs
\* behind it: no other ask overwrites it, and none that failed counts.
TurnsAreKept ==
  \A t \in Ids :
    row[t] = "COMPLETED" /\ SessionOf[t] # None =>
      LET s == SessionOf[t] IN
      \E i \in DOMAIN saved[s] :
        saved[s][i] = t /\ (Len(saved[s]) - i <= ContextTurns => Holds(turns[s], t))

\* The record of a task that is still at work is never pruned, and says so.
WorkIsOnRecord ==
  \A t \in active : pc[t] # "leaving" => row[t] \in Unfinished

\* What one client was told is what any later question is answered, also after
\* a restart, until the record is pruned.  Only a failure whose record could
\* not be written may look unfinished again until the restart.
AnswersAgree ==
  \A t \in Ids :
    told[t] # None =>
      \/ Answer(t) \in {told[t], None}
      \/ told[t] = "FAILED" /\ row[t] \in Unfinished

\* After shutdown has returned nothing runs and nothing more is written by a
\* worker, whichever submissions were under way when it began.
NothingOutlivesShutdown ==
  server = "drained" => \A t \in Ids : pc[t] \notin {"storing"} \union Worker

\* A final record never changes again, a restart included; it can be pruned.
FinalIsFinal ==
  [][\A t \in Ids : row[t] \in Final => row'[t] \in {row[t], None}]_vars

\* Every task leaves the active map, whatever fails on the way, as long as its
\* operation returns.
TasksSettle == \A t \in Ids : t \in active ~> t \notin active

\* Shutdown returns, whichever submissions, drops and failed writes it races with,
\* as long as the operations of the tasks it cancelled return.
ShutdownReturns == server = "stopping" ~> server \in {"drained", "down"}
=============================================================================
