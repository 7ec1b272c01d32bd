-------------------------- MODULE WebSessionsProofs --------------------------
(***************************************************************************)
(* The sessions of the Web server, for every number of sessions, objects,  *)
(* tasks, terminals, starts and scheduled checkpoints.                     *)
(*                                                                         *)
(* That a session has one task follows from what a live task keeps: its    *)
(* object is busy and is the one registered under its name (Held).  A      *)
(* session in that state is neither deleted nor loaded again, and a save   *)
(* that ends changes the task it was made for only (Saving, OneSave).      *)
(*                                                                         *)
(* That a busy session has a task (Worked) needs what each end of a task   *)
(* leaves to do; that a dialog has somebody who waits for it (Attended),   *)
(* which task or terminal its object's one asker is.  That a saved answer  *)
(* stays (Kept) needs the files, the objects and every write under way to  *)
(* reach the last answer reported, and writes to end in order.             *)
(***************************************************************************)
EXTENDS WebSessions, SequenceTheorems, TLAPS

\* The registry holds objects of the name they are registered under.
Named ==
  \A n \in Names : registry[n] # NoObject =>
    object[registry[n]] # None /\ object[registry[n]].name = n

Held ==
  \A k \in Tasks : Live(k) =>
    /\ task[k].obj # NoObject /\ object[task[k].obj] # None
    /\ object[task[k].obj].busy
    /\ registry[object[task[k].obj].name] = task[k].obj

OneEach == \A j, k \in Tasks : Live(j) /\ Live(k) /\ task[j].obj = task[k].obj => j = k

Issued ==
  /\ \A o \in Objects : object[o] # None => object[o].name \in issued
  /\ \A n \in Names : file[n] # None => n \in issued
  /\ \A w \in writes : w.name \in issued

\* Where a task waits for a save.
SavePoints == {"accepted", "asking", "answered", "clearing", "failed"}

Saving ==
  \A w \in writes :
    /\ w.by = "load" => registry[w.name] = NoObject /\ w.obj = NoObject
    /\ w.by # "load" => w.obj # NoObject /\ object[w.obj] # None
    /\ w.by = "task" =>
         w.task \in Tasks /\ task[w.task].obj = w.obj /\ task[w.task].pc \in SavePoints

\* The persist lock, and for loads the registry lock.
OneSave ==
  \A v, w \in writes : v.obj = w.obj /\ v.by # "orphan" /\ w.by # "orphan" => v = w

Attached ==
  \A t \in Terminals : terminal[t].pc # "closed" =>
    terminal[t].obj # NoObject /\ object[terminal[t].obj] # None

IInv == TypeOK /\ Named /\ Held /\ OneEach /\ Issued /\ Saving /\ OneSave /\ Attached

----------------------------------------------------------------------------
(* The data *)

LEMMA Constants ==
  /\ MaxSessions \in Nat /\ MaxObjects \in Nat /\ MaxTasks \in Nat
  /\ MaxStarts \in Nat /\ MaxScheduled \in Nat /\ ContextTurns \in Nat \ {0}
BY WebAssumption

LEMMA LastTurnsType == ASSUME NEW s \in Seq(Tasks) PROVE LastTurns(s) \in Seq(Tasks)
<1>1. CASE Len(s) > ContextTurns
  <2>1. /\ Len(s) - ContextTurns + 1 \in 1 .. Len(s) + 1
        /\ Len(s) \in Len(s) - ContextTurns .. Len(s)
    BY <1>1, Constants, LenProperties
  <2>2. SubSeq(s, Len(s) - ContextTurns + 1, Len(s)) \in Seq(Tasks)
    BY <2>1, SubSeqProperties
  <2>3. QED
    BY <1>1, <2>2 DEF LastTurns
<1>2. CASE ~ (Len(s) > ContextTurns)
  BY <1>2 DEF LastTurns
<1>3. QED
  BY <1>1, <1>2

LEMMA LoadedType ==
  ASSUME NEW n \in Names, NEW d \in Documents
  PROVE  Loaded(n, d) \in Object /\ Loaded(n, d).name = n
<1> DEFINE needs == ~ d.title
<1>1. LastTurns(d.turns) \in Seq(Tasks)
  BY LastTurnsType DEF Documents
<1>2. needs \in BOOLEAN /\ d.mark \in Marks \union {None} /\ d.title \in BOOLEAN
  BY DEF Documents
<1>3. Loaded(n, d).needsTitle = needs
  BY DEF Loaded
<1>4. Loaded(n, d) \in Object
  BY <1>1, <1>2, <1>3, Constants DEF Loaded, Object
<1>5. QED
  BY <1>4 DEF Loaded

LEMMA BlankType == ASSUME NEW n \in Names PROVE Blank(n) \in Object /\ Blank(n).name = n
<1>1. [turns |-> <<>>, mark |-> None, title |-> FALSE] \in Documents
  BY DEF Documents
<1>2. QED
  BY <1>1, LoadedType DEF Blank

LEMMA DocumentType ==
  ASSUME NEW o, object[o] \in Object
  PROVE  Document(o) \in Documents /\ [Document(o) EXCEPT !.title = TRUE] \in Documents
BY DEF Document, Documents, Object

LEMMA FirstObject == 1 \in Objects /\ 1 \in 1 .. MaxStarts
BY WebAssumption DEF Objects

\* Names for what the steps use of the invariant.
LEMMA ObjectTyped ==
  ASSUME TypeOK, NEW o \in Objects, object[o] # None
  PROVE  object[o] \in Object
BY DEF TypeOK

LEMMA TasksType == IInv => task \in [Tasks -> Task]
BY DEF IInv, TypeOK

LEMMA TaskSet ==
  ASSUME IInv, NEW k \in Tasks, NEW pc \in PC, NEW reply \in Reply,
         task' = [task EXCEPT ![k].pc = pc, ![k].reply = reply]
  PROVE  /\ task' \in [Tasks -> Task] /\ task'[k].obj = task[k].obj
         /\ task'[k].pc = pc /\ task'[k].reply = reply
         /\ \A j \in Tasks : j # k => task'[j] = task[j]
<1>1. task \in [Tasks -> Task] /\ task[k] \in Task
  BY TasksType
<1> DEFINE now == [task[k] EXCEPT !.pc = pc, !.reply = reply]
<1>2. now \in Task /\ now.obj = task[k].obj /\ now.pc = pc /\ now.reply = reply
  BY <1>1 DEF Task
<1>3. task' = [task EXCEPT ![k] = now]
  BY <1>1
<1> HIDE DEF now
<1>4. QED
  BY <1>1, <1>2, <1>3

LEMMA TaskGoes ==
  ASSUME IInv, NEW k \in Tasks, NEW pc \in PC, Goto(k, pc)
  PROVE  /\ task' \in [Tasks -> Task] /\ task'[k].obj = task[k].obj
         /\ task'[k].pc = pc /\ task'[k].reply = task[k].reply
         /\ \A j \in Tasks : j # k => task'[j] = task[j]
<1>1. task \in [Tasks -> Task] /\ task[k] \in Task
  BY TasksType
<1> DEFINE now == [task[k] EXCEPT !.pc = pc]
<1>2. now \in Task /\ now.obj = task[k].obj /\ now.pc = pc /\ now.reply = task[k].reply
  BY <1>1 DEF Task
<1>3. task' = [task EXCEPT ![k] = now]
  BY <1>1 DEF Goto
<1> HIDE DEF now
<1>4. QED
  BY <1>1, <1>2, <1>3

LEMMA ObjectsType == IInv => object \in [Objects -> Object \union {None}]
BY DEF IInv, TypeOK

LEMMA RegisteredObject ==
  ASSUME IInv, NEW n \in Names, registry[n] # NoObject
  PROVE  registry[n] \in Objects /\ object[registry[n]] \in Object /\ object[registry[n]].name = n
BY DEF IInv, TypeOK, Named

LEMMA LiveObject ==
  ASSUME IInv, NEW k \in Tasks, Live(k)
  PROVE  task[k].obj \in Objects /\ object[task[k].obj] \in Object
BY DEF IInv, TypeOK, Held, Task

LEMMA AttachedObject ==
  ASSUME IInv, NEW t \in Terminals, terminal[t].pc # "closed"
  PROVE  terminal[t].obj \in Objects /\ object[terminal[t].obj] \in Object
BY DEF IInv, TypeOK, Attached, Terminal

----------------------------------------------------------------------------
(* Steps that start and end no task and register and delete no session *)

SameSession(o) ==
  /\ object[o] = None => object'[o] = None
  /\ object[o] # None =>
       object'[o] # None /\ object'[o].name = object[o].name /\ object'[o].busy = object[o].busy

Gentle ==
  /\ UNCHANGED <<registry, file, issued>>
  /\ \A o \in Objects : SameSession(o)
  /\ \A k \in Tasks : task'[k].obj = task[k].obj /\ (Live(k)' => Live(k))

\* The tasks whose saves are under way are where they were.
SavesStay ==
  \A k \in Tasks : task'[k].pc = task[k].pc \/ task[k].pc \notin SavePoints

TerminalsStay ==
  \A t \in Terminals : terminal'[t].pc # "closed" => terminal[t].pc # "closed" /\ terminal'[t].obj = terminal[t].obj

LEMMA GentleKeeps == ASSUME IInv, Gentle PROVE Named' /\ Held' /\ OneEach'
<1>1. Named'
  BY DEF IInv, TypeOK, Named, Gentle, SameSession
<1>2. Held'
  <2> SUFFICES ASSUME NEW k \in Tasks, Live(k)'
               PROVE  /\ task'[k].obj # NoObject /\ object'[task'[k].obj] # None
                      /\ object'[task'[k].obj].busy
                      /\ registry'[object'[task'[k].obj].name] = task'[k].obj
    BY DEF Held
  <2>1. Live(k) /\ task'[k].obj = task[k].obj
    BY DEF Gentle
  <2>2. task[k].obj \in Objects /\ object[task[k].obj] # None /\ object[task[k].obj].busy
        /\ registry[object[task[k].obj].name] = task[k].obj
    BY <2>1, LiveObject DEF IInv, Held
  <2>3. task[k].obj # NoObject
    BY <2>2, Constants DEF Objects, NoObject
  <2>4. QED
    BY <2>1, <2>2, <2>3 DEF Gentle, SameSession
<1>3. OneEach'
  BY DEF IInv, OneEach, Gentle
<1>4. QED
  BY <1>1, <1>2, <1>3

LEMMA GentleSaves ==
  ASSUME IInv, Gentle, SavesStay, UNCHANGED writes PROVE Issued' /\ Saving' /\ OneSave'
<1>1. Issued'
  BY DEF IInv, Issued, Gentle, SameSession
<1>2. Saving'
  <2> SUFFICES ASSUME NEW w \in writes
               PROVE  /\ w.by = "load" => registry[w.name] = NoObject /\ w.obj = NoObject
                      /\ w.by # "load" => w.obj # NoObject /\ object'[w.obj] # None
                      /\ w.by = "task" => w.task \in Tasks /\ task'[w.task].obj = w.obj
                                          /\ task'[w.task].pc \in SavePoints
    BY DEF Saving, Gentle
  <2>1. w.by # "load" => w.obj # NoObject /\ object'[w.obj] # None
    BY DEF IInv, TypeOK, Saving, Gentle, SameSession, Write
  <2>2. w.by = "task" => w.task \in Tasks /\ task'[w.task].obj = w.obj /\ task'[w.task].pc \in SavePoints
    BY DEF IInv, Saving, Gentle, SavesStay
  <2>3. QED
    BY <2>1, <2>2 DEF IInv, Saving
<1>3. OneSave'
  BY DEF IInv, OneSave
<1>4. QED
  BY <1>1, <1>2, <1>3

LEMMA GentleAttached == ASSUME IInv, Gentle, TerminalsStay PROVE Attached'
<1> SUFFICES ASSUME NEW t \in Terminals, terminal'[t].pc # "closed"
             PROVE  terminal'[t].obj # NoObject /\ object'[terminal'[t].obj] # None
  BY DEF Attached
<1>1. terminal[t].pc # "closed" /\ terminal'[t].obj = terminal[t].obj
  BY DEF TerminalsStay
<1>2. QED
  BY <1>1, AttachedObject DEF IInv, Attached, Gentle, SameSession

LEMMA GentleInv ==
  ASSUME IInv, TypeOK', Gentle, SavesStay, TerminalsStay, UNCHANGED writes PROVE IInv'
BY GentleKeeps, GentleSaves, GentleAttached DEF IInv

LEMMA TypeKept ==
  ASSUME TypeOK,
         object' \in [Objects -> Object \union {None}], task' \in [Tasks -> Task],
         terminal' \in [Terminals -> Terminal],
         UNCHANGED <<registry, writes, file, temporary, issued, starts, deleted, answered>>
  PROVE  TypeOK'
BY DEF TypeOK

\* One object and one task change, the rest is as it was.
LEMMA GentleTask ==
  ASSUME IInv, UNCHANGED <<shared, terminal, writes, store, starts, history>>,
         NEW k \in Tasks, Live(k), task' \in [Tasks -> Task],
         task'[k].obj = task[k].obj, task[k].pc \notin SavePoints \/ task'[k].pc = task[k].pc,
         \A j \in Tasks : j # k => task'[j] = task[j],
         object' \in [Objects -> Object \union {None}],
         \A o \in Objects : SameSession(o)
  PROVE  IInv'
<1>1. TypeOK'
  BY TypeKept DEF IInv, shared, store, history, TypeOK
<1>2. Gentle
  <2>1. \A j \in Tasks : task'[j].obj = task[j].obj /\ (Live(j)' => Live(j))
    BY DEF Live
  <2>2. QED
    BY <2>1 DEF Gentle, shared, store
<1>3. SavesStay /\ TerminalsStay
  BY DEF SavesStay, TerminalsStay
<1>4. QED
  BY <1>1, <1>2, <1>3, GentleInv

\* A task alone changes.
LEMMA GentleStep ==
  ASSUME IInv, UNCHANGED <<shared, object, terminal, writes, store, starts, history>>,
         NEW k \in Tasks, Live(k), task[k].pc \notin SavePoints,
         NEW pc \in PC, NEW reply \in Reply,
         task' = [task EXCEPT ![k].pc = pc, ![k].reply = reply]
  PROVE  IInv'
<1>1. task' \in [Tasks -> Task] /\ task'[k].obj = task[k].obj
      /\ \A j \in Tasks : j # k => task'[j] = task[j]
  BY TaskSet
<1>2. \A o \in Objects : SameSession(o)
  BY DEF SameSession
<1>3. QED
  BY <1>1, <1>2, GentleTask DEF IInv, TypeOK

\* What a step may do to an object that it neither frees nor makes busy.
Mild(o) ==
  /\ object' \in [Objects -> Object \union {None}]
  /\ object'[o] \in Object
  /\ object'[o].name = object[o].name /\ object'[o].busy = object[o].busy
  /\ \A p \in Objects : p # o => object'[p] = object[p]

LEMMA MildKeeps ==
  ASSUME NEW o \in Objects, object[o] \in Object, Mild(o)
  PROVE  \A p \in Objects : SameSession(p)
<1> SUFFICES ASSUME NEW p \in Objects PROVE SameSession(p)
  OBVIOUS
<1>1. CASE p = o
  BY <1>1, NoneAssumption DEF Mild, SameSession
<1>2. CASE p # o
  BY <1>2 DEF Mild, SameSession
<1>3. QED
  BY <1>1, <1>2

LEMMA FailInv ==
  ASSUME IInv, UNCHANGED <<shared, terminal, writes, store, starts, history>>,
         NEW k \in Tasks, Live(k), task[k].pc \notin SavePoints, Fail(k)
  PROVE  IInv'
<1>1. task[k].obj \in Objects /\ object[task[k].obj] \in Object
  BY LiveObject
<1>2. task' \in [Tasks -> Task] /\ task'[k].obj = task[k].obj
      /\ \A j \in Tasks : j # k => task'[j] = task[j]
  <2>1. "failed" \in PC /\ "none" \in Reply
    BY DEF PC, Reply
  <2>2. QED
    BY <2>1, TaskSet DEF Fail
<1>3. Mild(task[k].obj)
  <2> DEFINE o == task[k].obj
             now == [object[o] EXCEPT !.titling = IF @ = "due" THEN "no" ELSE @,
                                      !.mark = IF object[o].cancel THEN "cancelled" ELSE "failed"]
  <2>1. now \in Object /\ now.name = object[o].name /\ now.busy = object[o].busy
    BY <1>1 DEF Object, Marks
  <2>2. object \in [Objects -> Object \union {None}] /\ o \in Objects
    BY <1>1, ObjectsType
  <2>3. object' = [object EXCEPT ![o] = now]
    BY <2>2 DEF Fail
  <2> HIDE DEF now
  <2>4. QED
    BY <2>1, <2>2, <2>3 DEF Mild
<1>4. QED
  BY <1>1, <1>2, <1>3, MildKeeps, GentleTask DEF Mild

----------------------------------------------------------------------------
(* The steps of a task *)

LEMMA PrepareInv == ASSUME IInv, NEW k \in Tasks, Prepare(k) PROVE IInv'
<1>1. Live(k) /\ task[k].pc \notin SavePoints
  BY DEF Prepare, At, Live, SavePoints
<1>2. CASE Goto(k, "working") /\ UNCHANGED object
  <2>1. task' = [task EXCEPT ![k].pc = "working", ![k].reply = task[k].reply]
    BY <1>2, TasksType DEF Goto, Task
  <2>2. "working" \in PC /\ task[k].reply \in Reply
    BY TasksType DEF PC, Task
  <2>3. QED
    BY <1>1, <1>2, <2>1, <2>2, GentleStep DEF Prepare
<1>3. CASE Fail(k)
  BY <1>1, <1>3, FailInv DEF Prepare
<1>4. QED
  BY <1>2, <1>3 DEF Prepare

LEMMA ScheduleCheckpointInv == ASSUME IInv, NEW k \in Tasks, ScheduleCheckpoint(k) PROVE IInv'
<1>1. Live(k) /\ task[k].pc \notin SavePoints
  BY DEF ScheduleCheckpoint, At, Live, SavePoints
<1>2. task[k].obj \in Objects /\ object[task[k].obj] \in Object
  BY <1>1, LiveObject
<1>3. object[task[k].obj].scheduled + 1 \in 0 .. MaxScheduled
  <2>1. object[task[k].obj].scheduled \in 0 .. MaxScheduled
    BY <1>2 DEF Object
  <2>2. object[task[k].obj].scheduled < MaxScheduled
    BY DEF ScheduleCheckpoint
  <2>3. QED
    BY <2>1, <2>2, Constants
<1>4. Mild(task[k].obj)
  BY <1>2, <1>3 DEF IInv, TypeOK, ScheduleCheckpoint, Mild, Object
<1>5. QED
  BY <1>1, <1>2, <1>4, MildKeeps, GentleTask DEF Mild, ScheduleCheckpoint, IInv, TypeOK

LEMMA CheckCancelInv == ASSUME IInv, NEW k \in Tasks, CheckCancel(k) PROVE IInv'
<1>1. Live(k) /\ task[k].pc \notin SavePoints
  BY DEF CheckCancel, At, Live, SavePoints
<1>2. task' = [task EXCEPT ![k].pc = "checked", ![k].reply = task[k].reply]
  BY TasksType DEF CheckCancel, Goto, Task
<1>3. "checked" \in PC /\ task[k].reply \in Reply
  BY TasksType DEF PC, Task
<1>4. QED
  BY <1>1, <1>2, <1>3, GentleStep DEF CheckCancel

LEMMA OpenDialogInv == ASSUME IInv, NEW k \in Tasks, OpenDialog(k) PROVE IInv'
<1>1. Live(k) /\ task[k].pc \notin SavePoints
  BY DEF OpenDialog, At, Live, SavePoints
<1>2. task[k].obj \in Objects /\ object[task[k].obj] \in Object
  BY <1>1, LiveObject
<1>3. task' \in [Tasks -> Task] /\ task'[k].obj = task[k].obj
      /\ \A j \in Tasks : j # k => task'[j] = task[j]
  <2>1. "asking" \in PC /\ "open" \in Reply
    BY DEF PC, Reply
  <2>2. QED
    BY <2>1, TaskSet DEF OpenDialog
<1>4. Mild(task[k].obj)
  BY <1>2 DEF IInv, TypeOK, OpenDialog, Mild, Object
<1>5. QED
  BY <1>1, <1>2, <1>3, <1>4, MildKeeps, GentleTask DEF Mild, OpenDialog

LEMMA WaitInv == ASSUME IInv, NEW k \in Tasks, Wait(k) PROVE IInv'
<1> DEFINE Resume == task' = [task EXCEPT ![k].pc = "working", ![k].reply = "none"]
<1>1. Live(k) /\ task[k].pc \notin SavePoints
  BY DEF Wait, At, Live, SavePoints
<1>2. CASE Resume /\ UNCHANGED object
  <2>1. "working" \in PC /\ "none" \in Reply
    BY DEF PC, Reply
  <2>2. QED
    BY <1>1, <1>2, <2>1, GentleStep DEF Wait
<1>3. CASE Fail(k)
  BY <1>1, <1>3, FailInv DEF Wait
<1>4. CASE Resume /\ object' = [object EXCEPT ![task[k].obj].asker = None]
  <2>1. task[k].obj \in Objects /\ object[task[k].obj] \in Object
    BY <1>1, LiveObject
  <2>2. task' \in [Tasks -> Task] /\ task'[k].obj = task[k].obj
        /\ \A j \in Tasks : j # k => task'[j] = task[j]
    BY <1>4, TasksType DEF Task, PC, Reply
  <2>3. Mild(task[k].obj)
    BY <1>4, <2>1 DEF IInv, TypeOK, Mild, Object
  <2>4. QED
    BY <1>1, <2>1, <2>2, <2>3, MildKeeps, GentleTask DEF Mild, Wait
<1>5. QED
  BY <1>2, <1>3, <1>4 DEF Wait

LEMMA FailWorkInv == ASSUME IInv, NEW k \in Tasks, FailWork(k) PROVE IInv'
<1>1. Live(k) /\ task[k].pc \notin SavePoints
  BY DEF FailWork, At, Live, SavePoints
<1>2. QED
  BY <1>1, FailInv DEF FailWork

LEMMA AnswerWorkInv == ASSUME IInv, NEW k \in Tasks, AnswerWork(k) PROVE IInv'
<1>1. Live(k) /\ task[k].pc \notin SavePoints
  BY DEF AnswerWork, At, Live, SavePoints
<1>2. task[k].obj \in Objects /\ object[task[k].obj] \in Object
  BY <1>1, LiveObject
<1>3. task' \in [Tasks -> Task] /\ task'[k].obj = task[k].obj
      /\ \A j \in Tasks : j # k => task'[j] = task[j]
  BY TasksType DEF Task, AnswerWork, Goto, PC
<1>4. LastTurns(Append(object[task[k].obj].turns, k)) \in Seq(Tasks)
  <2>1. object[task[k].obj].turns \in Seq(Tasks)
    BY <1>2 DEF Object
  <2>2. Append(object[task[k].obj].turns, k) \in Seq(Tasks)
    BY <2>1
  <2>3. QED
    BY <2>2, LastTurnsType
<1>5. Mild(task[k].obj)
  <2> DEFINE o == task[k].obj
             now == [object[o] EXCEPT !.turns = LastTurns(Append(@, k)), !.mark = "completed",
                                      !.titling = IF object[o].needsTitle THEN "due" ELSE @,
                                      !.needsTitle = FALSE]
  <2>1. now \in Object /\ now.name = object[o].name /\ now.busy = object[o].busy
    BY <1>2, <1>4 DEF Object, Marks
  <2>2. object \in [Objects -> Object \union {None}] /\ o \in Objects
    BY <1>2, ObjectsType
  <2>3. object' = [object EXCEPT ![o] = now]
    BY <2>2 DEF AnswerWork
  <2> HIDE DEF now
  <2>4. QED
    BY <2>1, <2>2, <2>3 DEF Mild
<1>6. QED
  BY <1>1, <1>2, <1>3, <1>5, MildKeeps, GentleTask DEF Mild, AnswerWork

----------------------------------------------------------------------------
(* The other holders of a session *)

LEMMA GentleObject ==
  ASSUME IInv, UNCHANGED <<shared, task, terminal, writes, store, starts, history>>,
         NEW o \in Objects, object[o] \in Object, Mild(o)
  PROVE  IInv'
<1>1. TypeOK'
  BY TypeKept DEF IInv, shared, store, history, TypeOK, Mild
<1>2. \A k \in Tasks : task'[k].obj = task[k].obj /\ (Live(k)' => Live(k))
  BY DEF Live
<1>3. Gentle /\ SavesStay /\ TerminalsStay
  BY <1>2, MildKeeps DEF Gentle, SavesStay, TerminalsStay, shared, store
<1>4. QED
  BY <1>1, <1>3, GentleInv

LEMMA SuggestTitleInv == ASSUME IInv, NEW o \in Objects, SuggestTitle(o) PROVE IInv'
<1>1. object[o] \in Object
  BY ObjectTyped DEF IInv, SuggestTitle
<1>2. Mild(o)
  <2>1. ASSUME NEW next \in {"given", "no"}, object' = [object EXCEPT ![o].titling = next]
        PROVE  Mild(o)
    BY <1>1, <2>1 DEF IInv, TypeOK, Mild, Object
  <2>2. QED
    BY <2>1 DEF SuggestTitle
<1>3. QED
  BY <1>1, <1>2, GentleObject DEF SuggestTitle

\* A save begins: the persist lock is free.
LEMMA NewSave ==
  ASSUME IInv, UNCHANGED <<shared, task, terminal, store, starts, history>>,
         NEW o \in Objects, object[o] \in Object, PersistFree(o), Mild(o),
         NEW w \in Write, w.obj = o, w.name = object[o].name, w.by # "load",
         w.by = "task" => w.task \in Tasks /\ task[w.task].obj = o /\ task[w.task].pc \in SavePoints,
         writes' = writes \union {w}
  PROVE  IInv'
<1>1. TypeOK'
  BY DEF IInv, TypeOK, shared, store, history, Mild
<1>2. \A p \in Objects : SameSession(p)
  BY MildKeeps
<1>3. Gentle /\ SavesStay /\ TerminalsStay
  <2>1. \A k \in Tasks : task'[k].obj = task[k].obj /\ (Live(k)' => Live(k))
    BY DEF Live
  <2>2. QED
    BY <1>2, <2>1 DEF Gentle, SavesStay, TerminalsStay, shared, store
<1>4. Named' /\ Held' /\ OneEach' /\ Attached'
  BY <1>3, GentleKeeps, GentleAttached
<1>5. Issued'
  BY <1>2, NoneAssumption DEF IInv, Issued, SameSession, shared, store
<1>6. Saving'
  <2> SUFFICES ASSUME NEW v \in writes'
               PROVE  /\ v.by = "load" => registry[v.name] = NoObject /\ v.obj = NoObject
                      /\ v.by # "load" => v.obj # NoObject /\ object'[v.obj] # None
                      /\ v.by = "task" => v.task \in Tasks /\ task[v.task].obj = v.obj
                                          /\ task[v.task].pc \in SavePoints
    BY DEF Saving, shared
  <2>1. CASE v = w
    BY <2>1, NoneAssumption, Constants DEF Mild, Objects, NoObject
  <2>2. CASE v \in writes
    BY <1>2, <2>2 DEF IInv, TypeOK, Saving, SameSession, Write
  <2>3. QED
    BY <2>1, <2>2
<1>7. OneSave'
  BY DEF IInv, OneSave, PersistFree
<1>8. QED
  BY <1>1, <1>4, <1>5, <1>6, <1>7 DEF IInv

LEMMA BeginTaskSaveInv == ASSUME IInv, NEW k \in Tasks, BeginTaskSave(k) PROVE IInv'
<1> DEFINE o == task[k].obj
           w == [name |-> object[o].name, obj |-> o, by |-> "task", task |-> k, made |-> FALSE,
                 document |-> Document(o)]
<1>1. Live(k) /\ task[k].pc \in SavePoints
  BY DEF BeginTaskSave, Live, SavePoints
<1>2. o \in Objects /\ object[o] \in Object
  BY <1>1, LiveObject
<1>3. Mild(o)
  BY <1>2 DEF IInv, TypeOK, BeginTaskSave, Mild
<1>4. w \in Write
  <2>1. Document(o) \in Documents /\ object[o].name \in Names
    BY <1>2, DocumentType DEF Object
  <2>2. k \in 0 .. MaxTasks
    BY Constants DEF Tasks
  <2>3. QED
    BY <1>2, <2>1, <2>2 DEF Write, Savers
<1>5. PersistFree(o) /\ writes' = writes \union {w}
  BY DEF BeginTaskSave, Begin
<1>6. /\ w.obj = o /\ w.name = object[o].name /\ w.by = "task" /\ w.task = k
  OBVIOUS
<1> HIDE DEF w
<1>7. QED
  BY <1>1, <1>2, <1>3, <1>4, <1>5, <1>6, NewSave DEF BeginTaskSave

LEMMA BeginCheckpointInv == ASSUME IInv, NEW o \in Objects, BeginCheckpoint(o) PROVE IInv'
<1> DEFINE w == [name |-> object[o].name, obj |-> o, by |-> "checkpoint", task |-> 0, made |-> FALSE,
                 document |-> Document(o)]
<1>1. object[o] \in Object
  BY ObjectTyped DEF IInv, BeginCheckpoint
<1>2. object[o].scheduled - 1 \in 0 .. MaxScheduled
  <2>1. object[o].scheduled \in 0 .. MaxScheduled /\ object[o].scheduled > 0
    BY <1>1 DEF Object, BeginCheckpoint
  <2>2. QED
    BY <2>1, Constants
<1>3. Mild(o)
  BY <1>1, <1>2 DEF IInv, TypeOK, BeginCheckpoint, Mild, Object
<1>4. w \in Write
  <2>1. Document(o) \in Documents /\ object[o].name \in Names
    BY <1>1, DocumentType DEF Object
  <2>2. 0 \in 0 .. MaxTasks
    BY Constants
  <2>3. QED
    BY <2>1, <2>2 DEF Write, Savers
<1>5. PersistFree(o) /\ writes' = writes \union {w}
  BY DEF BeginCheckpoint, Begin
<1>6. w.obj = o /\ w.name = object[o].name /\ w.by = "checkpoint"
  OBVIOUS
<1> HIDE DEF w
<1>7. QED
  BY <1>1, <1>3, <1>4, <1>5, <1>6, NewSave DEF BeginCheckpoint

LEMMA BeginCancelSaveInv == ASSUME IInv, NEW o \in Objects, BeginCancelSave(o) PROVE IInv'
<1> DEFINE w == [name |-> object[o].name, obj |-> o, by |-> "cancel", task |-> 0, made |-> FALSE,
                 document |-> Document(o)]
<1>1. object[o] \in Object
  BY ObjectTyped DEF IInv, BeginCancelSave
<1>2. Mild(o)
  BY <1>1 DEF IInv, TypeOK, BeginCancelSave, Mild, Object
<1>3. w \in Write
  <2>1. Document(o) \in Documents /\ object[o].name \in Names
    BY <1>1, DocumentType DEF Object
  <2>2. 0 \in 0 .. MaxTasks
    BY Constants
  <2>3. QED
    BY <2>1, <2>2 DEF Write, Savers
<1>4. PersistFree(o) /\ writes' = writes \union {w}
  BY DEF BeginCancelSave, Begin
<1>5. w.obj = o /\ w.name = object[o].name /\ w.by = "cancel"
  OBVIOUS
<1> HIDE DEF w
<1>6. QED
  BY <1>1, <1>2, <1>3, <1>4, <1>5, NewSave DEF BeginCancelSave

LEMMA BeginTitleSaveInv == ASSUME IInv, NEW o \in Objects, BeginTitleSave(o) PROVE IInv'
<1> DEFINE w == [name |-> object[o].name, obj |-> o, by |-> "title", task |-> 0, made |-> FALSE,
                 document |-> [Document(o) EXCEPT !.title = TRUE]]
<1>1. object[o] \in Object
  BY ObjectTyped DEF IInv, BeginTitleSave
<1>2. Mild(o)
  BY <1>1 DEF IInv, TypeOK, BeginTitleSave, Mild, Object
<1>3. w \in Write
  <2>1. [Document(o) EXCEPT !.title = TRUE] \in Documents /\ object[o].name \in Names
    BY <1>1, DocumentType DEF Object
  <2>2. 0 \in 0 .. MaxTasks
    BY Constants
  <2>3. QED
    BY <2>1, <2>2 DEF Write, Savers
<1>4. PersistFree(o) /\ (writes' = writes \union {w} \/ UNCHANGED writes)
  BY DEF BeginTitleSave
<1>5. w.obj = o /\ w.name = object[o].name /\ w.by = "title"
  OBVIOUS
<1> HIDE DEF w
<1>6. CASE writes' = writes \union {w}
  BY <1>1, <1>2, <1>3, <1>4, <1>5, <1>6, NewSave DEF BeginTitleSave
<1>7. CASE UNCHANGED writes
  BY <1>1, <1>2, <1>7, GentleObject DEF BeginTitleSave
<1>8. QED
  BY <1>4, <1>6, <1>7

\* The client of a handler is gone: a blocking write goes on without it.
LEMMA DropMessageInv == ASSUME IInv, NEW k \in Tasks, DropMessage(k) PROVE IInv'
<1> DEFINE Ours(w) == w.by = "task" /\ w.task = k
           left == [w \in writes |-> IF Ours(w) THEN [w EXCEPT !.by = "orphan"] ELSE w]
<1>1. writes' = {left[w] : w \in writes}
  BY DEF DropMessage
<1>2. \A w \in writes : w \in Write
  BY DEF IInv, TypeOK
<1>3. \A w \in writes : /\ left[w] \in Write /\ left[w].name = w.name /\ left[w].obj = w.obj
                        /\ left[w].by # "orphan" => left[w] = w /\ ~ Ours(w)
                        /\ left[w].by = "orphan" => w.by # "load"
  BY <1>2 DEF Write, Savers
<1> HIDE DEF left
<1>4. Live(k) /\ task' \in [Tasks -> Task] /\ task'[k].obj = task[k].obj
      /\ task'[k].pc = "dropped" /\ \A j \in Tasks : j # k => task'[j] = task[j]
  BY DEF IInv, TypeOK, Task, PC, DropMessage, At, Goto, Live
<1>5. TypeOK'
  BY <1>1, <1>3, <1>4 DEF IInv, TypeOK, DropMessage, shared, store, history
<1>6. Gentle /\ TerminalsStay
  BY <1>4 DEF Gentle, SameSession, TerminalsStay, Live, DropMessage, shared, store
<1>7. Named' /\ Held' /\ OneEach' /\ Attached'
  BY <1>6, GentleKeeps, GentleAttached
<1>8. Issued'
  BY <1>1, <1>3 DEF IInv, Issued, DropMessage, shared, store
<1>9. Saving'
  <2> SUFFICES ASSUME NEW w \in writes
               PROVE  /\ left[w].by = "load" =>
                           registry[left[w].name] = NoObject /\ left[w].obj = NoObject
                      /\ left[w].by # "load" => left[w].obj # NoObject /\ object[left[w].obj] # None
                      /\ left[w].by = "task" =>
                           /\ left[w].task \in Tasks /\ task'[left[w].task].obj = left[w].obj
                           /\ task'[left[w].task].pc \in SavePoints
    BY <1>1 DEF Saving, DropMessage, shared
  <2>1. CASE left[w].by = "orphan"
    BY <1>3, <2>1 DEF IInv, Saving
  <2>2. CASE left[w].by # "orphan"
    BY <1>3, <1>4, <2>2 DEF IInv, Saving
  <2>3. QED
    BY <2>1, <2>2
<1>10. OneSave'
  BY <1>1, <1>3 DEF IInv, OneSave
<1>11. QED
  BY <1>5, <1>7, <1>8, <1>9, <1>10 DEF IInv

LEMMA DropCancelInv == ASSUME IInv, NEW o \in Objects, DropCancel(o) PROVE IInv'
<1> DEFINE Ours(w) == w.obj = o /\ w.by = "cancel"
           left == [w \in writes |-> IF Ours(w) THEN [w EXCEPT !.by = "orphan"] ELSE w]
<1>1. writes' = {left[w] : w \in writes}
  BY DEF DropCancel
<1>2. \A w \in writes : w \in Write
  BY DEF IInv, TypeOK
<1>3. \A w \in writes : /\ left[w] \in Write /\ left[w].name = w.name /\ left[w].obj = w.obj
                        /\ left[w].by # "orphan" => left[w] = w
                        /\ left[w].by = "orphan" => w.by # "load"
  BY <1>2 DEF Write, Savers
<1> HIDE DEF left
<1>4. object[o] \in Object
  BY ObjectTyped DEF IInv, DropCancel
<1>5. Mild(o)
  BY <1>4 DEF IInv, TypeOK, DropCancel, Mild, Object
<1>6. TypeOK'
  BY <1>1, <1>3, <1>5 DEF IInv, TypeOK, DropCancel, Mild, shared, store, history
<1>7. Gentle /\ TerminalsStay
  BY <1>4, <1>5, MildKeeps DEF Gentle, TerminalsStay, Live, DropCancel, shared, store
<1>8. Named' /\ Held' /\ OneEach' /\ Attached'
  BY <1>7, GentleKeeps, GentleAttached
<1>9. Issued'
  BY <1>1, <1>3, <1>7 DEF IInv, Issued, Gentle, SameSession, DropCancel
<1>10. Saving'
  <2> SUFFICES ASSUME NEW w \in writes
               PROVE  /\ left[w].by = "load" =>
                           registry[left[w].name] = NoObject /\ left[w].obj = NoObject
                      /\ left[w].by # "load" => left[w].obj # NoObject /\ object'[left[w].obj] # None
                      /\ left[w].by = "task" =>
                           /\ left[w].task \in Tasks /\ task[left[w].task].obj = left[w].obj
                           /\ task[left[w].task].pc \in SavePoints
    BY <1>1 DEF Saving, DropCancel, shared
  <2>1. w.by # "load" => w.obj \in Objects /\ object[w.obj] # None
    BY <1>2 DEF IInv, Saving, Write
  <2>2. w.by # "load" => w.obj # NoObject /\ object'[w.obj] # None
    BY <1>7, <2>1, Constants DEF Gentle, SameSession, Objects, NoObject
  <2>3. CASE left[w].by = "orphan"
    BY <1>3, <2>2, <2>3
  <2>4. CASE left[w].by # "orphan"
    BY <1>3, <2>2, <2>4 DEF IInv, Saving
  <2>5. QED
    BY <2>3, <2>4
<1>11. OneSave'
  BY <1>1, <1>3 DEF IInv, OneSave
<1>12. QED
  BY <1>6, <1>8, <1>9, <1>10, <1>11 DEF IInv

----------------------------------------------------------------------------
(* Handlers *)

LEMMA RepliesType ==
  ASSUME TypeOK, NEW askers
  PROVE  /\ TaskReplies(askers) \in [Tasks -> Task]
         /\ \A k \in Tasks : /\ TaskReplies(askers)[k].obj = task[k].obj
                             /\ TaskReplies(askers)[k].pc = task[k].pc
         /\ TerminalReplies(askers) \in [Terminals -> Terminal]
         /\ \A t \in Terminals : /\ TerminalReplies(askers)[t].obj = terminal[t].obj
                                 /\ TerminalReplies(askers)[t].pc = terminal[t].pc
<1>1. /\ TaskReplies(askers) \in [Tasks -> Task]
      /\ \A k \in Tasks : /\ TaskReplies(askers)[k].obj = task[k].obj
                          /\ TaskReplies(askers)[k].pc = task[k].pc
  BY DEF TypeOK, TaskReplies, Task, Reply
<1>2. /\ TerminalReplies(askers) \in [Terminals -> Terminal]
      /\ \A t \in Terminals : /\ TerminalReplies(askers)[t].obj = terminal[t].obj
                              /\ TerminalReplies(askers)[t].pc = terminal[t].pc
  BY DEF TypeOK, TerminalReplies, Terminal, Reply
<1>3. QED
  BY <1>1, <1>2

\* Dialogs are answered; sessions stay what they are.
LEMMA AnswerInv ==
  ASSUME IInv, UNCHANGED <<shared, writes, store, starts, history>>,
         NEW askers, task' = TaskReplies(askers), terminal' = TerminalReplies(askers),
         object' \in [Objects -> Object \union {None}],
         \A o \in Objects : SameSession(o)
  PROVE  IInv'
<1>1. TypeOK'
  BY RepliesType, TypeKept DEF IInv, shared, store, history
<1>2. /\ \A k \in Tasks : task'[k].obj = task[k].obj /\ task'[k].pc = task[k].pc
      /\ \A t \in Terminals : terminal'[t].obj = terminal[t].obj /\ terminal'[t].pc = terminal[t].pc
  BY RepliesType DEF IInv
<1>3. Gentle /\ SavesStay /\ TerminalsStay
  BY <1>2 DEF Gentle, SavesStay, TerminalsStay, Live, shared, store
<1>4. QED
  BY <1>1, <1>3, GentleInv

LEMMA CancelMessageInv == ASSUME IInv, NEW n \in Names, CancelMessage(n) PROVE IInv'
<1>1. registry[n] \in Objects /\ object[registry[n]] \in Object
  BY RegisteredObject DEF CancelMessage
<1>2. Mild(registry[n])
  BY <1>1 DEF IInv, TypeOK, CancelMessage, Mild, Object
<1>3. QED
  BY <1>1, <1>2, MildKeeps, AnswerInv DEF CancelMessage, Mild

LEMMA PostDecisionInv == ASSUME IInv, NEW n \in Names, PostDecision(n) PROVE IInv'
<1>1. registry[n] \in Objects /\ object[registry[n]] \in Object
  BY RegisteredObject DEF PostDecision
<1>2. Mild(registry[n])
  BY <1>1 DEF IInv, TypeOK, PostDecision, Mild, Object
<1>3. QED
  BY <1>1, <1>2, MildKeeps, AnswerInv DEF PostDecision, Mild

LEMMA ShutdownInv == ASSUME IInv, Shutdown PROVE IInv'
<1> DEFINE closing == {registry[n] : n \in Registered}
           askers == {object[o].asker : o \in closing}
<1>1. \A o \in closing : o \in Objects /\ object[o] \in Object
  BY RegisteredObject DEF Registered
<1>2. object' = [o \in Objects |->
                   IF o \in closing THEN [object[o] EXCEPT !.cancel = TRUE, !.asker = None]
                   ELSE object[o]]
      /\ task' = TaskReplies(askers) /\ terminal' = TerminalReplies(askers)
  BY DEF Shutdown
<1> HIDE DEF closing, askers
<1>3. object' \in [Objects -> Object \union {None}]
  <2>1. \A o \in closing : [object[o] EXCEPT !.cancel = TRUE, !.asker = None] \in Object
    BY <1>1 DEF Object
  <2>2. QED
    BY <1>2, <2>1 DEF IInv, TypeOK
<1>4. \A o \in Objects : SameSession(o)
  <2> SUFFICES ASSUME NEW o \in Objects PROVE SameSession(o)
    OBVIOUS
  <2>1. CASE o \in closing
    <3>1. object'[o] \in Object /\ object'[o].name = object[o].name /\ object'[o].busy = object[o].busy
      <4>1. object'[o] = [object[o] EXCEPT !.cancel = TRUE, !.asker = None]
        BY <1>2, <2>1
      <4>2. object[o] \in Object
        BY <1>1, <2>1
      <4>3. QED
        BY <4>1, <4>2 DEF Object
    <3>2. QED
      BY <1>1, <2>1, <3>1, NoneAssumption DEF SameSession
  <2>2. CASE o \notin closing
    BY <1>2, <2>2 DEF SameSession
  <2>3. QED
    BY <2>1, <2>2
<1>5. QED
  BY <1>2, <1>3, <1>4, AnswerInv DEF Shutdown

LEMMA StartMessageInv ==
  ASSUME IInv, NEW n \in Names, NEW k \in Tasks, StartMessage(n, k) PROVE IInv'
<1> DEFINE o == registry[n]
<1>1. o \in Objects /\ object[o] \in Object /\ object[o].name = n /\ o # NoObject /\ ~ object[o].busy
  BY RegisteredObject DEF StartMessage
<1>2. /\ task' \in [Tasks -> Task] /\ task'[k].obj = o /\ task'[k].pc = "accepted"
      /\ \A j \in Tasks : j # k => task'[j] = task[j]
  BY <1>1 DEF IInv, TypeOK, StartMessage, Task, PC, Reply
<1>3. /\ object' \in [Objects -> Object \union {None}]
      /\ object'[o] \in Object /\ object'[o].name = n /\ object'[o].busy
      /\ \A p \in Objects : p # o => object'[p] = object[p]
  BY <1>1, ObjectsType DEF StartMessage, Object, Marks
<1>4. TypeOK'
  BY <1>2, <1>3, TypeKept DEF IInv, TypeOK, StartMessage, shared, store, history
<1>5. \A p \in Objects : /\ object[p] = None <=> object'[p] = None
                         /\ object[p] # None => object'[p].name = object[p].name
  BY <1>1, <1>3, NoneAssumption
<1>6. Named'
  BY <1>5 DEF IInv, TypeOK, Named, StartMessage, shared
<1>7. \A j \in Tasks : Live(j) => task[j].obj # o
  BY <1>1 DEF IInv, Held
<1> HIDE DEF o
<1>8. Held' /\ OneEach'
  <2>1. \A j \in Tasks : Live(j)' => j = k \/ (Live(j) /\ task'[j].obj = task[j].obj)
    BY <1>2 DEF Live
  <2>2. OneEach'
    BY <1>2, <1>7, <2>1 DEF IInv, OneEach
  <2>3. ASSUME NEW j \in Tasks, Live(j)'
        PROVE  /\ task'[j].obj # NoObject /\ object'[task'[j].obj] # None
               /\ object'[task'[j].obj].busy
               /\ registry[object'[task'[j].obj].name] = task'[j].obj
    <3>1. CASE j = k
      BY <1>1, <1>2, <1>3, <3>1, NoneAssumption DEF o
    <3>2. CASE j # k
      <4>1. Live(j) /\ task'[j].obj = task[j].obj
        BY <2>1, <2>3, <3>2
      <4>2. task[j].obj \in Objects /\ task[j].obj # o
        BY <1>7, <4>1, LiveObject
      <4>3. QED
        BY <1>3, <4>1, <4>2 DEF IInv, Held
    <3>3. QED
      BY <3>1, <3>2
  <2>4. QED
    BY <2>2, <2>3 DEF Held, StartMessage, shared
<1>9. Issued'
  <2>1. UNCHANGED <<issued, file, writes>>
    BY DEF StartMessage, shared, store
  <2>2. QED
    BY <1>5, <2>1 DEF IInv, Issued
<1>10. Saving'
  <2> SUFFICES ASSUME NEW w \in writes
               PROVE  /\ w.by = "load" => registry[w.name] = NoObject /\ w.obj = NoObject
                      /\ w.by # "load" => w.obj # NoObject /\ object'[w.obj] # None
                      /\ w.by = "task" => w.task \in Tasks /\ task'[w.task].obj = w.obj
                                          /\ task'[w.task].pc \in SavePoints
    BY DEF Saving, StartMessage, shared
  <2>1. w.by # "load" => w.obj # NoObject /\ object'[w.obj] # None
    BY <1>5 DEF IInv, TypeOK, Saving, Write
  <2>2. w.by = "task" => w.task # k
    BY DEF IInv, Saving, StartMessage, SavePoints
  <2>3. QED
    BY <1>2, <2>1, <2>2 DEF IInv, Saving
<1>11. OneSave' /\ Attached'
  <2>1. OneSave'
    BY DEF IInv, OneSave, StartMessage
  <2>2. Attached'
    BY <1>5, AttachedObject DEF IInv, Attached, StartMessage
  <2>3. QED
    BY <2>1, <2>2
<1>12. QED
  BY <1>4, <1>6, <1>8, <1>9, <1>10, <1>11 DEF IInv

----------------------------------------------------------------------------
(* The registry *)

\* A session is registered under a free name, and nobody else is loading.
LEMMA Register ==
  ASSUME IInv, TypeOK', UNCHANGED <<task, terminal>>,
         NEW n \in Names, registry[n] = NoObject, NEW o \in Objects, object[o] = None,
         NEW x \in Object, x.name = n,
         registry' = [registry EXCEPT ![n] = o], object' = [object EXCEPT ![o] = x],
         writes' \subseteq writes, \A w \in writes' : w.by # "load",
         issued \subseteq issued', n \in issued', \A m \in Names : file'[m] # None => m \in issued'
  PROVE  IInv'
<1>1. /\ object'[o] = x /\ x # None /\ o # NoObject
      /\ \A p \in Objects : p # o => object'[p] = object[p]
      /\ registry'[n] = o /\ \A m \in Names : m # n => registry'[m] = registry[m]
  BY NoneAssumption, Constants DEF IInv, TypeOK, Objects, NoObject
<1>2. Named'
  BY <1>1 DEF IInv, TypeOK, Named
<1>3. Held'
  <2> SUFFICES ASSUME NEW k \in Tasks, Live(k)
               PROVE  /\ task[k].obj # NoObject /\ object'[task[k].obj] # None
                      /\ object'[task[k].obj].busy
                      /\ registry'[object'[task[k].obj].name] = task[k].obj
    BY DEF Held, Live
  <2>1. task[k].obj \in Objects /\ object[task[k].obj] \in Object
        /\ object[task[k].obj] # None /\ object[task[k].obj].busy
        /\ task[k].obj # NoObject /\ registry[object[task[k].obj].name] = task[k].obj
    BY LiveObject DEF IInv, Held
  <2>2. task[k].obj # o /\ object[task[k].obj].name \in Names /\ object[task[k].obj].name # n
    BY <2>1 DEF Object
  <2>3. QED
    BY <1>1, <2>1, <2>2
<1>4. OneEach'
  BY DEF IInv, OneEach, Live
<1>5. Issued'
  BY <1>1 DEF IInv, Issued
<1>6. Saving' /\ OneSave'
  <2>1. \A w \in writes : w.by # "load" => w.obj # NoObject /\ object'[w.obj] # None
    BY <1>1 DEF IInv, TypeOK, Saving, Write
  <2>2. Saving'
    BY <2>1 DEF IInv, Saving
  <2>3. QED
    BY <2>2 DEF IInv, OneSave
<1>7. Attached'
  BY <1>1, AttachedObject DEF IInv, Attached
<1>8. QED
  BY <1>2, <1>3, <1>4, <1>5, <1>6, <1>7 DEF IInv

LEMMA FirstUnused == ASSUME NEW o \in Objects, Unused(o) PROVE object[o] = None
BY DEF Unused

LEMMA NewSessionInv ==
  ASSUME IInv, NEW n \in Names, NEW o \in Objects, NewSession(n, o) PROVE IInv'
<1>1. Blank(n) \in Object /\ Blank(n).name = n /\ object[o] = None
  BY BlankType, FirstUnused DEF NewSession
<1>2. TypeOK'
  <2>1. registry' \in [Names -> Objects \union {NoObject}] /\ issued' \subseteq Names
    BY DEF IInv, TypeOK, NewSession
  <2>2. object' \in [Objects -> Object \union {None}]
    BY <1>1 DEF IInv, TypeOK, NewSession
  <2>3. QED
    BY <2>1, <2>2 DEF IInv, TypeOK, NewSession, store, history
<1>3. registry[n] = NoObject
  <2>1. n \notin issued
    BY DEF NewSession
  <2>2. ASSUME registry[n] # NoObject PROVE FALSE
    BY <2>1, <2>2 DEF IInv, TypeOK, Named, Issued
  <2>3. QED
    BY <2>2
<1>4. \A w \in writes' : w.by # "load"
  BY DEF NewSession, RegistryFree
<1>5. QED
  BY <1>1, <1>2, <1>3, <1>4, Register DEF IInv, Issued, NewSession, store

LEMMA LoadSessionInv ==
  ASSUME IInv, NEW n \in Names, NEW o \in Objects, LoadSession(n, o) PROVE IInv'
<1>1. file[n] \in Documents /\ object[o] = None
  BY FirstUnused DEF IInv, TypeOK, LoadSession
<1>2. Loaded(n, file[n]) \in Object /\ Loaded(n, file[n]).name = n
  BY <1>1, LoadedType
<1>3. TypeOK'
  <2>1. registry' \in [Names -> Objects \union {NoObject}]
    BY DEF IInv, TypeOK, LoadSession
  <2>2. object' \in [Objects -> Object \union {None}]
    BY <1>2 DEF IInv, TypeOK, LoadSession
  <2>3. QED
    BY <2>1, <2>2 DEF IInv, TypeOK, LoadSession, store, history
<1>4. \A w \in writes' : w.by # "load"
  BY DEF LoadSession, RegistryFree
<1>5. n \in issued
  BY DEF IInv, Issued, LoadSession
<1>6. QED
  BY <1>1, <1>2, <1>3, <1>4, <1>5, Register DEF IInv, Issued, LoadSession, store

LEMMA LoadInterruptedInv == ASSUME IInv, NEW n \in Names, LoadInterrupted(n) PROVE IInv'
<1> DEFINE w == [name |-> n, obj |-> NoObject, by |-> "load", task |-> 0, made |-> FALSE,
                 document |-> [file[n] EXCEPT !.mark = "interrupted"]]
<1>1. w \in Write
  <2>1. file[n] \in Documents
    BY DEF IInv, TypeOK, LoadInterrupted
  <2>2. [file[n] EXCEPT !.mark = "interrupted"] \in Documents
    BY <2>1 DEF Documents, Marks
  <2>3. 0 \in 0 .. MaxTasks
    BY Constants
  <2>4. QED
    BY <2>2, <2>3 DEF Write, Savers
<1>2. writes' = writes \union {w} /\ registry[n] = NoObject /\ n \in issued
  BY DEF LoadInterrupted, IInv, Issued
<1>3. w.by = "load" /\ w.name = n /\ w.obj = NoObject
  OBVIOUS
<1> HIDE DEF w
<1>4. TypeOK'
  BY <1>1, <1>2 DEF IInv, TypeOK, LoadInterrupted, shared, store, history
<1>5. Gentle /\ TerminalsStay
  BY DEF Gentle, SameSession, TerminalsStay, Live, LoadInterrupted, shared, store
<1>6. Named' /\ Held' /\ OneEach' /\ Attached'
  BY <1>5, GentleKeeps, GentleAttached
<1>7. Issued' /\ Saving'
  BY <1>2, <1>3 DEF IInv, Issued, Saving, LoadInterrupted, shared, store
<1>8. OneSave'
  <2>1. \A v \in writes : v.by # "load" /\ v.obj # NoObject
    BY DEF LoadInterrupted, RegistryFree, IInv, Saving
  <2>2. QED
    BY <1>2, <1>3, <2>1 DEF IInv, OneSave
<1>9. QED
  BY <1>4, <1>6, <1>7, <1>8 DEF IInv

\* Idle sessions leave the registry, and files are removed.
LEMMA Unregister ==
  ASSUME IInv, TypeOK', UNCHANGED <<object, task, terminal, writes, issued>>, RegistryFree,
         \A n \in Names : \/ registry'[n] = registry[n]
                          \/ registry'[n] = NoObject /\ ~ object[registry[n]].busy
                          \/ registry'[n] = NoObject /\ registry[n] = NoObject,
         \A n \in Names : file'[n] # None => file[n] # None
  PROVE  IInv'
<1>1. Named' /\ OneEach' /\ Issued' /\ OneSave' /\ Attached'
  BY DEF IInv, TypeOK, Named, OneEach, Issued, OneSave, Attached, Live
<1>2. Held'
  <2> SUFFICES ASSUME NEW k \in Tasks, Live(k)
               PROVE  registry'[object[task[k].obj].name] = task[k].obj
    BY DEF IInv, Held, Live
  <2>1. object[task[k].obj].name \in Names /\ task[k].obj # NoObject
        /\ object[task[k].obj].busy /\ registry[object[task[k].obj].name] = task[k].obj
    BY LiveObject DEF IInv, Held, Object
  <2>2. QED
    BY <2>1
<1>3. Saving'
  BY DEF IInv, Saving, RegistryFree
<1>4. QED
  BY <1>1, <1>2, <1>3 DEF IInv

LEMMA DeleteSessionInv == ASSUME IInv, NEW n \in Names, DeleteSession(n) PROVE IInv'
<1>1. TypeOK'
  BY DEF IInv, TypeOK, DeleteSession
<1>2. \A m \in Names : \/ registry'[m] = registry[m]
                       \/ registry'[m] = NoObject /\ ~ object[registry[m]].busy
                       \/ registry'[m] = NoObject /\ registry[m] = NoObject
  <2> SUFFICES ASSUME NEW m \in Names
               PROVE  \/ registry'[m] = registry[m]
                      \/ registry'[m] = NoObject /\ ~ object[registry[m]].busy
                      \/ registry'[m] = NoObject /\ registry[m] = NoObject
    OBVIOUS
  <2>1. registry'[n] = NoObject /\ (m # n => registry'[m] = registry[m])
    BY DEF IInv, TypeOK, DeleteSession
  <2>2. registry[n] # NoObject => ~ object[registry[n]].busy
    BY Zenon DEF DeleteSession, InUse
  <2>3. QED
    BY <2>1, <2>2, Zenon
<1>3. \A m \in Names : file'[m] # None => file[m] # None
  BY DEF IInv, TypeOK, DeleteSession
<1>4. QED
  BY <1>1, <1>2, <1>3, Unregister DEF DeleteSession

LEMMA DeleteAllInv == ASSUME IInv, DeleteAll PROVE IInv'
<1>1. PICK gone \in SUBSET {n \in Names : file[n] # None} :
        /\ file' = [n \in Names |-> IF n \in gone THEN None ELSE file[n]]
        /\ \/ registry' = [n \in Names |-> NoObject] /\ deleted' = deleted \union gone \union Registered
           \/ deleted' = deleted \union gone /\ UNCHANGED registry
  BY DEF DeleteAll
<1>2. TypeOK'
  <2>1. registry' \in [Names -> Objects \union {NoObject}] /\ deleted' \subseteq Names
    BY <1>1 DEF IInv, TypeOK, Registered
  <2>2. file' \in [Names -> Documents \union {None}]
    BY <1>1 DEF IInv, TypeOK
  <2>3. QED
    BY <2>1, <2>2 DEF IInv, TypeOK, DeleteAll
<1>3. \A m \in Names : \/ registry'[m] = registry[m]
                       \/ registry'[m] = NoObject /\ ~ object[registry[m]].busy
                       \/ registry'[m] = NoObject /\ registry[m] = NoObject
  <2> SUFFICES ASSUME NEW m \in Names
               PROVE  \/ registry'[m] = registry[m]
                      \/ registry'[m] = NoObject /\ ~ object[registry[m]].busy
                      \/ registry'[m] = NoObject /\ registry[m] = NoObject
    OBVIOUS
  <2>1. registry'[m] = registry[m] \/ registry'[m] = NoObject
    BY <1>1
  <2>2. registry[m] # NoObject => m \in Registered
    BY DEF Registered
  <2>3. registry[m] # NoObject => ~ object[registry[m]].busy
    BY <2>2, Zenon DEF DeleteAll, InUse
  <2>4. QED
    BY <2>1, <2>3, Zenon
<1>4. \A m \in Names : file'[m] # None => file[m] # None
  BY <1>1
<1>5. QED
  BY <1>2, <1>3, <1>4, Unregister DEF DeleteAll

----------------------------------------------------------------------------
(* Saves *)

LEMMA MakeTemporaryInv == ASSUME IInv, NEW w \in writes, MakeTemporary(w) PROVE IInv'
<1> DEFINE made == [w EXCEPT !.made = TRUE]
<1>1. w \in Write /\ made \in Write
  BY DEF IInv, TypeOK, Write
<1>2. /\ made.name = w.name /\ made.obj = w.obj /\ made.by = w.by /\ made.task = w.task
  BY <1>1 DEF Write
<1>3. writes' = (writes \ {w}) \union {made}
  BY DEF MakeTemporary
<1> HIDE DEF made
<1>4. TypeOK'
  BY <1>1, <1>2, <1>3 DEF IInv, TypeOK, MakeTemporary, shared, history, Write
<1>5. Gentle /\ TerminalsStay
  BY DEF Gentle, SameSession, TerminalsStay, Live, MakeTemporary, shared
<1>6. Named' /\ Held' /\ OneEach' /\ Attached'
  BY <1>5, GentleKeeps, GentleAttached
<1>7. Issued' /\ Saving'
  BY <1>2, <1>3 DEF IInv, Issued, Saving, MakeTemporary, shared
<1>8. OneSave'
  BY <1>2, <1>3 DEF IInv, OneSave
<1>9. QED
  BY <1>4, <1>6, <1>7, <1>8 DEF IInv

\* What a task's save leads to: its own object and its own program counter change,
\* and the object is freed only if the task is over.
Settles(k, o) ==
  /\ task' \in [Tasks -> Task] /\ task'[k].obj = o
  /\ \A j \in Tasks : j # k => task'[j] = task[j]
  /\ object' \in [Objects -> Object \union {None}]
  /\ object'[o] \in Object /\ object'[o].name = object[o].name
  /\ object'[o].busy = object[o].busy \/ task'[k].pc = "over"
  /\ \A p \in Objects : p # o => object'[p] = object[p]

\* The task whose save a write is.
LEMMA Saver ==
  ASSUME IInv, NEW w \in writes, w.by = "task"
  PROVE  /\ w.task \in Tasks /\ task[w.task].obj = w.obj /\ task[w.task].pc \in SavePoints
         /\ Live(w.task) /\ w.obj \in Objects /\ object[w.obj] \in Object /\ w.name \in Names
<1>1. w.task \in Tasks /\ task[w.task].obj = w.obj /\ task[w.task].pc \in SavePoints
  BY DEF IInv, Saving
<1>2. Live(w.task)
  BY <1>1 DEF Live, SavePoints
<1>3. w.name \in Names
  BY DEF IInv, TypeOK, Write
<1>4. QED
  BY <1>1, <1>2, <1>3, LiveObject

LEMMA SettlesInv ==
  ASSUME IInv, TypeOK', NEW w \in writes, w.by = "task", writes' = writes \ {w},
         Settles(w.task, w.obj), UNCHANGED <<registry, terminal, issued>>,
         \A n \in Names : file'[n] # None => n \in issued
  PROVE  IInv'
<1> DEFINE k == w.task
           o == w.obj
<1>1. k \in Tasks /\ task[k].obj = o /\ Live(k) /\ o \in Objects /\ object[o] \in Object
  BY Saver
<1>2. /\ task'[k].obj = o /\ \A j \in Tasks : j # k => task'[j] = task[j]
      /\ object'[o] \in Object /\ object'[o].name = object[o].name
      /\ object'[o].busy = object[o].busy \/ task'[k].pc = "over"
      /\ \A p \in Objects : p # o => object'[p] = object[p]
  BY DEF Settles
<1> HIDE DEF k, o
<1>3. \A p \in Objects : /\ object[p] = None <=> object'[p] = None
                         /\ object[p] # None => object'[p].name = object[p].name
  BY <1>1, <1>2, NoneAssumption
<1>4. Named'
  BY <1>3 DEF IInv, TypeOK, Named
<1>5. Held'
  <2> SUFFICES ASSUME NEW j \in Tasks, Live(j)'
               PROVE  /\ task'[j].obj # NoObject /\ object'[task'[j].obj] # None
                      /\ object'[task'[j].obj].busy
                      /\ registry[object'[task'[j].obj].name] = task'[j].obj
    BY DEF Held
  <2>1. CASE j = k
    <3>1. object'[o].busy = object[o].busy
      BY <1>2, <2>1 DEF Live
    <3>2. object[o].busy /\ o # NoObject /\ registry[object[o].name] = o
      BY <1>1 DEF IInv, Held
    <3>3. task'[j].obj = o /\ object'[o] # None /\ object'[o].name = object[o].name
      BY <1>2, <2>1, NoneAssumption
    <3>4. QED
      BY <3>1, <3>2, <3>3
  <2>2. CASE j # k
    <3>1. Live(j) /\ task'[j] = task[j]
      BY <1>2, <2>2 DEF Live
    <3>2. task[j].obj \in Objects /\ task[j].obj # o
      BY <1>1, <2>2, <3>1, LiveObject DEF IInv, OneEach
    <3>3. QED
      BY <1>2, <3>1, <3>2 DEF IInv, Held
  <2>3. QED
    BY <2>1, <2>2
<1>6. OneEach'
  BY <1>1, <1>2 DEF IInv, OneEach, Live
<1>7. Issued'
  BY <1>3 DEF IInv, Issued
<1>8. Saving'
  <2> SUFFICES ASSUME NEW v \in writes, v # w
               PROVE  /\ v.by = "load" => registry[v.name] = NoObject /\ v.obj = NoObject
                      /\ v.by # "load" => v.obj # NoObject /\ object'[v.obj] # None
                      /\ v.by = "task" => v.task \in Tasks /\ task'[v.task].obj = v.obj
                                          /\ task'[v.task].pc \in SavePoints
    BY DEF Saving
  <2>1. v.by # "load" => v.obj # NoObject /\ object'[v.obj] # None
    BY <1>3 DEF IInv, TypeOK, Saving, Write
  <2>2. v.by = "task" => v.task # k
    BY <1>1 DEF IInv, Saving, OneSave, o
  <2>3. QED
    BY <1>2, <2>1, <2>2 DEF IInv, Saving
<1>9. OneSave'
  BY DEF IInv, OneSave
<1>10. Attached'
  BY <1>3, AttachedObject DEF IInv, Attached
<1>11. QED
  BY <1>4, <1>5, <1>6, <1>7, <1>8, <1>9, <1>10 DEF IInv

\* Each case of AfterSave of a task's save.
LEMMA AfterTaskSave ==
  ASSUME IInv, NEW w \in writes, w.by = "task", NEW saved \in BOOLEAN, AfterSave(w, saved)
  PROVE  /\ Settles(w.task, w.obj) /\ UNCHANGED <<registry, terminal>>
         /\ answered' \in [Names -> 0 .. MaxTasks]
<1> DEFINE k == w.task
           o == w.obj
<1>1. /\ k \in Tasks /\ task[k].obj = o /\ task[k].pc \in SavePoints
      /\ o \in Objects /\ object[o] \in Object /\ w.name \in Names
  BY Saver
<1>2. UNCHANGED <<registry, terminal>>
      /\ answered' = IF At(k, "answered") /\ saved THEN [answered EXCEPT ![w.name] = k] ELSE answered
  BY DEF AfterSave
<1>3. answered' \in [Names -> 0 .. MaxTasks]
  <2>1. k \in 0 .. MaxTasks
    BY <1>1, Constants DEF Tasks
  <2>2. QED
    BY <1>1, <1>2, <2>1 DEF IInv, TypeOK
<1>4. ASSUME NEW pc \in PC, Goto(k, pc), UNCHANGED object PROVE Settles(k, o)
  <2>1. /\ task' \in [Tasks -> Task] /\ task'[k].obj = o /\ task'[k].pc = pc
        /\ \A j \in Tasks : j # k => task'[j] = task[j]
    BY <1>1, <1>4, TaskGoes
  <2>2. object \in [Objects -> Object \union {None}]
    BY ObjectsType
  <2>3. QED
    BY <1>1, <1>4, <2>1, <2>2 DEF Settles
<1>5. ASSUME NEW titling \in {"no", "due", "asked", "given"}, EndTask(k, o, titling)
      PROVE  Settles(k, o)
  <2>1. /\ task' \in [Tasks -> Task] /\ task'[k].obj = o /\ task'[k].pc = "over"
        /\ \A j \in Tasks : j # k => task'[j] = task[j]
    BY <1>1, <1>5, TasksType DEF EndTask, Goto, Task, PC
  <2>2. /\ object' \in [Objects -> Object \union {None}]
        /\ object'[o] \in Object /\ object'[o].name = object[o].name
        /\ \A p \in Objects : p # o => object'[p] = object[p]
    <3> DEFINE now == [object[o] EXCEPT !.busy = FALSE, !.asker = None, !.titling = titling]
    <3>1. now \in Object /\ now.name = object[o].name
      BY <1>1, <1>5 DEF Object
    <3>2. object \in [Objects -> Object \union {None}]
      BY ObjectsType
    <3>3. object' = [object EXCEPT ![o] = now]
      BY <1>1, <1>5, <3>2 DEF EndTask
    <3> HIDE DEF now
    <3>4. QED
      BY <1>1, <3>1, <3>2, <3>3
  <2>3. QED
    BY <2>1, <2>2 DEF Settles
<1>6. object[o].titling \in {"no", "due", "asked", "given"}
  BY <1>1 DEF Object
<1>7. CASE At(k, "accepted")
  <2>1. CASE saved
    <3>1. Goto(k, "ready") /\ UNCHANGED object
      BY <1>7, <2>1 DEF AfterSave, At
    <3>2. QED
      BY <1>2, <1>3, <1>4, <3>1 DEF PC
  <2>2. CASE ~ saved
    <3>1. Goto(k, "over") /\ object' = [object EXCEPT ![o].busy = FALSE, ![o].mark = None]
      BY <1>7, <2>2 DEF AfterSave, At
    <3>2. /\ task' \in [Tasks -> Task] /\ task'[k].obj = o /\ task'[k].pc = "over"
          /\ \A j \in Tasks : j # k => task'[j] = task[j]
      BY <1>1, <3>1, TasksType DEF Goto, Task, PC
    <3>3. /\ object' \in [Objects -> Object \union {None}]
          /\ object'[o] \in Object /\ object'[o].name = object[o].name
          /\ \A p \in Objects : p # o => object'[p] = object[p]
      BY <1>1, <3>1 DEF IInv, TypeOK, Object
    <3>4. QED
      BY <1>2, <1>3, <3>2, <3>3 DEF Settles
  <2>3. QED
    BY <1>2, <1>3, <2>1, <2>2
<1>8. CASE At(k, "asking")
  <2>1. Goto(k, "waiting") /\ UNCHANGED object
    BY <1>8 DEF AfterSave, At
  <2>2. QED
    BY <1>2, <1>3, <1>4, <2>1 DEF PC
<1>9. CASE At(k, "answered")
  <2>1. CASE saved
    <3>1. Goto(k, "clearing") /\ object' = [object EXCEPT ![o].mark = None]
      BY <1>9, <2>1 DEF AfterSave, At
    <3>2. task' \in [Tasks -> Task] /\ task'[k].obj = o
          /\ \A j \in Tasks : j # k => task'[j] = task[j]
      BY <1>1, <3>1, TasksType DEF Goto, Task, PC
    <3>3. Mild(o)
      BY <1>1, <3>1 DEF IInv, TypeOK, Mild, Object
    <3>4. QED
      BY <1>2, <1>3, <3>2, <3>3 DEF Settles, Mild
  <2>2. CASE ~ saved
    <3>1. Fail(k)
      BY <1>9, <2>2 DEF AfterSave, At
    <3>2. task' \in [Tasks -> Task] /\ task'[k].obj = o
          /\ \A j \in Tasks : j # k => task'[j] = task[j]
      BY <1>1, <3>1, TasksType DEF Fail, Task, PC, Reply
    <3>3. Mild(o)
      <4>1. object' = [object EXCEPT ![o].titling = IF @ = "due" THEN "no" ELSE @,
                                     ![o].mark = IF object[o].cancel THEN "cancelled" ELSE "failed"]
        BY <1>1, <3>1 DEF Fail
      <4>2. QED
        BY <1>1, <4>1, ObjectsType DEF Mild, Object, Marks
    <3>4. QED
      BY <1>2, <1>3, <3>2, <3>3 DEF Settles, Mild
  <2>3. QED
    BY <1>2, <1>3, <2>1, <2>2
<1>10. CASE At(k, "clearing")
  <2>1. EndTask(k, o, IF object[o].titling # "due" THEN object[o].titling
                      ELSE IF object[o].cancel THEN "no" ELSE "asked")
    BY <1>10 DEF AfterSave, At
  <2>2. QED
    BY <1>2, <1>3, <1>5, <1>6, <2>1
<1>11. CASE At(k, "failed")
  <2>1. EndTask(k, o, object[o].titling)
    BY <1>11 DEF AfterSave, At
  <2>2. QED
    BY <1>2, <1>3, <1>5, <1>6, <2>1
<1>12. QED
  BY <1>1, <1>7, <1>8, <1>9, <1>10, <1>11 DEF At, SavePoints

\* The other saves: a title is kept, a loaded session registered, or nothing.
LEMMA AfterOtherSave ==
  ASSUME IInv, NEW w \in writes, w.by # "task", NEW saved \in BOOLEAN, AfterSave(w, saved),
         writes' = writes \ {w}, UNCHANGED <<issued, starts, deleted>>, temporary' \subseteq Names,
         file' \in [Names -> Documents \union {None}],
         \A n \in Names : file'[n] # None => n \in issued
  PROVE  IInv'
<1>1. w \in Write /\ w.name \in issued /\ UNCHANGED <<task, terminal, answered>>
  BY DEF IInv, TypeOK, Issued, AfterSave
<1>2. ASSUME registry' \in [Names -> Objects \union {NoObject}],
             object' \in [Objects -> Object \union {None}]
      PROVE  TypeOK'
  BY <1>1, <1>2 DEF IInv, TypeOK
<1>3. ASSUME UNCHANGED registry, \A o \in Objects : SameSession(o),
             object' \in [Objects -> Object \union {None}]
      PROVE  IInv'
  <2>1. TypeOK'
    BY <1>2, <1>3 DEF IInv, TypeOK
  <2>2. Named'
    BY <1>3 DEF IInv, TypeOK, Named, SameSession
  <2>3. Held'
    <3> SUFFICES ASSUME NEW k \in Tasks, Live(k)
                 PROVE  /\ task[k].obj # NoObject /\ object'[task[k].obj] # None
                        /\ object'[task[k].obj].busy
                        /\ registry[object'[task[k].obj].name] = task[k].obj
      BY <1>1, <1>3 DEF Held, Live
    <3>1. QED
      BY <1>3, LiveObject DEF IInv, Held, SameSession
  <2>4. OneEach'
    BY <1>1 DEF IInv, OneEach, Live
  <2>5. Issued'
    BY <1>3, NoneAssumption DEF IInv, Issued, SameSession
  <2>6. Saving'
    <3> SUFFICES ASSUME NEW v \in writes, v # w
                 PROVE  /\ v.by = "load" => registry[v.name] = NoObject /\ v.obj = NoObject
                        /\ v.by # "load" => v.obj # NoObject /\ object'[v.obj] # None
                        /\ v.by = "task" => v.task \in Tasks /\ task[v.task].obj = v.obj
                                            /\ task[v.task].pc \in SavePoints
      BY <1>1, <1>3 DEF Saving
    <3>1. v.by # "load" => v.obj \in Objects /\ object[v.obj] # None /\ v.obj # NoObject
      BY Constants DEF IInv, TypeOK, Saving, Write, Objects, NoObject
    <3>2. QED
      BY <1>3, <3>1 DEF IInv, Saving, SameSession
  <2>7. OneSave'
    BY DEF IInv, OneSave
  <2>8. Attached'
    BY <1>1, <1>3, AttachedObject DEF IInv, Attached, SameSession
  <2>9. QED
    BY <2>1, <2>2, <2>3, <2>4, <2>5, <2>6, <2>7, <2>8 DEF IInv
<1>4. CASE w.by = "title" /\ saved
  <2>1. object' = [object EXCEPT ![w.obj].title = TRUE] /\ UNCHANGED registry
    BY <1>4 DEF AfterSave
  <2>2. w.obj \in Objects /\ object[w.obj] \in Object
    BY <1>1, <1>4 DEF IInv, TypeOK, Saving, Write
  <2>3. Mild(w.obj)
    BY <2>1, <2>2 DEF IInv, TypeOK, Mild, Object
  <2>4. QED
    BY <1>3, <2>1, <2>2, <2>3, MildKeeps DEF Mild
<1>5. CASE w.by = "load" /\ saved
  <2>1. PICK o \in Objects :
          /\ Unused(o)
          /\ object' = [object EXCEPT ![o] = Loaded(w.name, w.document)]
          /\ registry' = [registry EXCEPT ![w.name] = o]
    BY <1>5 DEF AfterSave
  <2>2. w.name \in Names /\ w.document \in Documents
    BY <1>1 DEF Write
  <2>3. Loaded(w.name, w.document) \in Object /\ Loaded(w.name, w.document).name = w.name
    BY <2>2, LoadedType
  <2>4. TypeOK'
    BY <1>2, <2>1, <2>2, <2>3 DEF IInv, TypeOK
  <2>5. object[o] = None /\ registry[w.name] = NoObject
    BY <1>5, <2>1, FirstUnused DEF IInv, Saving
  <2>6. \A v \in writes' : v.by # "load"
    <3>1. ASSUME NEW v \in writes, v.by = "load" PROVE v = w
      <4>1. v.obj = NoObject /\ w.obj = NoObject
        BY <1>5, <3>1 DEF IInv, Saving
      <4>2. QED
        BY <1>5, <3>1, <4>1 DEF IInv, OneSave
    <3>2. QED
      BY <3>1
  <2>7. QED
    BY <1>1, <2>1, <2>2, <2>3, <2>4, <2>5, <2>6, Register
<1>6. CASE ~ (w.by = "title" /\ saved) /\ ~ (w.by = "load" /\ saved)
  <2>1. UNCHANGED <<object, registry>>
    BY <1>6 DEF AfterSave
  <2>2. \A o \in Objects : SameSession(o)
    BY <2>1 DEF SameSession
  <2>3. QED
    BY <1>3, <2>1, <2>2 DEF IInv, TypeOK
<1>7. QED
  BY <1>4, <1>5, <1>6

LEMMA AfterSaveInv ==
  ASSUME IInv, NEW w \in writes, NEW saved \in BOOLEAN, AfterSave(w, saved),
         writes' = writes \ {w}, UNCHANGED <<issued, starts, deleted>>, temporary' \subseteq Names,
         file' \in [Names -> Documents \union {None}],
         \A n \in Names : file'[n] # None => n \in issued
  PROVE  IInv'
<1>1. CASE w.by = "task"
  <2>1. /\ Settles(w.task, w.obj) /\ UNCHANGED <<registry, terminal>>
        /\ answered' \in [Names -> 0 .. MaxTasks]
    BY <1>1, AfterTaskSave
  <2>2. TypeOK'
    BY <2>1 DEF IInv, TypeOK, Settles
  <2>3. QED
    BY <1>1, <2>1, <2>2, SettlesInv
<1>2. CASE w.by # "task"
  BY <1>2, AfterOtherSave
<1>3. QED
  BY <1>1, <1>2

LEMMA RenameTemporaryInv == ASSUME IInv, NEW w \in writes, RenameTemporary(w) PROVE IInv'
<1>1. w.name \in Names /\ w.document \in Documents /\ w.name \in issued
  BY DEF IInv, TypeOK, Write, Issued
<1>2. /\ temporary' \subseteq Names /\ file' \in [Names -> Documents \union {None}]
      /\ \A n \in Names : file'[n] # None => n \in issued
  BY <1>1 DEF IInv, TypeOK, Issued, RenameTemporary
<1>3. QED
  BY <1>2, AfterSaveInv DEF RenameTemporary

LEMMA FailSaveInv == ASSUME IInv, NEW w \in writes, FailSave(w) PROVE IInv'
<1>1. /\ temporary' \subseteq Names /\ file' \in [Names -> Documents \union {None}]
      /\ \A n \in Names : file'[n] # None => n \in issued
  BY DEF IInv, TypeOK, Issued, FailSave
<1>2. QED
  BY <1>1, AfterSaveInv DEF FailSave

----------------------------------------------------------------------------
(* Terminals, and the restart of the server *)

\* Only a terminal changes, and it stays with its session or is closed.
LEMMA TerminalInv ==
  ASSUME IInv, UNCHANGED <<shared, object, task, writes, store, starts, history>>,
         terminal' \in [Terminals -> Terminal], TerminalsStay
  PROVE  IInv'
<1>1. TypeOK'
  BY TypeKept DEF IInv, TypeOK, shared, store, history
<1>2. Gentle /\ SavesStay
  BY DEF Gentle, SameSession, SavesStay, Live, shared, store
<1>3. QED
  BY <1>1, <1>2, GentleInv

LEMMA UpgradeTerminalInv ==
  ASSUME IInv, NEW t \in Terminals, NEW n \in Names, UpgradeTerminal(t, n) PROVE IInv'
<1>1. registry[n] \in Objects /\ object[registry[n]] # None /\ registry[n] # NoObject
  BY RegisteredObject DEF UpgradeTerminal, IInv, Named
<1>2. /\ terminal' \in [Terminals -> Terminal] /\ terminal'[t].obj = registry[n]
      /\ \A u \in Terminals : u # t => terminal'[u] = terminal[u]
  BY <1>1 DEF IInv, TypeOK, UpgradeTerminal, Terminal, Reply
<1>3. TypeOK'
  BY <1>2, TypeKept DEF IInv, TypeOK, UpgradeTerminal, shared, store, history
<1>4. Gentle /\ SavesStay
  BY DEF Gentle, SameSession, SavesStay, Live, UpgradeTerminal, shared, store
<1>5. Attached'
  BY <1>1, <1>2 DEF IInv, Attached, UpgradeTerminal
<1>6. QED
  BY <1>3, <1>4, <1>5, GentleKeeps, GentleSaves DEF IInv, UpgradeTerminal

LEMMA ConnectTerminalInv == ASSUME IInv, NEW t \in Terminals, ConnectTerminal(t) PROVE IInv'
<1>1. terminal' \in [Terminals -> Terminal] /\ TerminalsStay
  BY DEF IInv, TypeOK, ConnectTerminal, Terminal, TerminalsStay
<1>2. QED
  BY <1>1, TerminalInv DEF ConnectTerminal

LEMMA CloseTerminalInv == ASSUME IInv, NEW t \in Terminals, CloseTerminal(t) PROVE IInv'
<1>1. terminal' \in [Terminals -> Terminal] /\ TerminalsStay
  BY DEF IInv, TypeOK, CloseTerminal, Terminal, Reply, TerminalsStay
<1>2. QED
  BY <1>1, TerminalInv DEF CloseTerminal

LEMMA CheckTerminalInv == ASSUME IInv, NEW t \in Terminals, CheckTerminal(t) PROVE IInv'
<1>1. terminal' \in [Terminals -> Terminal] /\ TerminalsStay
  BY DEF IInv, TypeOK, CheckTerminal, Terminal, TerminalsStay
<1>2. QED
  BY <1>1, TerminalInv DEF CheckTerminal

\* A terminal and its session's dialog change.
LEMMA TerminalDialogInv ==
  ASSUME IInv, UNCHANGED <<shared, task, writes, store, starts, history>>,
         terminal' \in [Terminals -> Terminal], TerminalsStay,
         NEW o \in Objects, object[o] \in Object, Mild(o)
  PROVE  IInv'
<1>1. TypeOK'
  BY TypeKept DEF IInv, TypeOK, shared, store, history, Mild
<1>2. Gentle /\ SavesStay
  <2>1. \A k \in Tasks : task'[k].obj = task[k].obj /\ (Live(k)' => Live(k))
    BY DEF Live
  <2>2. QED
    BY <2>1, MildKeeps DEF Gentle, SavesStay, shared, store
<1>3. QED
  BY <1>1, <1>2, GentleInv

LEMMA AskTerminalInv == ASSUME IInv, NEW t \in Terminals, AskTerminal(t) PROVE IInv'
<1>1. terminal[t].obj \in Objects /\ object[terminal[t].obj] \in Object
  BY AttachedObject DEF AskTerminal
<1>2. terminal' \in [Terminals -> Terminal] /\ TerminalsStay
  BY DEF IInv, TypeOK, AskTerminal, Terminal, Reply, TerminalsStay
<1>3. Mild(terminal[t].obj)
  BY <1>1 DEF IInv, TypeOK, AskTerminal, Mild, Object
<1>4. QED
  BY <1>1, <1>2, <1>3, TerminalDialogInv DEF AskTerminal

LEMMA WaitTerminalInv == ASSUME IInv, NEW t \in Terminals, WaitTerminal(t) PROVE IInv'
<1>1. terminal[t].obj \in Objects /\ object[terminal[t].obj] \in Object
  BY AttachedObject DEF WaitTerminal
<1>2. terminal' \in [Terminals -> Terminal] /\ TerminalsStay
  <2>1. terminal' = [terminal EXCEPT ![t].pc = "open", ![t].reply = "none"]
        /\ terminal[t].pc = "asking"
    BY DEF WaitTerminal
  <2> DEFINE r == [terminal[t] EXCEPT !.pc = "open", !.reply = "none"]
  <2>2. terminal \in [Terminals -> Terminal] /\ terminal[t] \in Terminal
    BY DEF IInv, TypeOK
  <2>3. r \in Terminal /\ r.obj = terminal[t].obj
    BY <2>2 DEF Terminal, Reply
  <2>4. terminal' = [terminal EXCEPT ![t] = r]
    BY <2>1, <2>2 DEF Terminal
  <2> HIDE DEF r
  <2>5. terminal' \in [Terminals -> Terminal]
    BY <2>2, <2>3, <2>4
  <2>6. TerminalsStay
    BY <2>1, <2>2, <2>3, <2>4 DEF TerminalsStay
  <2>7. QED
    BY <2>5, <2>6
<1>3. CASE UNCHANGED object
  BY <1>2, <1>3, TerminalInv DEF WaitTerminal
<1>4. CASE object' = [object EXCEPT ![terminal[t].obj].asker = None]
  <2>1. Mild(terminal[t].obj)
    BY <1>1, <1>4 DEF IInv, TypeOK, Mild, Object
  <2>2. QED
    BY <1>1, <1>2, <2>1, TerminalDialogInv DEF WaitTerminal
<1>5. QED
  BY <1>3, <1>4 DEF WaitTerminal

LEMMA RestartInv == ASSUME IInv, NEW n \in Names, Restart(n) PROVE IInv'
<1>1. 1 \in Objects
  BY FirstObject
<1>2. Blank(n) \in Object /\ Blank(n).name = n
  BY BlankType
<1>3. TypeOK'
  <2>1. registry' \in [Names -> Objects \union {NoObject}] /\ issued' \subseteq Names
    BY <1>1 DEF IInv, TypeOK, Restart
  <2>2. object' \in [Objects -> Object \union {None}]
    BY <1>2 DEF Restart
  <2>3. task' \in [Tasks -> Task]
    BY DEF IInv, TypeOK, Restart, Task, PC, Reply
  <2>4. terminal' \in [Terminals -> Terminal]
    BY DEF Restart, Terminal, Reply
  <2>5. starts' \in 1 .. MaxStarts
    BY Constants DEF IInv, TypeOK, Restart
  <2>6. QED
    BY <2>1, <2>2, <2>3, <2>4, <2>5 DEF IInv, TypeOK, Restart, store, history
<1>4. \A k \in Tasks : ~ Live(k)'
  BY DEF Restart, Live, At
<1>5. Named'
  BY <1>1, <1>2, NoneAssumption DEF Named, Restart
<1>6. Held' /\ OneEach' /\ Saving' /\ OneSave' /\ Attached'
  BY <1>4 DEF Held, OneEach, Saving, OneSave, Attached, Restart
<1>7. Issued'
  BY <1>2 DEF IInv, Issued, Restart, store
<1>8. QED
  BY <1>3, <1>5, <1>6, <1>7 DEF IInv

----------------------------------------------------------------------------
LEMMA InitInv == Init => IInv
<1> SUFFICES ASSUME NEW n \in Names, First(n) PROVE IInv
  BY DEF Init, First
<1>1. 1 \in Objects /\ 1 \in 1 .. MaxStarts
  BY FirstObject
<1>2. Blank(n) \in Object /\ Blank(n).name = n
  BY BlankType
<1>3. TypeOK
  <2>1. registry \in [Names -> Objects \union {NoObject}] /\ object \in [Objects -> Object \union {None}]
    BY <1>1, <1>2 DEF First
  <2>2. task \in [Tasks -> Task] /\ terminal \in [Terminals -> Terminal]
    BY DEF First, Task, Terminal, PC, Reply
  <2>3. answered \in [Names -> 0 .. MaxTasks]
    BY Constants DEF First
  <2>4. QED
    BY <1>1, <2>1, <2>2, <2>3 DEF First, TypeOK
<1>4. \A k \in Tasks : ~ Live(k)
  BY DEF First, Live
<1>5. Named
  BY <1>1, <1>2, NoneAssumption DEF Named, First
<1>6. Held /\ OneEach /\ Saving /\ OneSave /\ Attached
  BY <1>4 DEF Held, OneEach, Saving, OneSave, Attached, First
<1>7. Issued
  BY <1>2 DEF Issued, First
<1>8. QED
  BY <1>3, <1>5, <1>6, <1>7 DEF IInv

LEMMA StutterInv == IInv /\ UNCHANGED vars => IInv'
BY DEF vars, shared, store, history, IInv, TypeOK, Named, Held, OneEach, Issued, Saving, OneSave,
       Attached, Live

LEMMA NextInv == IInv /\ [Next]_vars => IInv'
<1> SUFFICES ASSUME IInv, [Next]_vars PROVE IInv'
  OBVIOUS
<1>1. CASE HandlerStep
  BY <1>1, NewSessionInv, LoadSessionInv, StartMessageInv, LoadInterruptedInv, DeleteSessionInv,
     CancelMessageInv, PostDecisionInv, DeleteAllInv, ShutdownInv
     DEF HandlerStep
<1>2. ASSUME NEW k \in Tasks, TaskStep(k) PROVE IInv'
  BY <1>2, PrepareInv, ScheduleCheckpointInv, CheckCancelInv, OpenDialogInv, WaitInv, FailWorkInv,
     AnswerWorkInv, BeginTaskSaveInv, DropMessageInv
     DEF TaskStep
<1>3. ASSUME NEW o \in Objects, ObjectStep(o) PROVE IInv'
  BY <1>3, BeginCheckpointInv, BeginCancelSaveInv, DropCancelInv, SuggestTitleInv, BeginTitleSaveInv
     DEF ObjectStep
<1>4. CASE WriteStep
  BY <1>4, MakeTemporaryInv, RenameTemporaryInv, FailSaveInv DEF WriteStep
<1>5. ASSUME NEW t \in Terminals, TerminalStep(t) PROVE IInv'
  BY <1>5, UpgradeTerminalInv, ConnectTerminalInv, CloseTerminalInv, CheckTerminalInv,
     AskTerminalInv, WaitTerminalInv
     DEF TerminalStep
<1>6. ASSUME NEW n \in Names, Restart(n) PROVE IInv'
  BY <1>6, RestartInv
<1>7. CASE UNCHANGED vars
  BY <1>7, StutterInv
<1>8. QED
  BY <1>1, <1>2, <1>3, <1>4, <1>5, <1>6, <1>7 DEF Next

LEMMA Invariance == Spec => []IInv
<1>1. QED
  BY InitInv, NextInv, PTL DEF Spec

----------------------------------------------------------------------------
(* Steps that leave sessions and answers alone: no task starts, answers or ends, *)
(* no session is created, registered or deleted, and no save ends                *)

\* A task that is not under way, and one that has answered or failed.
Away == {"none", "over"}
Settled == {"answered", "clearing", "failed"}

QuietObject(o) ==
  object'[o] # None =>
    /\ object[o] # None /\ object'[o].name = object[o].name /\ object'[o].turns = object[o].turns
    /\ object'[o].busy => object[o].busy
    /\ object'[o].mark = "running" => object[o].mark = "running"

QuietTask(k) ==
  /\ task'[k].obj = task[k].obj
  /\ task'[k].pc = "none" <=> task[k].pc = "none"
  /\ task'[k].pc \in Away <=> task[k].pc \in Away
  /\ Live(k)' => Live(k)
  /\ task'[k].pc = "answered" => task[k].pc = "answered"
  /\ task'[k].pc \in Settled => task[k].pc \in Settled \/ object'[task[k].obj].mark # "running"

Quiet ==
  /\ UNCHANGED <<registry, file, issued, deleted, answered>>
  /\ \A o \in Objects : QuietObject(o)
  /\ \A k \in Tasks : QuietTask(k)

LEMMA QuietSame ==
  ASSUME UNCHANGED <<registry, file, issued, deleted, answered, object, task>> PROVE Quiet
BY DEF Quiet, QuietObject, QuietTask, Live

\* One object changes, in other things than those.
Same(o) ==
  /\ object'[o].name = object[o].name /\ object'[o].turns = object[o].turns
  /\ object'[o].busy = object[o].busy /\ object'[o].mark = object[o].mark
  /\ \A p \in Objects : p # o => object'[p] = object[p]

LEMMA SameQuiet ==
  ASSUME NEW o \in Objects, object[o] # None, Same(o) PROVE \A p \in Objects : QuietObject(p)
BY DEF Same, QuietObject

\* A task under way changes its place or its reply, without an answer or a failure.
LEMMA QuietMove ==
  ASSUME IInv, NEW k \in Tasks, Live(k), NEW pc \in PC \ ({"none", "over"} \union Settled),
         task'[k].obj = task[k].obj, task'[k].pc = pc,
         \A j \in Tasks : j # k => task'[j] = task[j]
  PROVE  \A j \in Tasks : QuietTask(j)
BY DEF QuietTask, Live, Away, Settled

\* A task under way fails.
LEMMA QuietFail ==
  ASSUME IInv, UNCHANGED <<registry, file, issued, deleted, answered>>,
         NEW k \in Tasks, Live(k), Fail(k)
  PROVE  Quiet
<1> DEFINE o == task[k].obj
<1>1. o \in Objects /\ object[o] \in Object /\ object[o] # None
  BY LiveObject, NoneAssumption
<1>2. /\ object'[o].name = object[o].name /\ object'[o].turns = object[o].turns
      /\ object'[o].busy = object[o].busy /\ object'[o].mark \in {"cancelled", "failed"}
      /\ \A p \in Objects : p # o => object'[p] = object[p]
  BY <1>1 DEF Fail, IInv, TypeOK, Object
<1>3. /\ task'[k].obj = task[k].obj /\ task'[k].pc = "failed"
      /\ \A j \in Tasks : j # k => task'[j] = task[j]
  BY TasksType DEF Fail, Task
<1>4. \A p \in Objects : QuietObject(p)
  BY <1>1, <1>2 DEF QuietObject
<1>5. \A j \in Tasks : QuietTask(j)
  BY <1>2, <1>3 DEF QuietTask, Live, Away, Settled
<1>6. QED
  BY <1>4, <1>5 DEF Quiet

\* The steps of a task other than its answer.
LEMMA QuietTaskSteps ==
  ASSUME IInv, NEW k \in Tasks,
         \/ Prepare(k) \/ ScheduleCheckpoint(k) \/ CheckCancel(k) \/ OpenDialog(k)
         \/ Wait(k) \/ FailWork(k) \/ BeginTaskSave(k) \/ DropMessage(k)
  PROVE  Quiet
<1> DEFINE o == task[k].obj
<1>1. Live(k) /\ UNCHANGED <<registry, file, issued, deleted, answered>>
  BY DEF Prepare, ScheduleCheckpoint, CheckCancel, OpenDialog, Wait, FailWork, BeginTaskSave,
         DropMessage, At, Live, shared, store, history
<1>2. o \in Objects /\ object[o] \in Object /\ object[o] # None
  BY <1>1, LiveObject, NoneAssumption
<1>3. ASSUME NEW pc \in PC \ ({"none", "over"} \union Settled), Goto(k, pc), UNCHANGED object
      PROVE  Quiet
  <2>1. task'[k].obj = task[k].obj /\ task'[k].pc = pc
        /\ \A j \in Tasks : j # k => task'[j] = task[j]
    BY <1>3, TasksType DEF Goto, Task
  <2>2. \A p \in Objects : QuietObject(p)
    BY <1>3 DEF QuietObject
  <2>3. QED
    BY <1>1, <2>1, <2>2, QuietMove DEF Quiet
<1>4. CASE Prepare(k)
  BY <1>1, <1>3, <1>4, QuietFail DEF Prepare, PC, Settled
<1>5. CASE ScheduleCheckpoint(k)
  <2>0. Same(o)
    BY <1>2, <1>5 DEF ScheduleCheckpoint, Same, IInv, TypeOK, Object
  <2>1. \A p \in Objects : QuietObject(p)
    BY <1>2, <2>0, SameQuiet
  <2>2. \A j \in Tasks : QuietTask(j)
    BY <1>5 DEF ScheduleCheckpoint, QuietTask, Live
  <2>3. QED
    BY <1>1, <2>1, <2>2 DEF Quiet
<1>6. CASE CheckCancel(k)
  BY <1>3, <1>6 DEF CheckCancel, PC, Settled
<1>7. CASE OpenDialog(k)
  <2>0. Same(o)
    BY <1>2, <1>7 DEF OpenDialog, Same, IInv, TypeOK, Object
  <2>1. \A p \in Objects : QuietObject(p)
    BY <1>2, <2>0, SameQuiet
  <2>2. /\ task'[k].obj = task[k].obj /\ task'[k].pc = "asking"
        /\ \A j \in Tasks : j # k => task'[j] = task[j]
    BY <1>7, TasksType DEF OpenDialog, Task
  <2>3. QED
    BY <1>1, <2>1, <2>2, QuietMove DEF Quiet, PC, Settled
<1>8. CASE Wait(k)
  <2>1. CASE Fail(k)
    BY <1>1, <2>1, QuietFail
  <2>2. CASE /\ task' = [task EXCEPT ![k].pc = "working", ![k].reply = "none"]
             /\ UNCHANGED object \/ object' = [object EXCEPT ![o].asker = None]
    <3>1. \A p \in Objects : QuietObject(p)
      <4>1. CASE UNCHANGED object
        BY <4>1 DEF QuietObject
      <4>2. CASE object' = [object EXCEPT ![o].asker = None]
        <5>1. Same(o)
          BY <1>2, <4>2 DEF Same, IInv, TypeOK, Object
        <5>2. QED
          BY <1>2, <5>1, SameQuiet
      <4>3. QED
        BY <2>2, <4>1, <4>2
    <3>2. /\ task'[k].obj = task[k].obj /\ task'[k].pc = "working"
          /\ \A j \in Tasks : j # k => task'[j] = task[j]
      BY <2>2, TasksType DEF Task
    <3>3. QED
      BY <1>1, <3>1, <3>2, QuietMove DEF Quiet, PC, Settled
  <2>3. QED
    BY <1>8, <2>1, <2>2 DEF Wait
<1>9. CASE FailWork(k)
  BY <1>1, <1>9, QuietFail DEF FailWork
<1>10. CASE BeginTaskSave(k)
  BY <1>1, <1>10, QuietSame DEF BeginTaskSave
<1>11. CASE DropMessage(k)
  BY <1>3, <1>11 DEF DropMessage, PC, Settled
<1>12. QED
  BY <1>4, <1>5, <1>6, <1>7, <1>8, <1>9, <1>10, <1>11

\* The steps of the other holders of a session, apart from the end of a save.
LEMMA QuietObjectSteps ==
  ASSUME IInv, NEW o \in Objects,
         \/ BeginCheckpoint(o) \/ BeginCancelSave(o) \/ DropCancel(o) \/ SuggestTitle(o)
         \/ BeginTitleSave(o)
  PROVE  Quiet
<1>1. object[o] \in Object /\ object[o] # None
      /\ UNCHANGED <<registry, file, issued, deleted, answered, task>>
  BY ObjectTyped DEF IInv, BeginCheckpoint, BeginCancelSave, DropCancel, SuggestTitle, BeginTitleSave,
     shared, store, history
<1>2. \A p \in Objects : QuietObject(p)
  <2>1. \/ object' = [object EXCEPT ![o].scheduled = @ - 1]
        \/ object' = [object EXCEPT ![o].cancelSave = FALSE]
        \/ \E next \in {"given", "no"} : object' = [object EXCEPT ![o].titling = next]
    BY DEF BeginCheckpoint, BeginCancelSave, DropCancel, SuggestTitle, BeginTitleSave
  <2>2. object' = [object EXCEPT ![o].scheduled = @ - 1] => Same(o)
    BY <1>1 DEF Same, IInv, TypeOK, Object
  <2>3. object' = [object EXCEPT ![o].cancelSave = FALSE] => Same(o)
    BY <1>1 DEF Same, IInv, TypeOK, Object
  <2>4. ASSUME NEW next \in {"given", "no"}, object' = [object EXCEPT ![o].titling = next]
        PROVE  Same(o)
    BY <1>1, <2>4 DEF Same, IInv, TypeOK, Object
  <2>5. QED
    BY <1>1, <2>1, <2>2, <2>3, <2>4, SameQuiet
<1>3. \A k \in Tasks : QuietTask(k)
  BY <1>1 DEF QuietTask, Live
<1>4. QED
  BY <1>1, <1>2, <1>3 DEF Quiet

\* Handlers that answer dialogs, or begin to load a session.
LEMMA QuietHandlers ==
  ASSUME IInv,
         \/ Shutdown
         \/ \E n \in Names : CancelMessage(n) \/ PostDecision(n) \/ LoadInterrupted(n)
  PROVE  Quiet
<1>1. ASSUME NEW askers, task' = TaskReplies(askers) PROVE \A k \in Tasks : QuietTask(k)
  <2>1. \A k \in Tasks : task'[k].obj = task[k].obj /\ task'[k].pc = task[k].pc
    BY <1>1, RepliesType DEF IInv
  <2>2. QED
    BY <2>1 DEF QuietTask, Live
<1>2. ASSUME NEW n \in Names, CancelMessage(n) \/ PostDecision(n) PROVE Quiet
  <2>1. registry[n] \in Objects /\ object[registry[n]] \in Object /\ object[registry[n]] # None
    BY <1>2, RegisteredObject, NoneAssumption DEF CancelMessage, PostDecision
  <2>2. Same(registry[n])
    <3>1. CASE CancelMessage(n)
      BY <2>1, <3>1 DEF CancelMessage, Same, IInv, TypeOK, Object
    <3>2. CASE PostDecision(n)
      BY <2>1, <3>2 DEF PostDecision, Same, IInv, TypeOK, Object
    <3>3. QED
      BY <1>2, <3>1, <3>2
  <2>3. QED
    BY <1>1, <1>2, <2>1, <2>2, SameQuiet DEF CancelMessage, PostDecision, Quiet, shared, store, history
<1>3. CASE Shutdown
  <2>1. \A o \in Objects : QuietObject(o)
    <3> SUFFICES ASSUME NEW o \in Objects, object'[o] # None PROVE QuietObject(o)
      BY DEF QuietObject
    <3> DEFINE closing == {registry[n] : n \in Registered}
    <3>1. object'[o] = IF o \in closing THEN [object[o] EXCEPT !.cancel = TRUE, !.asker = None]
                       ELSE object[o]
      BY <1>3 DEF Shutdown
    <3>2. o \in closing => object[o] \in Object /\ object[o] # None
      BY RegisteredObject, NoneAssumption DEF Registered
    <3> HIDE DEF closing
    <3>3. QED
      BY <3>1, <3>2 DEF QuietObject, Object
  <2>2. QED
    BY <1>1, <1>3, <2>1 DEF Shutdown, Quiet, shared, store, history
<1>4. ASSUME NEW n \in Names, LoadInterrupted(n) PROVE Quiet
  BY <1>4, QuietSame DEF LoadInterrupted, shared, store, history
<1>5. QED
  BY <1>2, <1>3, <1>4

LEMMA QuietTerminalSteps == ASSUME IInv, NEW t \in Terminals, TerminalStep(t) PROVE Quiet
<1>1. ASSUME UNCHANGED <<shared, object, task, store, history>> PROVE Quiet
  BY <1>1, QuietSame DEF shared, store, history
<1>2. CASE AskTerminal(t) \/ WaitTerminal(t)
  <2>1. terminal[t].obj \in Objects /\ object[terminal[t].obj] \in Object /\ object[terminal[t].obj] # None
    BY <1>2, AttachedObject, NoneAssumption DEF AskTerminal, WaitTerminal
  <2>2. \/ UNCHANGED object
        \/ \E x : object' = [object EXCEPT ![terminal[t].obj].asker = x]
    BY <1>2 DEF AskTerminal, WaitTerminal
  <2>3. \A p \in Objects : QuietObject(p)
    <3>1. ASSUME NEW x, object' = [object EXCEPT ![terminal[t].obj].asker = x]
          PROVE  Same(terminal[t].obj)
      BY <2>1, <3>1 DEF Same, IInv, TypeOK, Object
    <3>2. QED
      BY <2>1, <2>2, <3>1, SameQuiet DEF QuietObject
  <2>4. UNCHANGED <<shared, task, store, history>>
    BY <1>2 DEF AskTerminal, WaitTerminal
  <2>5. QED
    BY <2>3, <2>4 DEF Quiet, QuietTask, Live, shared, store, history
<1>3. QED
  BY <1>1, <1>2 DEF TerminalStep, UpgradeTerminal, ConnectTerminal, CloseTerminal, CheckTerminal

LEMMA QuietWriteSteps == ASSUME NEW w, MakeTemporary(w) PROVE Quiet
<1>1. UNCHANGED <<registry, file, issued, deleted, answered, object, task>>
  BY DEF MakeTemporary, shared, history
<1>2. QED
  BY <1>1, QuietSame

----------------------------------------------------------------------------
(* The writes after such a step: each was there, perhaps with its handler, or is *)
(* a fresh snapshot of an object or of a file                                    *)

Carried(v) ==
  \E w \in writes :
    /\ v.name = w.name /\ v.obj = w.obj /\ v.task = w.task /\ v.document = w.document
    /\ v.by = w.by \/ (v.by = "orphan" /\ w.by # "load")

Snapshot(v) ==
  /\ v.by \notin {"load", "orphan"}
  /\ v.obj \in Objects /\ object[v.obj] # None
  /\ v.name = object[v.obj].name /\ v.document.turns = object[v.obj].turns
  /\ v.by = "task" => v.task \in Tasks /\ task[v.task].obj = v.obj

Interrupted(v) ==
  /\ v.by = "load" /\ v.obj = NoObject /\ file[v.name] # None
  /\ v.document.turns = file[v.name].turns /\ v.document.mark # "running"

QuietWrites == \A v \in writes' : Carried(v) \/ Snapshot(v) \/ Interrupted(v)

LEMMA SameWrites == ASSUME writes' \subseteq writes PROVE QuietWrites
BY DEF QuietWrites, Carried

LEMMA BeginWrites ==
  ASSUME NEW o \in Objects, object[o] \in Object, NEW by \in {"task", "checkpoint", "cancel"}, NEW k,
         by = "task" => k \in Tasks /\ task[k].obj = o,
         Begin(o, by, k)
  PROVE  QuietWrites
<1> DEFINE w == [name |-> object[o].name, obj |-> o, by |-> by, task |-> k, made |-> FALSE,
                 document |-> Document(o)]
<1>1. Snapshot(w)
  BY NoneAssumption DEF Snapshot, Document
<1>2. writes' = writes \union {w}
  BY DEF Begin
<1> HIDE DEF w
<1>3. QED
  BY <1>1, <1>2 DEF QuietWrites, Carried

LEMMA TaskWrites ==
  ASSUME IInv, NEW k \in Tasks,
         \/ Prepare(k) \/ ScheduleCheckpoint(k) \/ CheckCancel(k) \/ OpenDialog(k)
         \/ Wait(k) \/ FailWork(k) \/ BeginTaskSave(k) \/ DropMessage(k)
  PROVE  QuietWrites
<1>1. CASE BeginTaskSave(k)
  <2>1. Live(k)
    BY <1>1 DEF BeginTaskSave, Live
  <2>2. task[k].obj \in Objects /\ object[task[k].obj] \in Object
    BY <2>1, LiveObject
  <2>3. QED
    BY <1>1, <2>2, BeginWrites DEF BeginTaskSave
<1>2. CASE DropMessage(k)
  <2> DEFINE left(w) == IF w.by = "task" /\ w.task = k THEN [w EXCEPT !.by = "orphan"] ELSE w
  <2>1. \A w \in writes : /\ left(w).name = w.name /\ left(w).obj = w.obj /\ left(w).task = w.task
                          /\ left(w).document = w.document
                          /\ left(w).by = w.by \/ (left(w).by = "orphan" /\ w.by # "load")
    BY DEF IInv, TypeOK, Write
  <2>2. writes' = {left(w) : w \in writes}
    BY <1>2 DEF DropMessage
  <2> HIDE DEF left
  <2>3. QED
    BY <2>1, <2>2 DEF QuietWrites, Carried
<1>3. CASE ~ BeginTaskSave(k) /\ ~ DropMessage(k)
  BY <1>3, SameWrites
     DEF Prepare, ScheduleCheckpoint, CheckCancel, OpenDialog, Wait, FailWork
<1>4. QED
  BY <1>1, <1>2, <1>3

LEMMA ObjectWrites ==
  ASSUME IInv, NEW o \in Objects,
         \/ BeginCheckpoint(o) \/ BeginCancelSave(o) \/ DropCancel(o) \/ SuggestTitle(o)
         \/ BeginTitleSave(o)
  PROVE  QuietWrites
<1>1. object[o] \in Object /\ object[o] # None
  BY ObjectTyped DEF IInv, BeginCheckpoint, BeginCancelSave, DropCancel, SuggestTitle, BeginTitleSave
<1>2. CASE BeginCheckpoint(o) \/ BeginCancelSave(o)
  BY <1>1, <1>2, BeginWrites DEF BeginCheckpoint, BeginCancelSave
<1>3. CASE DropCancel(o)
  <2> DEFINE left(w) == IF w.obj = o /\ w.by = "cancel" THEN [w EXCEPT !.by = "orphan"] ELSE w
  <2>1. \A w \in writes : /\ left(w).name = w.name /\ left(w).obj = w.obj /\ left(w).task = w.task
                          /\ left(w).document = w.document
                          /\ left(w).by = w.by \/ (left(w).by = "orphan" /\ w.by # "load")
    BY DEF IInv, TypeOK, Write
  <2>2. writes' = {left(w) : w \in writes}
    BY <1>3 DEF DropCancel
  <2> HIDE DEF left
  <2>3. QED
    BY <2>1, <2>2 DEF QuietWrites, Carried
<1>4. CASE SuggestTitle(o)
  BY <1>4, SameWrites DEF SuggestTitle
<1>5. CASE BeginTitleSave(o)
  <2> DEFINE w == [name |-> object[o].name, obj |-> o, by |-> "title", task |-> 0, made |-> FALSE,
                   document |-> [Document(o) EXCEPT !.title = TRUE]]
  <2>1. Snapshot(w)
    BY <1>1 DEF Snapshot, Document
  <2>2. writes' = writes \union {w} \/ writes' = writes
    BY <1>5 DEF BeginTitleSave
  <2> HIDE DEF w
  <2>3. QED
    BY <2>1, <2>2 DEF QuietWrites, Carried
<1>6. QED
  BY <1>2, <1>3, <1>4, <1>5

LEMMA HandlerWrites ==
  ASSUME IInv,
         \/ Shutdown
         \/ \E n \in Names : CancelMessage(n) \/ PostDecision(n) \/ LoadInterrupted(n)
  PROVE  QuietWrites
<1>1. ASSUME NEW n \in Names, LoadInterrupted(n) PROVE QuietWrites
  <2> DEFINE w == [name |-> n, obj |-> NoObject, by |-> "load", task |-> 0, made |-> FALSE,
                   document |-> [file[n] EXCEPT !.mark = "interrupted"]]
  <2>1. file[n] # None /\ file[n] \in Documents
    BY <1>1 DEF LoadInterrupted, IInv, TypeOK
  <2>2. Interrupted(w)
    BY <2>1 DEF Interrupted, Documents
  <2>3. writes' = writes \union {w}
    BY <1>1 DEF LoadInterrupted
  <2> HIDE DEF w
  <2>4. QED
    BY <2>2, <2>3 DEF QuietWrites, Carried
<1>2. CASE Shutdown \/ \E n \in Names : CancelMessage(n) \/ PostDecision(n)
  BY <1>2, SameWrites DEF Shutdown, CancelMessage, PostDecision
<1>3. QED
  BY <1>1, <1>2

LEMMA TemporaryWrites == ASSUME IInv, NEW w \in writes, MakeTemporary(w) PROVE QuietWrites
<1> DEFINE made == [w EXCEPT !.made = TRUE]
<1>1. /\ made.name = w.name /\ made.obj = w.obj /\ made.by = w.by /\ made.task = w.task
      /\ made.document = w.document
  BY DEF IInv, TypeOK, Write
<1>2. writes' = (writes \ {w}) \union {made}
  BY DEF MakeTemporary
<1> HIDE DEF made
<1>3. QED
  BY <1>1, <1>2 DEF QuietWrites, Carried

\* Every step is one of those, or one of the others.
LEMMA Steps ==
  ASSUME IInv, [Next]_vars
  PROVE  \/ Quiet /\ QuietWrites
         \/ \E n \in Names, k \in Tasks : StartMessage(n, k)
         \/ \E k \in Tasks : AnswerWork(k)
         \/ \E n \in Names, o \in Objects : NewSession(n, o) \/ LoadSession(n, o)
         \/ \E n \in Names : DeleteSession(n)
         \/ DeleteAll
         \/ \E w \in writes : RenameTemporary(w) \/ FailSave(w)
         \/ \E n \in Names : Restart(n)
<1> DEFINE Others ==
      \/ \E n \in Names, k \in Tasks : StartMessage(n, k)
      \/ \E k \in Tasks : AnswerWork(k)
      \/ \E n \in Names, o \in Objects : NewSession(n, o) \/ LoadSession(n, o)
      \/ \E n \in Names : DeleteSession(n)
      \/ DeleteAll
      \/ \E w \in writes : RenameTemporary(w) \/ FailSave(w)
      \/ \E n \in Names : Restart(n)
<1>1. CASE HandlerStep
  <2>1. \/ Others
        \/ Shutdown
        \/ \E n \in Names : CancelMessage(n) \/ PostDecision(n) \/ LoadInterrupted(n)
    BY <1>1 DEF HandlerStep
  <2>2. QED
    BY <2>1, QuietHandlers, HandlerWrites
<1>2. ASSUME NEW k \in Tasks, TaskStep(k) PROVE (Quiet /\ QuietWrites) \/ Others
  <2>1. CASE AnswerWork(k)
    BY <2>1
  <2>2. CASE \/ Prepare(k) \/ ScheduleCheckpoint(k) \/ CheckCancel(k) \/ OpenDialog(k)
             \/ Wait(k) \/ FailWork(k) \/ BeginTaskSave(k) \/ DropMessage(k)
    BY <2>2, QuietTaskSteps, TaskWrites
  <2>3. QED
    BY <1>2, <2>1, <2>2 DEF TaskStep
<1>3. ASSUME NEW o \in Objects, ObjectStep(o) PROVE Quiet /\ QuietWrites
  BY <1>3, QuietObjectSteps, ObjectWrites DEF ObjectStep
<1>4. CASE WriteStep
  BY <1>4, QuietWriteSteps, TemporaryWrites DEF WriteStep
<1>5. ASSUME NEW t \in Terminals, TerminalStep(t) PROVE Quiet /\ QuietWrites
  <2>1. UNCHANGED writes
    BY <1>5 DEF TerminalStep, UpgradeTerminal, ConnectTerminal, CloseTerminal, CheckTerminal,
                AskTerminal, WaitTerminal
  <2>2. QED
    BY <1>5, <2>1, QuietTerminalSteps, SameWrites
<1>6. CASE UNCHANGED vars
  <2>1. UNCHANGED <<registry, file, issued, deleted, answered, object, task, writes>>
    BY <1>6 DEF vars, shared, store, history
  <2>2. QED
    BY <2>1, QuietSame, SameWrites
<1>7. QED
  BY <1>1, <1>2, <1>3, <1>4, <1>5, <1>6 DEF Next

----------------------------------------------------------------------------
(* A session that is busy, or shows a running task, has one under way *)

HasTask ==
  \A o \in Objects : object[o] # None /\ (object[o].busy \/ object[o].mark = "running") =>
    \E k \in Tasks : task[k].obj = o /\ task[k].pc \notin Away

Marked == \A k \in Tasks : task[k].pc \in Settled => object[task[k].obj].mark # "running"

LoadsEnded == \A w \in writes : w.by = "load" => w.document.mark # "running"

Worked == IInv /\ HasTask /\ Marked /\ LoadsEnded

LEMMA QuietWorked == ASSUME Worked, IInv', Quiet, QuietWrites PROVE Worked'
<1>1. HasTask'
  <2> SUFFICES ASSUME NEW o \in Objects, object'[o] # None,
                      object'[o].busy \/ object'[o].mark = "running"
               PROVE  \E k \in Tasks : task'[k].obj = o /\ task'[k].pc \notin Away
    BY DEF HasTask
  <2>1. object[o] # None /\ (object[o].busy \/ object[o].mark = "running")
    BY DEF Quiet, QuietObject
  <2>2. QED
    BY <2>1 DEF Worked, HasTask, Quiet, QuietTask
<1>2. Marked'
  <2> SUFFICES ASSUME NEW k \in Tasks, task'[k].pc \in Settled
               PROVE  object'[task'[k].obj].mark # "running"
    BY DEF Marked
  <2>1. task'[k].obj = task[k].obj
    BY DEF Quiet, QuietTask
  <2>2. Live(k)'
    BY DEF Live, Settled
  <2>3. task[k].obj \in Objects /\ object'[task[k].obj] # None
    BY <2>1, <2>2, LiveObject DEF Quiet, QuietTask, Worked, IInv, Held
  <2>4. CASE task[k].pc \in Settled
    BY <2>1, <2>3, <2>4 DEF Worked, Marked, Quiet, QuietObject
  <2>5. CASE object'[task[k].obj].mark # "running"
    BY <2>1, <2>5
  <2>6. QED
    BY <2>4, <2>5 DEF Quiet, QuietTask
<1>3. LoadsEnded'
  BY DEF Worked, LoadsEnded, QuietWrites, Carried, Snapshot, Interrupted
<1>4. QED
  BY <1>1, <1>2, <1>3 DEF Worked

LEMMA StartWorked ==
  ASSUME Worked, IInv', NEW n \in Names, NEW k \in Tasks, StartMessage(n, k) PROVE Worked'
<1> DEFINE o == registry[n]
<1>1. o \in Objects /\ object[o] \in Object /\ object[o] # None /\ ~ object[o].busy
  BY RegisteredObject, NoneAssumption DEF Worked, StartMessage
<1>2. /\ task'[k].obj = o /\ task'[k].pc = "accepted" /\ task[k].pc = "none"
      /\ \A j \in Tasks : j # k => task'[j] = task[j]
  BY DEF Worked, IInv, TypeOK, StartMessage
<1>3. \A p \in Objects : p # o => object'[p] = object[p]
  BY <1>1 DEF Worked, IInv, TypeOK, StartMessage
<1>4. HasTask'
  <2> SUFFICES ASSUME NEW p \in Objects, object'[p] # None,
                      object'[p].busy \/ object'[p].mark = "running"
               PROVE  \E j \in Tasks : task'[j].obj = p /\ task'[j].pc \notin Away
    BY DEF HasTask
  <2>1. CASE p = o
    BY <1>2, <2>1 DEF Away
  <2>2. CASE p # o
    <3>1. PICK j \in Tasks : task[j].obj = p /\ task[j].pc \notin Away
      BY <1>3, <2>2 DEF Worked, HasTask
    <3>2. QED
      BY <1>2, <3>1 DEF Away
  <2>3. QED
    BY <2>1, <2>2
<1>5. Marked'
  <2> SUFFICES ASSUME NEW j \in Tasks, task'[j].pc \in Settled
               PROVE  object'[task'[j].obj].mark # "running"
    BY DEF Marked
  <2>1. j # k /\ task'[j] = task[j] /\ task[j].pc \in Settled
    BY <1>2 DEF Settled
  <2>2. Live(j)
    BY <2>1 DEF Live, Settled
  <2>3. task[j].obj \in Objects /\ object[task[j].obj].busy
    BY <2>2, LiveObject DEF Worked, IInv, Held
  <2>4. QED
    BY <1>1, <1>3, <2>1, <2>3 DEF Worked, Marked
<1>6. LoadsEnded'
  BY DEF Worked, LoadsEnded, StartMessage
<1>7. QED
  BY <1>4, <1>5, <1>6 DEF Worked

LEMMA AnswerWorked == ASSUME Worked, IInv', NEW k \in Tasks, AnswerWork(k) PROVE Worked'
<1> DEFINE o == task[k].obj
<1>1. o \in Objects /\ object[o] \in Object /\ object[o] # None
  <2>1. Live(k)
    BY DEF AnswerWork, At, Live
  <2>2. QED
    BY <2>1, LiveObject, NoneAssumption DEF Worked
<1>2. /\ task'[k].obj = o /\ task'[k].pc = "answered"
      /\ \A j \in Tasks : j # k => task'[j] = task[j]
  <2>1. Goto(k, "answered") /\ "answered" \in PC
    BY DEF AnswerWork, PC
  <2>2. QED
    BY <2>1, TaskGoes DEF Worked
<1>3. /\ object'[o].busy = object[o].busy /\ object'[o].mark = "completed"
      /\ \A p \in Objects : p # o => object'[p] = object[p]
  BY <1>1 DEF Worked, IInv, TypeOK, AnswerWork, Object
<1>4. HasTask'
  BY <1>1, <1>2, <1>3 DEF Worked, HasTask, Away
<1>5. Marked'
  <2> SUFFICES ASSUME NEW j \in Tasks, task'[j].pc \in Settled
               PROVE  object'[task'[j].obj].mark # "running"
    BY DEF Marked
  <2>1. CASE task'[j].obj = o
    BY <1>3, <2>1
  <2>2. CASE task'[j].obj # o
    <3>1. j # k /\ task'[j] = task[j]
      BY <1>2, <2>2
    <3>2. Live(j)
      BY <3>1 DEF Live, Settled
    <3>3. task[j].obj \in Objects
      BY <3>2, LiveObject DEF Worked
    <3>4. QED
      BY <1>3, <2>2, <3>1, <3>3 DEF Worked, Marked
  <2>3. QED
    BY <2>1, <2>2
<1>6. LoadsEnded'
  BY DEF Worked, LoadsEnded, AnswerWork
<1>7. QED
  BY <1>4, <1>5, <1>6 DEF Worked

\* A session is created or loaded, or the saves of others end.
LEMMA RegisterWorked ==
  ASSUME Worked, IInv', UNCHANGED task, writes' \subseteq writes,
         NEW o \in Objects, object[o] = None, ~ object'[o].busy, object'[o].mark # "running",
         \A p \in Objects : p # o => object'[p] = object[p]
  PROVE  Worked'
<1>1. HasTask'
  BY DEF Worked, HasTask
<1>2. Marked'
  <2> SUFFICES ASSUME NEW k \in Tasks, task[k].pc \in Settled
               PROVE  object'[task[k].obj].mark # "running"
    BY DEF Marked
  <2>1. Live(k)
    BY DEF Live, Settled
  <2>2. task[k].obj \in Objects /\ task[k].obj # o
    BY <2>1, LiveObject, NoneAssumption DEF Worked
  <2>3. QED
    BY <2>2 DEF Worked, Marked
<1>3. LoadsEnded'
  BY DEF Worked, LoadsEnded
<1>4. QED
  BY <1>1, <1>2, <1>3 DEF Worked

LEMMA LoadedIdle ==
  ASSUME NEW n, NEW d PROVE ~ Loaded(n, d).busy /\ Loaded(n, d).mark = d.mark /\ Loaded(n, d).name = n
                            /\ Loaded(n, d).turns = LastTurns(d.turns) /\ Loaded(n, d).asker = None
BY DEF Loaded

LEMMA BlankIdle ==
  ASSUME NEW n PROVE ~ Blank(n).busy /\ Blank(n).mark # "running" /\ Blank(n).asker = None
<1> DEFINE d == [turns |-> <<>>, mark |-> None, title |-> FALSE]
<1>1. d.mark # "running"
  BY WebAssumption DEF Marks
<1>2. Blank(n) = Loaded(n, d)
  BY DEF Blank
<1> HIDE DEF d
<1>3. QED
  BY <1>1, <1>2, LoadedIdle

LEMMA CreateWorked ==
  ASSUME Worked, IInv', NEW n \in Names, NEW o \in Objects, NewSession(n, o) \/ LoadSession(n, o)
  PROVE  Worked'
<1>1. object[o] = None /\ UNCHANGED <<task, writes>>
  BY FirstUnused DEF NewSession, LoadSession
<1>2. \A p \in Objects : p # o => object'[p] = object[p]
  BY DEF Worked, IInv, TypeOK, NewSession, LoadSession
<1>3. ~ object'[o].busy /\ object'[o].mark # "running"
  <2>1. CASE NewSession(n, o)
    <3>1. object'[o] = Blank(n)
      BY <2>1 DEF Worked, IInv, TypeOK, NewSession
    <3>2. QED
      BY <3>1, BlankIdle
  <2>2. CASE LoadSession(n, o)
    <3>1. object'[o] = Loaded(n, file[n]) /\ file[n].mark # "running"
      BY <2>2 DEF Worked, IInv, TypeOK, LoadSession
    <3>2. QED
      BY <3>1, LoadedIdle
  <2>3. QED
    BY <2>1, <2>2
<1>4. QED
  BY <1>1, <1>2, <1>3, RegisterWorked

LEMMA DeleteWorked ==
  ASSUME Worked, IInv', DeleteAll \/ \E n \in Names : DeleteSession(n) PROVE Worked'
<1>1. UNCHANGED <<object, task, writes>>
  BY DEF DeleteAll, DeleteSession
<1>2. QED
  BY <1>1 DEF Worked, HasTask, Marked, LoadsEnded

\* What the end of a task's save does to the task and its object.
Ends(k, o) ==
  /\ object'[o].turns = object[o].turns
  /\ object'[o].busy => object[o].busy
  /\ object'[o].mark = "running" => object[o].mark = "running"
  /\ object'[o].asker \in {object[o].asker, None}
  /\ task'[k].pc \in {"ready", "waiting", "clearing", "failed", "over"}
  /\ task'[k].pc = "over" => ~ object'[o].busy /\ object'[o].mark # "running"
  /\ task'[k].pc \in Settled => object'[o].mark # "running"
  /\ task[k].pc = "asking" => task'[k].pc = "waiting" /\ task'[k].reply = task[k].reply

LEMMA SaveEnds ==
  ASSUME IInv, Marked, NEW w \in writes, w.by = "task", NEW saved \in BOOLEAN, AfterSave(w, saved)
  PROVE  Ends(w.task, w.obj)
<1> DEFINE k == w.task
           o == w.obj
<1>1. /\ k \in Tasks /\ task[k].obj = o /\ task[k].pc \in SavePoints
      /\ o \in Objects /\ object[o] \in Object
  BY Saver
<1>2. task[k].pc \in Settled => object[o].mark # "running"
  BY <1>1 DEF Marked
<1>3. ASSUME NEW pc, Goto(k, pc) PROVE task'[k].pc = pc /\ task'[k].reply = task[k].reply
  BY <1>1, <1>3, TasksType DEF Goto, Task
<1>4. ASSUME NEW titling, EndTask(k, o, titling), task[k].pc \in Settled PROVE Ends(k, o)
  <2>1. task'[k].pc = "over"
    BY <1>3, <1>4 DEF EndTask
  <2>2. /\ object'[o].turns = object[o].turns /\ ~ object'[o].busy
        /\ object'[o].mark = object[o].mark /\ object'[o].asker = None
    BY <1>1, <1>4 DEF EndTask, IInv, TypeOK, Object
  <2>3. QED
    BY <1>2, <1>4, <2>1, <2>2 DEF Ends, Settled
<1>5. CASE At(k, "accepted") /\ saved
  <2>1. Goto(k, "ready") /\ UNCHANGED object
    BY <1>5 DEF AfterSave, At
  <2>2. QED
    BY <1>3, <1>5, <2>1 DEF Ends, At, Settled
<1>6. CASE At(k, "accepted") /\ ~ saved
  <2>1. Goto(k, "over") /\ object' = [object EXCEPT ![o].busy = FALSE, ![o].mark = None]
    BY <1>6 DEF AfterSave, At
  <2>2. /\ object'[o].turns = object[o].turns /\ ~ object'[o].busy
        /\ object'[o].mark = None /\ object'[o].asker = object[o].asker
    BY <1>1, <2>1 DEF IInv, TypeOK, Object
  <2>3. None # "running"
    BY WebAssumption DEF Marks
  <2>4. QED
    BY <1>3, <1>6, <2>1, <2>2, <2>3 DEF Ends, At, Settled
<1>7. CASE At(k, "asking")
  <2>1. Goto(k, "waiting") /\ UNCHANGED object
    BY <1>7 DEF AfterSave, At
  <2>2. QED
    BY <1>3, <1>7, <2>1 DEF Ends, At, Settled
<1>8. CASE At(k, "answered") /\ saved
  <2>1. Goto(k, "clearing") /\ object' = [object EXCEPT ![o].mark = None]
    BY <1>8 DEF AfterSave, At
  <2>2. /\ object'[o].turns = object[o].turns /\ object'[o].busy = object[o].busy
        /\ object'[o].mark = None /\ object'[o].asker = object[o].asker
    BY <1>1, <2>1 DEF IInv, TypeOK, Object
  <2>3. None # "running"
    BY WebAssumption DEF Marks
  <2>4. QED
    BY <1>3, <1>8, <2>1, <2>2, <2>3 DEF Ends, At, Settled
<1>9. CASE At(k, "answered") /\ ~ saved
  <2>1. Fail(k)
    BY <1>9 DEF AfterSave, At
  <2>2. task'[k].pc = "failed"
    BY <1>1, <2>1, TasksType DEF Fail, Task
  <2>3. /\ object'[o].turns = object[o].turns /\ object'[o].busy = object[o].busy
        /\ object'[o].mark \in {"cancelled", "failed"} /\ object'[o].asker = object[o].asker
    BY <1>1, <2>1 DEF Fail, IInv, TypeOK, Object
  <2>4. QED
    BY <1>9, <2>2, <2>3 DEF Ends, At, Settled
<1>10. CASE At(k, "clearing")
  <2>1. EndTask(k, o, IF object[o].titling # "due" THEN object[o].titling
                      ELSE IF object[o].cancel THEN "no" ELSE "asked")
    BY <1>10 DEF AfterSave, At
  <2>2. QED
    BY <1>4, <1>10, <2>1 DEF At, Settled
<1>11. CASE At(k, "failed")
  <2>1. EndTask(k, o, object[o].titling)
    BY <1>11 DEF AfterSave, At
  <2>2. QED
    BY <1>4, <1>11, <2>1 DEF At, Settled
<1>12. QED
  BY <1>1, <1>5, <1>6, <1>7, <1>8, <1>9, <1>10, <1>11 DEF At, SavePoints

\* What the end of another save does: a title is set, or a session registered.
LEMMA OtherSaves ==
  ASSUME IInv, NEW w \in writes, w.by # "task", NEW saved \in BOOLEAN, AfterSave(w, saved)
  PROVE  /\ UNCHANGED <<task, terminal, answered>>
         /\ \/ UNCHANGED <<object, registry>>
            \/ /\ w.obj \in Objects /\ object[w.obj] \in Object /\ UNCHANGED registry
               /\ object' = [object EXCEPT ![w.obj].title = TRUE]
            \/ /\ w.by = "load" /\ saved
               /\ \E o \in Objects : /\ object[o] = None
                                     /\ object' = [object EXCEPT ![o] = Loaded(w.name, w.document)]
                                     /\ registry' = [registry EXCEPT ![w.name] = o]
<1>1. UNCHANGED <<task, terminal, answered>>
  BY DEF AfterSave
<1>2. CASE w.by = "title" /\ saved
  <2>1. object' = [object EXCEPT ![w.obj].title = TRUE] /\ UNCHANGED registry
    BY <1>2 DEF AfterSave
  <2>2. w.obj \in Objects /\ object[w.obj] \in Object
    BY <1>2 DEF IInv, TypeOK, Write, Saving
  <2>3. QED
    BY <1>1, <2>1, <2>2
<1>3. CASE w.by = "load" /\ saved
  <2>1. \E o \in Objects : /\ Unused(o)
                           /\ object' = [object EXCEPT ![o] = Loaded(w.name, w.document)]
                           /\ registry' = [registry EXCEPT ![w.name] = o]
    BY <1>3 DEF AfterSave
  <2>2. QED
    BY <1>1, <1>3, <2>1, FirstUnused
<1>4. CASE ~ (w.by = "title" /\ saved) /\ ~ (w.by = "load" /\ saved)
  <2>1. UNCHANGED <<object, registry>>
    BY <1>4 DEF AfterSave
  <2>2. QED
    BY <1>1, <2>1
<1>5. QED
  BY <1>2, <1>3, <1>4

LEMMA SaveWorked ==
  ASSUME Worked, IInv', NEW w \in writes, NEW saved \in BOOLEAN, AfterSave(w, saved),
         writes' = writes \ {w}
  PROVE  Worked'
<1>1. LoadsEnded'
  BY DEF Worked, LoadsEnded
<1>2. CASE w.by = "task"
  <2> DEFINE k == w.task
             o == w.obj
  <2>1. k \in Tasks /\ task[k].obj = o /\ o \in Objects /\ object[o] \in Object /\ object[o] # None
        /\ Live(k)
    BY <1>2, Saver, NoneAssumption DEF Worked
  <2>2. Settles(k, o) /\ Ends(k, o)
    BY <1>2, AfterTaskSave, SaveEnds DEF Worked
  <2>3. /\ task'[k].obj = o /\ \A j \in Tasks : j # k => task'[j] = task[j]
        /\ \A p \in Objects : p # o => object'[p] = object[p]
    BY <2>2 DEF Settles
  <2> HIDE DEF k, o
  <2>4. HasTask'
    <3> SUFFICES ASSUME NEW p \in Objects, object'[p] # None,
                        object'[p].busy \/ object'[p].mark = "running"
                 PROVE  \E j \in Tasks : task'[j].obj = p /\ task'[j].pc \notin Away
      BY DEF HasTask
    <3>1. CASE p = o
      <4>1. task'[k].pc \notin Away
        BY <2>2, <3>1 DEF Ends, Away
      <4>2. QED
        BY <2>1, <2>3, <3>1, <4>1
    <3>2. CASE p # o
      <4>1. PICK j \in Tasks : task[j].obj = p /\ task[j].pc \notin Away
        BY <2>3, <3>2 DEF Worked, HasTask
      <4>2. j # k
        BY <2>1, <3>2, <4>1
      <4>3. QED
        BY <2>3, <4>1, <4>2
    <3>3. QED
      BY <3>1, <3>2
  <2>5. Marked'
    <3> SUFFICES ASSUME NEW j \in Tasks, task'[j].pc \in Settled
                 PROVE  object'[task'[j].obj].mark # "running"
      BY DEF Marked
    <3>1. CASE j = k
      BY <2>2, <2>3, <3>1 DEF Ends
    <3>2. CASE j # k
      <4>1. Live(j) /\ task'[j] = task[j]
        BY <2>3, <3>2 DEF Live, Settled
      <4>2. task[j].obj \in Objects /\ task[j].obj # o
        BY <2>1, <3>2, <4>1, LiveObject DEF Worked, IInv, OneEach
      <4>3. QED
        BY <2>3, <4>1, <4>2 DEF Worked, Marked
    <3>3. QED
      BY <3>1, <3>2
  <2>6. QED
    BY <1>1, <2>4, <2>5 DEF Worked
<1>3. CASE w.by # "task"
  <2>1. UNCHANGED task
    BY <1>3, OtherSaves DEF Worked
  <2>2. CASE UNCHANGED object
    BY <1>1, <2>1, <2>2 DEF Worked, HasTask, Marked
  <2>3. CASE /\ w.obj \in Objects /\ object[w.obj] \in Object
             /\ object' = [object EXCEPT ![w.obj].title = TRUE]
    <3>1. /\ \A p \in Objects : object'[p] # None => object[p] # None
          /\ \A p \in Objects : object[p] # None =>
               object'[p].busy = object[p].busy /\ object'[p].mark = object[p].mark
      <4> SUFFICES ASSUME NEW p \in Objects
                   PROVE  /\ object'[p] # None => object[p] # None
                          /\ object[p] # None =>
                               object'[p].busy = object[p].busy /\ object'[p].mark = object[p].mark
        OBVIOUS
      <4>1. CASE p = w.obj
        BY <2>3, <4>1, NoneAssumption DEF Worked, IInv, TypeOK, Object
      <4>2. CASE p # w.obj
        BY <2>3, <4>2 DEF Worked, IInv, TypeOK
      <4>3. QED
        BY <4>1, <4>2
    <3>2. HasTask'
      BY <2>1, <3>1 DEF Worked, HasTask
    <3>3. Marked'
      <4> SUFFICES ASSUME NEW j \in Tasks, task[j].pc \in Settled
                   PROVE  object'[task[j].obj].mark # "running"
        BY <2>1 DEF Marked
      <4>1. Live(j)
        BY DEF Live, Settled
      <4>2. task[j].obj \in Objects /\ object[task[j].obj] # None
        BY <4>1, LiveObject, NoneAssumption DEF Worked
      <4>3. QED
        BY <3>1, <4>2 DEF Worked, Marked
    <3>4. QED
      BY <1>1, <3>2, <3>3 DEF Worked
  <2>4. ASSUME NEW o \in Objects, object[o] = None, w.by = "load",
               object' = [object EXCEPT ![o] = Loaded(w.name, w.document)]
        PROVE  Worked'
    <3>1. object'[o] = Loaded(w.name, w.document) /\ \A p \in Objects : p # o => object'[p] = object[p]
      BY <2>4 DEF Worked, IInv, TypeOK
    <3>2. w.document.mark # "running"
      BY <2>4 DEF Worked, LoadsEnded
    <3>3. ~ object'[o].busy /\ object'[o].mark # "running"
      BY <3>1, <3>2, LoadedIdle
    <3>4. QED
      BY <2>1, <2>4, <3>1, <3>3, RegisterWorked
  <2>5. QED
    BY <1>3, <2>2, <2>3, <2>4, OtherSaves DEF Worked
<1>4. QED
  BY <1>2, <1>3

LEMMA RestartWorked == ASSUME Worked, IInv', NEW n \in Names, Restart(n) PROVE Worked'
<1>1. object'[1] = Blank(n) /\ \A o \in Objects : o # 1 => object'[o] = None
  BY FirstObject DEF Restart
<1>2. \A k \in Tasks : task'[k].pc \in Away
  BY DEF Restart, At, Away
<1>3. QED
  BY <1>1, <1>2, BlankIdle DEF Worked, HasTask, Marked, LoadsEnded, Restart, Away, Settled

LEMMA WorkedInit == Init => Worked
<1> SUFFICES ASSUME NEW n \in Names, First(n) PROVE Worked
  BY DEF Init, First
<1>1. IInv
  BY InitInv DEF Init
<1>2. object[1] = Blank(n) /\ \A o \in Objects : o # 1 => object[o] = None
  BY FirstObject DEF First
<1>3. \A k \in Tasks : task[k].pc = "none"
  BY DEF First
<1>4. QED
  BY <1>1, <1>2, <1>3, BlankIdle DEF Worked, HasTask, Marked, LoadsEnded, First, Settled

LEMMA WorkedNext == Worked /\ [Next]_vars => Worked'
<1> SUFFICES ASSUME Worked, [Next]_vars PROVE Worked'
  OBVIOUS
<1>1. IInv /\ IInv'
  BY NextInv DEF Worked
<1>2. ASSUME NEW w \in writes, RenameTemporary(w) \/ FailSave(w) PROVE Worked'
  <2>1. writes' = writes \ {w} /\ \E saved \in BOOLEAN : AfterSave(w, saved)
    BY <1>2 DEF RenameTemporary, FailSave
  <2>2. QED
    BY <1>1, <2>1, SaveWorked
<1>3. QED
  BY <1>1, <1>2, Steps, QuietWorked, StartWorked, AnswerWorked, CreateWorked, DeleteWorked, RestartWorked

LEMMA WorkedInvariance == Spec => []Worked
<1>1. QED
  BY WorkedInit, WorkedNext, PTL DEF Spec

----------------------------------------------------------------------------
(* The open dialog of a session has its waiter *)

Waiting(o, x) ==
  \/ x \in Tasks /\ task[x].obj = o /\ task[x].reply = "open" /\ task[x].pc \in {"asking", "waiting"}
  \/ x \in Terminals /\ terminal[x].obj = o /\ terminal[x].reply = "open" /\ terminal[x].pc = "asking"

Attended ==
  \A o \in Objects : object[o] # None /\ object[o].asker # None => Waiting(o, object[o].asker)

\* No dialog is opened.
SameAskers ==
  \A o \in Objects : object'[o] # None /\ object'[o].asker # None =>
    object[o] # None /\ object'[o].asker = object[o].asker

LEMMA AttendedMeans == Attended <=> DialogHasWaiter
BY DEF Attended, DialogHasWaiter, Waiting

\* Nobody waits for the dialogs of two sessions.
LEMMA OneDialog ==
  ASSUME Attended, NEW o \in Objects, NEW p \in Objects, object[o] # None, object[p] # None,
         object[o].asker # None, object[o].asker = object[p].asker
  PROVE  o = p
BY WebAssumption DEF Attended, Waiting

LEMMA KeepsDialogs ==
  ASSUME Attended, SameAskers,
         \A o \in Objects : \A x : object'[o] # None /\ object'[o].asker = x /\ Waiting(o, x) => Waiting(o, x)'
  PROVE  Attended'
<1> SUFFICES ASSUME NEW o \in Objects, object'[o] # None, object'[o].asker # None
             PROVE  Waiting(o, object[o].asker)'
  BY DEF Attended
<1>1. PICK x : x = object'[o].asker
  OBVIOUS
<1>2. object[o] # None /\ object[o].asker = x
  BY <1>1 DEF SameAskers
<1>3. Waiting(o, x)
  BY <1>1, <1>2 DEF Attended
<1>4. Waiting(o, x)'
  BY <1>1, <1>3
<1>5. QED
  BY <1>1, <1>4 DEF Waiting

LEMMA SameWaiters == ASSUME Attended, SameAskers, UNCHANGED <<task, terminal>> PROVE Attended'
<1>1. \A o \in Objects : \A x : Waiting(o, x) => Waiting(o, x)'
  BY DEF Waiting
<1>2. QED
  BY <1>1, KeepsDialogs

\* A task that does not wait, or not for an open dialog, moves.
LEMMA TaskMoves ==
  ASSUME Attended, SameAskers, UNCHANGED terminal, NEW k \in Tasks,
         \A j \in Tasks : j # k => task'[j] = task[j],
         \/ task[k].pc \notin {"asking", "waiting"}
         \/ task[k].reply # "open"
         \/ object'[task[k].obj] = None \/ object'[task[k].obj].asker # k
  PROVE  Attended'
<1>1. \A o \in Objects : \A x :
        object'[o] # None /\ object'[o].asker = x /\ Waiting(o, x) => Waiting(o, x)'
  BY WebAssumption DEF Waiting
<1>2. QED
  BY <1>1, KeepsDialogs

LEMMA TerminalMoves ==
  ASSUME Attended, SameAskers, UNCHANGED task, NEW t \in Terminals,
         \A u \in Terminals : u # t => terminal'[u] = terminal[u],
         \/ terminal[t].pc # "asking"
         \/ terminal[t].reply # "open"
         \/ object'[terminal[t].obj] = None \/ object'[terminal[t].obj].asker # t
  PROVE  Attended'
<1>1. \A o \in Objects : \A x :
        object'[o] # None /\ object'[o].asker = x /\ Waiting(o, x) => Waiting(o, x)'
  BY WebAssumption DEF Waiting
<1>2. QED
  BY <1>1, KeepsDialogs

LEMMA OneAsker ==
  ASSUME NEW o \in Objects, object[o] # None, object'[o].asker \in {object[o].asker, None},
         \A p \in Objects : p # o => object'[p] = object[p]
  PROVE  SameAskers
BY DEF SameAskers

LEMMA NewAsker ==
  ASSUME NEW o \in Objects, object'[o].asker = None, \A p \in Objects : p # o => object'[p] = object[p]
  PROVE  SameAskers
BY DEF SameAskers

LEMMA FailAttended ==
  ASSUME IInv, Attended, UNCHANGED terminal, NEW k \in Tasks, Live(k), Fail(k),
         \/ task[k].pc \notin {"asking", "waiting"}
         \/ object[task[k].obj].asker # k
  PROVE  Attended'
<1> DEFINE o == task[k].obj
<1>1. o \in Objects /\ object[o] \in Object /\ object[o] # None
  BY LiveObject, NoneAssumption
<1>2. object'[o].asker = object[o].asker /\ \A p \in Objects : p # o => object'[p] = object[p]
  BY <1>1 DEF Fail, IInv, TypeOK, Object
<1>3. \A j \in Tasks : j # k => task'[j] = task[j]
  BY DEF Fail, IInv, TypeOK
<1>4. SameAskers
  BY <1>1, <1>2, OneAsker
<1>5. QED
  BY <1>2, <1>3, <1>4, TaskMoves

LEMMA GotoAttended ==
  ASSUME IInv, Attended, UNCHANGED <<object, terminal>>, NEW k \in Tasks, NEW pc, Goto(k, pc),
         task[k].pc \notin {"asking", "waiting"}
  PROVE  Attended'
<1>1. \A j \in Tasks : j # k => task'[j] = task[j]
  BY DEF Goto, IInv, TypeOK
<1>2. SameAskers
  BY DEF SameAskers
<1>3. QED
  BY <1>1, <1>2, TaskMoves

LEMMA TaskAttended == ASSUME IInv, Attended, NEW k \in Tasks, TaskStep(k) PROVE Attended'
<1> DEFINE o == task[k].obj
<1>1. Live(k)
  BY DEF TaskStep, Prepare, ScheduleCheckpoint, CheckCancel, OpenDialog, Wait, FailWork, AnswerWork,
         BeginTaskSave, DropMessage, At, Live
<1>2. o \in Objects /\ object[o] \in Object /\ object[o] # None
  BY <1>1, LiveObject, NoneAssumption
<1>3. CASE Prepare(k)
  BY <1>1, <1>3, GotoAttended, FailAttended DEF Prepare, At
<1>4. CASE ScheduleCheckpoint(k)
  <2>1. object'[o].asker = object[o].asker /\ \A p \in Objects : p # o => object'[p] = object[p]
    BY <1>2, <1>4 DEF ScheduleCheckpoint, IInv, TypeOK, Object
  <2>2. QED
    BY <1>2, <1>4, <2>1, OneAsker, SameWaiters DEF ScheduleCheckpoint
<1>5. CASE CheckCancel(k)
  BY <1>5, GotoAttended DEF CheckCancel, At
<1>6. CASE OpenDialog(k)
  <2>1. object'[o].asker = k /\ \A p \in Objects : p # o => object'[p] = object[p]
    BY <1>2, <1>6 DEF OpenDialog, IInv, TypeOK, Object
  <2>2. /\ task'[k].obj = o /\ task'[k].pc = "asking" /\ task'[k].reply = "open"
        /\ \A j \in Tasks : j # k => task'[j] = task[j]
    BY <1>6, TasksType DEF OpenDialog, Task
  <2>3. task[k].pc = "checked" /\ UNCHANGED terminal
    BY <1>6 DEF OpenDialog, At
  <2> SUFFICES ASSUME NEW p \in Objects, object'[p] # None, object'[p].asker # None
               PROVE  Waiting(p, object[p].asker)'
    BY DEF Attended
  <2>4. CASE p = o
    BY <2>1, <2>2, <2>4 DEF Waiting
  <2>5. CASE p # o
    <3>1. Waiting(p, object[p].asker) /\ object'[p] = object[p]
      BY <2>1, <2>5 DEF Attended
    <3>2. QED
      BY <2>2, <2>3, <3>1 DEF Waiting
  <2>6. QED
    BY <2>4, <2>5
<1>7. CASE Wait(k)
  <2> DEFINE Resume == task' = [task EXCEPT ![k].pc = "working", ![k].reply = "none"]
  <2>1. UNCHANGED terminal
    BY <1>7 DEF Wait
  <2>2. CASE Fail(k) /\ Lost(o, k, task[k].reply)
    BY <1>1, <2>1, <2>2, FailAttended DEF Lost
  <2>3. ASSUME Resume PROVE \A j \in Tasks : j # k => task'[j] = task[j]
    BY <2>3 DEF IInv, TypeOK
  <2>4. CASE Resume /\ UNCHANGED object /\ (task[k].reply = "sent" \/ Lost(o, k, task[k].reply))
    <3>1. SameAskers
      BY <2>4 DEF SameAskers
    <3>2. QED
      BY <2>1, <2>3, <2>4, <3>1, TaskMoves DEF Lost
  <2>5. CASE Resume /\ object' = [object EXCEPT ![o].asker = None]
    <3>1. object'[o].asker = None /\ \A p \in Objects : p # o => object'[p] = object[p]
      BY <1>2, <2>5 DEF IInv, TypeOK, Object
    <3>2. SameAskers
      BY <1>2, <3>1, NewAsker
    <3>3. None # k
      BY WebAssumption
    <3>4. QED
      BY <2>1, <2>3, <2>5, <3>1, <3>2, <3>3, TaskMoves
  <2>6. QED
    BY <1>7, <2>2, <2>4, <2>5 DEF Wait
<1>8. CASE FailWork(k)
  BY <1>1, <1>8, FailAttended DEF FailWork, At
<1>9. CASE AnswerWork(k)
  <2>1. object'[o].asker = object[o].asker /\ \A p \in Objects : p # o => object'[p] = object[p]
    BY <1>2, <1>9 DEF AnswerWork, IInv, TypeOK, Object
  <2>2. task[k].pc = "working" /\ UNCHANGED terminal /\ \A j \in Tasks : j # k => task'[j] = task[j]
    BY <1>9 DEF AnswerWork, At, Goto, IInv, TypeOK
  <2>3. SameAskers
    BY <1>2, <2>1, OneAsker
  <2>4. QED
    BY <2>2, <2>3, TaskMoves
<1>10. CASE BeginTaskSave(k)
  BY <1>10, SameWaiters DEF BeginTaskSave, SameAskers
<1>11. CASE DropMessage(k)
  BY <1>11, GotoAttended DEF DropMessage, At
<1>12. QED
  BY <1>3, <1>4, <1>5, <1>6, <1>7, <1>8, <1>9, <1>10, <1>11 DEF TaskStep

LEMMA ObjectAttended == ASSUME IInv, Attended, NEW o \in Objects, ObjectStep(o) PROVE Attended'
<1>1. object[o] \in Object /\ object[o] # None /\ UNCHANGED <<task, terminal>>
  BY ObjectTyped DEF IInv, ObjectStep, BeginCheckpoint, BeginCancelSave, DropCancel, SuggestTitle,
     BeginTitleSave
<1>2. \/ object' = [object EXCEPT ![o].scheduled = @ - 1]
      \/ object' = [object EXCEPT ![o].cancelSave = FALSE]
      \/ \E next \in {"given", "no"} : object' = [object EXCEPT ![o].titling = next]
  BY DEF ObjectStep, BeginCheckpoint, BeginCancelSave, DropCancel, SuggestTitle, BeginTitleSave
<1> DEFINE SameAsker == object'[o].asker = object[o].asker /\ \A p \in Objects : p # o => object'[p] = object[p]
<1>3. object' = [object EXCEPT ![o].scheduled = @ - 1] => SameAsker
  BY <1>1 DEF IInv, TypeOK, Object
<1>4. object' = [object EXCEPT ![o].cancelSave = FALSE] => SameAsker
  BY <1>1 DEF IInv, TypeOK, Object
<1>5. ASSUME NEW next \in {"given", "no"}, object' = [object EXCEPT ![o].titling = next]
      PROVE  SameAsker
  BY <1>1, <1>5 DEF IInv, TypeOK, Object
<1>6. SameAsker
  BY <1>2, <1>3, <1>4, <1>5
<1>7. QED
  BY <1>1, <1>6, OneAsker, SameWaiters

\* The handlers that answer dialogs: those of `closing` are closed.
LEMMA AnswersAttended ==
  ASSUME IInv, Attended, NEW closing \in SUBSET Objects, \A o \in closing : object[o] # None,
         NEW askers, askers = {object[o].asker : o \in closing},
         task' = TaskReplies(askers), terminal' = TerminalReplies(askers),
         \A o \in closing : object'[o].asker = None,
         \A o \in Objects \ closing : object'[o] = object[o]
  PROVE  Attended'
<1>1. SameAskers
  BY DEF SameAskers
<1>2. ASSUME NEW o \in Objects, NEW x, object'[o] # None, object'[o].asker = x, Waiting(o, x)
      PROVE  Waiting(o, x)'
  <2>1. x # None
    BY <1>2, WebAssumption DEF Waiting
  <2>2. o \notin closing /\ object[o] # None /\ object[o].asker = x
    BY <1>2, <2>1
  <2>3. x \notin askers
    BY <2>1, <2>2, OneDialog
  <2>4. x \in Tasks => task'[x] = task[x]
    BY <2>3 DEF TaskReplies
  <2>5. x \in Terminals => terminal'[x] = terminal[x]
    BY <2>3 DEF TerminalReplies
  <2>6. QED
    BY <1>2, <2>4, <2>5 DEF Waiting
<1>3. QED
  BY <1>1, <1>2, KeepsDialogs

LEMMA HandlerAttended == ASSUME IInv, Attended, HandlerStep PROVE Attended'
<1>1. ASSUME NEW n \in Names, NEW o \in Objects, NewSession(n, o) \/ LoadSession(n, o) PROVE Attended'
  <2>1. UNCHANGED <<task, terminal>> /\ \A p \in Objects : p # o => object'[p] = object[p]
    BY <1>1 DEF IInv, TypeOK, NewSession, LoadSession
  <2>2. object'[o] = Blank(n) \/ object'[o] = Loaded(n, file[n])
    BY <1>1 DEF IInv, TypeOK, NewSession, LoadSession
  <2>3. object'[o].asker = None
    BY <2>2, BlankIdle, LoadedIdle
  <2>4. QED
    BY <2>1, <2>3, NewAsker, SameWaiters
<1>2. ASSUME NEW n \in Names, NEW k \in Tasks, StartMessage(n, k) PROVE Attended'
  <2> DEFINE o == registry[n]
  <2>1. o \in Objects /\ object[o] \in Object /\ object[o] # None
    BY <1>2, RegisteredObject, NoneAssumption DEF StartMessage
  <2>2. object'[o].asker = object[o].asker /\ \A p \in Objects : p # o => object'[p] = object[p]
    BY <1>2, <2>1 DEF StartMessage, IInv, TypeOK, Object
  <2>3. /\ task[k].pc \notin {"asking", "waiting"} /\ UNCHANGED terminal
        /\ \A j \in Tasks : j # k => task'[j] = task[j]
    BY <1>2 DEF StartMessage, IInv, TypeOK
  <2>4. QED
    BY <2>1, <2>2, <2>3, OneAsker, TaskMoves
<1>3. ASSUME NEW n \in Names, CancelMessage(n) \/ PostDecision(n) PROVE Attended'
  <2> DEFINE o == registry[n]
  <2>1. o \in Objects /\ object[o] \in Object /\ object[o] # None
    BY <1>3, RegisteredObject, NoneAssumption DEF CancelMessage, PostDecision
  <2>2. object'[o].asker = None /\ \A p \in Objects : p # o => object'[p] = object[p]
    <3>1. CASE CancelMessage(n)
      BY <2>1, <3>1 DEF CancelMessage, IInv, TypeOK, Object
    <3>2. CASE PostDecision(n)
      BY <2>1, <3>2 DEF PostDecision, IInv, TypeOK, Object
    <3>3. QED
      BY <1>3, <3>1, <3>2
  <2>3. task' = TaskReplies({object[o].asker}) /\ terminal' = TerminalReplies({object[o].asker})
    BY <1>3 DEF CancelMessage, PostDecision
  <2>4. {object[o].asker} = {object[p].asker : p \in {o}}
    OBVIOUS
  <2>5. {o} \in SUBSET Objects
    BY <2>1
  <2>6. QED
    BY <2>1, <2>2, <2>3, <2>4, <2>5, AnswersAttended
<1>4. CASE Shutdown
  <2> DEFINE closing == {registry[n] : n \in Registered}
  <2>1. \A o \in closing : o \in Objects /\ object[o] \in Object /\ object[o] # None
    BY RegisteredObject, NoneAssumption DEF Registered
  <2>2. object' = [o \in Objects |->
                    IF o \in closing THEN [object[o] EXCEPT !.cancel = TRUE, !.asker = None]
                    ELSE object[o]]
        /\ task' = TaskReplies({object[o].asker : o \in closing})
        /\ terminal' = TerminalReplies({object[o].asker : o \in closing})
    BY <1>4 DEF Shutdown
  <2> HIDE DEF closing
  <2>3. closing \in SUBSET Objects /\ (\A o \in closing : object'[o].asker = None)
        /\ \A o \in Objects \ closing : object'[o] = object[o]
    BY <2>1, <2>2 DEF Object
  <2>4. QED
    BY <2>1, <2>2, <2>3, AnswersAttended
<1>5. CASE DeleteAll \/ \E n \in Names : DeleteSession(n) \/ LoadInterrupted(n)
  BY <1>5, SameWaiters DEF DeleteAll, DeleteSession, LoadInterrupted, SameAskers
<1>6. QED
  BY <1>1, <1>2, <1>3, <1>4, <1>5 DEF HandlerStep

LEMMA SaveAttended ==
  ASSUME IInv, Marked, Attended, NEW w \in writes, NEW saved \in BOOLEAN, AfterSave(w, saved)
  PROVE  Attended'
<1>1. CASE w.by = "task"
  <2> DEFINE k == w.task
             o == w.obj
  <2>1. /\ k \in Tasks /\ task[k].obj = o /\ task[k].pc \in SavePoints
        /\ o \in Objects /\ object[o] \in Object /\ object[o] # None
    BY <1>1, Saver, NoneAssumption
  <2>2. Settles(k, o) /\ Ends(k, o) /\ UNCHANGED terminal
    BY <1>1, AfterTaskSave, SaveEnds
  <2> HIDE DEF k, o
  <2>3. SameAskers
    BY <2>1, <2>2, OneAsker DEF Settles, Ends
  <2>4. CASE task[k].pc = "asking"
    <3>1. /\ task'[k].obj = o /\ task'[k].pc = "waiting" /\ task'[k].reply = task[k].reply
          /\ \A j \in Tasks : j # k => task'[j] = task[j]
      BY <2>2, <2>4 DEF Settles, Ends
    <3>2. \A p \in Objects : \A x : Waiting(p, x) => Waiting(p, x)'
      BY <2>1, <2>2, <3>1 DEF Waiting
    <3>3. QED
      BY <2>3, <3>2, KeepsDialogs
  <2>5. CASE task[k].pc # "asking"
    BY <2>1, <2>2, <2>3, <2>5, TaskMoves DEF Settles, SavePoints
  <2>6. QED
    BY <2>4, <2>5
<1>2. CASE w.by # "task"
  <2>1. UNCHANGED <<task, terminal>>
    BY <1>2, OtherSaves
  <2>2. CASE UNCHANGED object
    BY <2>1, <2>2, SameWaiters DEF SameAskers
  <2>3. CASE /\ w.obj \in Objects /\ object[w.obj] \in Object
             /\ object' = [object EXCEPT ![w.obj].title = TRUE]
    <3>1. /\ object'[w.obj].asker = object[w.obj].asker /\ object[w.obj] # None
          /\ \A p \in Objects : p # w.obj => object'[p] = object[p]
      BY <2>3, NoneAssumption DEF IInv, TypeOK, Object
    <3>2. QED
      BY <2>1, <2>3, <3>1, OneAsker, SameWaiters
  <2>4. ASSUME NEW o \in Objects, object' = [object EXCEPT ![o] = Loaded(w.name, w.document)]
        PROVE  Attended'
    <3>1. object'[o] = Loaded(w.name, w.document) /\ \A p \in Objects : p # o => object'[p] = object[p]
      BY <2>4 DEF IInv, TypeOK
    <3>2. QED
      BY <2>1, <3>1, LoadedIdle, NewAsker, SameWaiters
  <2>5. QED
    BY <1>2, <2>2, <2>3, <2>4, OtherSaves
<1>3. QED
  BY <1>1, <1>2

LEMMA TerminalAttended == ASSUME IInv, Attended, NEW t \in Terminals, TerminalStep(t) PROVE Attended'
<1>1. \A u \in Terminals : u # t => terminal'[u] = terminal[u]
  BY DEF TerminalStep, UpgradeTerminal, ConnectTerminal, CloseTerminal, CheckTerminal, AskTerminal,
         WaitTerminal, IInv, TypeOK
<1>2. UNCHANGED task
  BY DEF TerminalStep, UpgradeTerminal, ConnectTerminal, CloseTerminal, CheckTerminal, AskTerminal,
         WaitTerminal
<1>3. CASE \/ \E n \in Names : UpgradeTerminal(t, n)
           \/ ConnectTerminal(t) \/ CloseTerminal(t) \/ CheckTerminal(t)
  <2>1. terminal[t].pc # "asking" /\ UNCHANGED object
    BY <1>3 DEF UpgradeTerminal, ConnectTerminal, CloseTerminal, CheckTerminal
  <2>2. QED
    BY <1>1, <1>2, <2>1, TerminalMoves DEF SameAskers
<1> DEFINE o == terminal[t].obj
<1>4. ASSUME terminal[t].pc # "closed" PROVE o \in Objects /\ object[o] \in Object /\ object[o] # None
  BY <1>4, AttachedObject, NoneAssumption
<1>5. CASE AskTerminal(t)
  <2>1. o \in Objects /\ object[o] \in Object /\ object[o] # None /\ terminal[t].pc = "checked"
    BY <1>4, <1>5 DEF AskTerminal
  <2>2. object'[o].asker = t /\ \A p \in Objects : p # o => object'[p] = object[p]
    BY <1>5, <2>1 DEF AskTerminal, IInv, TypeOK, Object
  <2>3. terminal'[t].obj = o /\ terminal'[t].pc = "asking" /\ terminal'[t].reply = "open"
    BY <1>5 DEF AskTerminal, IInv, TypeOK, Terminal
  <2> SUFFICES ASSUME NEW p \in Objects, object'[p] # None, object'[p].asker # None
               PROVE  Waiting(p, object[p].asker)'
    BY DEF Attended
  <2>4. CASE p = o
    BY <2>2, <2>3, <2>4 DEF Waiting
  <2>5. CASE p # o
    <3>1. Waiting(p, object[p].asker) /\ object'[p] = object[p]
      BY <2>2, <2>5 DEF Attended
    <3>2. QED
      BY <1>1, <1>2, <2>1, <3>1 DEF Waiting
  <2>6. QED
    BY <2>4, <2>5
<1>6. CASE WaitTerminal(t)
  <2>1. o \in Objects /\ object[o] \in Object /\ object[o] # None
    BY <1>4, <1>6 DEF WaitTerminal
  <2>2. CASE UNCHANGED object /\ (terminal[t].reply = "sent" \/ Lost(o, t, terminal[t].reply))
    <3>1. SameAskers
      BY <2>2 DEF SameAskers
    <3>2. QED
      BY <1>1, <1>2, <2>2, <3>1, TerminalMoves DEF Lost
  <2>3. CASE object' = [object EXCEPT ![o].asker = None]
    <3>1. object'[o].asker = None /\ \A p \in Objects : p # o => object'[p] = object[p]
      BY <2>1, <2>3 DEF IInv, TypeOK, Object
    <3>2. SameAskers /\ None # t
      BY <2>1, <3>1, NewAsker, WebAssumption
    <3>3. QED
      BY <1>1, <1>2, <3>1, <3>2, TerminalMoves
  <2>4. QED
    BY <1>6, <2>2, <2>3 DEF WaitTerminal
<1>7. QED
  BY <1>3, <1>5, <1>6 DEF TerminalStep

LEMMA RestartAttended == ASSUME NEW n \in Names, Restart(n) PROVE Attended'
<1>1. object'[1] = Blank(n) /\ \A o \in Objects : o # 1 => object'[o] = None
  BY FirstObject DEF Restart
<1>2. QED
  BY <1>1, BlankIdle DEF Attended

LEMMA AttendedInit == Init => Attended
<1> SUFFICES ASSUME NEW n \in Names, First(n) PROVE Attended
  BY DEF Init, First
<1>1. object[1] = Blank(n) /\ \A o \in Objects : o # 1 => object[o] = None
  BY FirstObject DEF First
<1>2. QED
  BY <1>1, BlankIdle DEF Attended

LEMMA AttendedNext == Worked /\ Attended /\ [Next]_vars => Attended'
<1> SUFFICES ASSUME Worked, Attended, [Next]_vars PROVE Attended'
  OBVIOUS
<1>1. IInv /\ Marked
  BY DEF Worked
<1>2. CASE WriteStep
  <2>1. ASSUME NEW w \in writes, MakeTemporary(w) PROVE Attended'
    BY <2>1, SameWaiters DEF MakeTemporary, SameAskers
  <2>2. ASSUME NEW w \in writes, RenameTemporary(w) \/ FailSave(w) PROVE Attended'
    BY <1>1, <2>2, SaveAttended DEF RenameTemporary, FailSave
  <2>3. QED
    BY <1>2, <2>1, <2>2 DEF WriteStep
<1>3. CASE UNCHANGED vars
  BY <1>3, SameWaiters DEF vars, SameAskers
<1>4. QED
  BY <1>1, <1>2, <1>3, HandlerAttended, TaskAttended, ObjectAttended, TerminalAttended, RestartAttended
     DEF Next

----------------------------------------------------------------------------
(* An answer that was reported saved stays in the session's file.  A session that *)
(* is not deleted has one object, the registered one, and every snapshot of it    *)
(* ends with the last answer saved or a later one (Kept).                         *)

Reaches(turns, k) == turns # <<>> /\ turns[Len(turns)] >= k

KeptFile(n) ==
  answered[n] # 0 /\ n \notin deleted => file[n] # None /\ Reaches(file[n].turns, answered[n])

KeptObject(o) ==
  object[o] # None /\ object[o].name \notin deleted =>
    /\ registry[object[o].name] = o
    /\ answered[object[o].name] # 0 => Reaches(object[o].turns, answered[object[o].name])

KeptWrite(w) ==
  /\ w.by # "load" => w.name = object[w.obj].name
  /\ w.by # "orphan" /\ w.name \notin deleted /\ answered[w.name] # 0 =>
       Reaches(w.document.turns, answered[w.name])
  /\ w.by = "task" /\ task[w.task].pc = "answered" => Reaches(w.document.turns, w.task)

FilesKept == \A n \in Names : KeptFile(n)
ObjectsKept == \A o \in Objects : KeptObject(o)
SavesKept == \A w \in writes : KeptWrite(w)

\* A task adds its answer before it saves it, and tasks start in order.
TurnsKept == \A k \in Tasks : task[k].pc = "answered" => Reaches(object[task[k].obj].turns, k)
LiveLater == \A k \in Tasks : Live(k) => answered[object[task[k].obj].name] <= k
InOrder == \A j, k \in Tasks : j < k /\ task[k].pc # "none" => task[j].pc # "none"
AnsweredIssued ==
  \A n \in Names : answered[n] # 0 => n \in issued /\ task[answered[n]].pc # "none"

Kept ==
  /\ Worked /\ FilesKept /\ ObjectsKept /\ SavesKept
  /\ TurnsKept /\ LiveLater /\ InOrder /\ AnsweredIssued

\* No write whose handler was dropped is of an older answer than its session.
OrphansCurrent == \A w \in writes : w.by = "orphan" => w.document.turns = object[w.obj].turns

LEMMA AppendReaches ==
  ASSUME NEW s \in Seq(Tasks), NEW k \in Tasks, NEW j \in Nat, j <= k
  PROVE  Reaches(LastTurns(Append(s, k)), j)
<1> DEFINE t == Append(s, k)
<1>1. t \in Seq(Tasks) /\ Len(t) = Len(s) + 1 /\ Len(s) \in Nat /\ t[Len(t)] = k
  BY AppendProperties, LenProperties
<1> HIDE DEF t
<1>2. t # <<>>
  BY <1>1
<1>3. k \in Nat
  BY Constants DEF Tasks
<1>4. CASE Len(t) > ContextTurns
  <2> DEFINE m == Len(t) - ContextTurns + 1
             u == SubSeq(t, m, Len(t))
  <2>1. m \in 1 .. Len(t) /\ Len(t) \in m - 1 .. Len(t) /\ m \in Int /\ Len(t) - m + 1 = ContextTurns
    BY <1>1, <1>4, Constants
  <2> HIDE DEF m
  <2>2. u \in Seq(Tasks) /\ Len(u) = ContextTurns
        /\ \A i \in 1 .. Len(t) - m + 1 : u[i] = t[m + i - 1]
    <3>1. \A i \in m .. Len(t) : t[i] \in Tasks
      BY <1>1, <2>1, ElementOfSeq
    <3>2. /\ u \in Seq(Tasks)
          /\ Len(u) = IF m <= Len(t) THEN Len(t) - m + 1 ELSE 0
          /\ \A i \in 1 .. Len(t) - m + 1 : u[i] = t[m + i - 1]
      BY <2>1, <3>1, SubSeqProperties
    <3>3. QED
      BY <2>1, <3>2
  <2>3. ContextTurns \in 1 .. Len(t) - m + 1 /\ m + ContextTurns - 1 = Len(t)
    BY <1>1, <2>1, Constants
  <2>4. u[Len(u)] = k
    BY <1>1, <2>2, <2>3
  <2>5. u # <<>>
    BY <2>2, Constants
  <2>6. LastTurns(t) = u
    BY <1>4 DEF LastTurns, m
  <2> HIDE DEF u
  <2>7. QED
    BY <1>3, <2>4, <2>5, <2>6 DEF Reaches, t
<1>5. CASE ~ (Len(t) > ContextTurns)
  <2>1. LastTurns(t) = t
    BY <1>5 DEF LastTurns
  <2>2. QED
    BY <1>1, <1>2, <1>3, <2>1 DEF Reaches, t
<1>6. QED
  BY <1>4, <1>5

LEMMA LastReaches ==
  ASSUME NEW s \in Seq(Tasks), NEW j, Reaches(s, j) PROVE Reaches(LastTurns(s), j)
<1>1. CASE Len(s) > ContextTurns
  <2> DEFINE m == Len(s) - ContextTurns + 1
             u == SubSeq(s, m, Len(s))
  <2>1. m \in 1 .. Len(s) /\ Len(s) \in m - 1 .. Len(s) /\ m \in Int /\ Len(s) - m + 1 = ContextTurns
    BY <1>1, LenProperties, Constants
  <2>2. u \in Seq(Tasks) /\ Len(u) = ContextTurns
        /\ \A i \in 1 .. Len(s) - m + 1 : u[i] = s[m + i - 1]
    BY <2>1, SubSeqProperties
  <2>3. ContextTurns \in 1 .. Len(s) - m + 1 /\ m + ContextTurns - 1 = Len(s)
    BY <2>1, LenProperties, Constants
  <2>4. u[Len(u)] = s[Len(s)]
    BY <2>2, <2>3
  <2>5. u # <<>>
    BY <2>2, Constants
  <2>6. LastTurns(s) = u
    BY <1>1 DEF LastTurns
  <2> HIDE DEF u, m
  <2>7. QED
    BY <2>4, <2>5, <2>6 DEF Reaches
<1>2. CASE ~ (Len(s) > ContextTurns)
  BY <1>2 DEF LastTurns
<1>3. QED
  BY <1>1, <1>2

LEMMA ReachesMember ==
  ASSUME NEW s \in Seq(Tasks), NEW k, Reaches(s, k) PROVE \E i \in DOMAIN s : s[i] >= k
<1>1. Len(s) \in DOMAIN s
  BY EmptySeq, LenProperties DEF Reaches
<1>2. QED
  BY <1>1 DEF Reaches

\* The answers saved are numbers of tasks.
LEMMA AnsweredTask ==
  ASSUME TypeOK, NEW n \in Names PROVE answered[n] \in Nat /\ (answered[n] # 0 => answered[n] \in Tasks)
BY Constants DEF TypeOK, Tasks

LEMMA LiveName ==
  ASSUME IInv, NEW k \in Tasks, Live(k)
  PROVE  /\ task[k].obj \in Objects /\ object[task[k].obj] \in Object /\ object[task[k].obj] # None
         /\ task[k].obj # NoObject
         /\ object[task[k].obj].name \in Names
         /\ registry[object[task[k].obj].name] = task[k].obj
BY LiveObject DEF IInv, Held, Object

LEMMA WriteObject ==
  ASSUME IInv, NEW w \in writes, w.by # "load"
  PROVE  w.obj \in Objects /\ object[w.obj] # None /\ w.name \in Names /\ w.obj # NoObject
BY DEF IInv, TypeOK, Write, Saving

LEMMA QuietKept == ASSUME Kept, Worked', Quiet, QuietWrites PROVE Kept'
<1>1. IInv /\ IInv'
  BY DEF Kept, Worked
<1>2. UNCHANGED <<registry, file, issued, deleted, answered>>
  BY DEF Quiet
<1>3. ASSUME NEW o \in Objects, object'[o] # None
      PROVE  object[o] # None /\ object'[o].name = object[o].name /\ object'[o].turns = object[o].turns
  BY <1>3 DEF Quiet, QuietObject
<1>4. ASSUME NEW k \in Tasks
      PROVE  /\ task'[k].obj = task[k].obj /\ (task'[k].pc = "none" <=> task[k].pc = "none")
             /\ (Live(k)' => Live(k)) /\ (task'[k].pc = "answered" => task[k].pc = "answered")
  BY DEF Quiet, QuietTask
<1>5. FilesKept'
  BY <1>2 DEF Kept, FilesKept, KeptFile
<1>6. ObjectsKept'
  BY <1>2, <1>3 DEF Kept, ObjectsKept, KeptObject
<1>7. ASSUME NEW k \in Tasks, Live(k)'
      PROVE  /\ task[k].obj \in Objects /\ Live(k) /\ object'[task[k].obj] # None
             /\ object'[task[k].obj].name = object[task[k].obj].name
             /\ object'[task[k].obj].turns = object[task[k].obj].turns
  <2>1. Live(k) /\ task'[k].obj = task[k].obj /\ task[k].obj \in Objects
    BY <1>1, <1>4, <1>7, LiveName
  <2>2. object'[task[k].obj] # None
    BY <1>1, <1>7, <2>1 DEF IInv, Held
  <2>3. QED
    BY <1>3, <2>1, <2>2
<1>8. TurnsKept'
  <2> SUFFICES ASSUME NEW k \in Tasks, task'[k].pc = "answered"
               PROVE  Reaches(object'[task'[k].obj].turns, k)
    BY DEF TurnsKept
  <2>1. Live(k)'
    BY DEF Live
  <2>2. QED
    BY <1>4, <1>7, <2>1 DEF Kept, TurnsKept
<1>9. LiveLater'
  BY <1>2, <1>4, <1>7 DEF Kept, LiveLater
<1>10. InOrder'
  BY <1>4 DEF Kept, InOrder
<1>11. AnsweredIssued'
  BY <1>1, <1>2, <1>4, AnsweredTask DEF Kept, AnsweredIssued, IInv
<1>12. SavesKept'
  <2> SUFFICES ASSUME NEW v \in writes' PROVE KeptWrite(v)'
    BY DEF SavesKept
  <2>1. v.name \in Names /\ (v.by # "load" => v.obj \in Objects /\ object'[v.obj] # None)
    BY <1>1 DEF IInv, TypeOK, Saving, Write
  <2>2. v.by # "load" => object'[v.obj].name = object[v.obj].name /\ object[v.obj] # None
    BY <1>3, <2>1
  <2>3. CASE Carried(v)
    <3>1. PICK w \in writes :
            /\ v.name = w.name /\ v.obj = w.obj /\ v.task = w.task /\ v.document = w.document
            /\ v.by = w.by \/ (v.by = "orphan" /\ w.by # "load")
      BY <2>3 DEF Carried
    <3>2. KeptWrite(w)
      BY DEF Kept, SavesKept
    <3>3. w.by = "task" => w.task \in Tasks
      BY <1>1 DEF IInv, Saving
    <3>4. QED
      BY <1>2, <1>4, <2>2, <3>1, <3>2, <3>3 DEF KeptWrite
  <2>4. CASE Snapshot(v)
    <3>1. v.obj \in Objects /\ KeptObject(v.obj)
      BY <2>4 DEF Snapshot, Kept, ObjectsKept
    <3>2. v.by = "task" /\ task'[v.task].pc = "answered" => Reaches(v.document.turns, v.task)
      BY <1>4, <2>4 DEF Snapshot, Kept, TurnsKept
    <3>3. QED
      BY <1>2, <2>2, <2>4, <3>1, <3>2 DEF Snapshot, KeptObject, KeptWrite
  <2>5. CASE Interrupted(v)
    <3>1. KeptFile(v.name)
      BY <2>1 DEF Kept, FilesKept
    <3>2. QED
      BY <1>2, <2>5, <3>1 DEF Interrupted, KeptFile, KeptWrite
  <2>6. QED
    BY <2>3, <2>4, <2>5 DEF QuietWrites
<1>13. QED
  BY <1>5, <1>6, <1>8, <1>9, <1>10, <1>11, <1>12 DEF Kept

\* What stays when no task moves to an answer and no object changes its turns.
LEMMA CalmKept ==
  ASSUME Kept, Worked', UNCHANGED <<task, answered>>, issued \subseteq issued', deleted \subseteq deleted',
         \A o \in Objects : object[o] # None =>
           /\ object'[o] # None
           /\ object'[o].name = object[o].name /\ object'[o].turns = object[o].turns,
         writes' \subseteq writes
  PROVE  SavesKept' /\ TurnsKept' /\ LiveLater' /\ InOrder' /\ AnsweredIssued'
<1>1. IInv /\ IInv'
  BY DEF Kept, Worked
<1>2. SavesKept'
  <2> SUFFICES ASSUME NEW w \in writes PROVE KeptWrite(w)'
    BY DEF SavesKept
  <2>1. w.by # "load" => object'[w.obj].name = object[w.obj].name
    BY <1>1, WriteObject
  <2>2. KeptWrite(w)
    BY DEF Kept, SavesKept
  <2>3. QED
    BY <2>1, <2>2 DEF KeptWrite
<1>3. TurnsKept'
  <2> SUFFICES ASSUME NEW k \in Tasks, task[k].pc = "answered"
               PROVE  Reaches(object'[task[k].obj].turns, k)
    BY DEF TurnsKept
  <2>1. Live(k)
    BY DEF Live
  <2>2. QED
    BY <1>1, <2>1, LiveName DEF Kept, TurnsKept
<1>4. LiveLater'
  <2> SUFFICES ASSUME NEW k \in Tasks, Live(k) PROVE answered[object'[task[k].obj].name] <= k
    BY DEF LiveLater, Live
  <2>1. QED
    BY <1>1, LiveName DEF Kept, LiveLater
<1>5. InOrder' /\ AnsweredIssued'
  BY DEF Kept, InOrder, AnsweredIssued
<1>6. QED
  BY <1>2, <1>3, <1>4, <1>5

LEMMA CreateKept ==
  ASSUME Kept, Worked', NEW n \in Names, NEW o \in Objects, NewSession(n, o) \/ LoadSession(n, o)
  PROVE  Kept'
<1>1. IInv /\ IInv'
  BY DEF Kept, Worked
<1>2. /\ object[o] = None /\ UNCHANGED <<task, answered, deleted, file, writes>>
      /\ issued \subseteq issued'
  BY FirstUnused DEF NewSession, LoadSession, store, history
<1>3. /\ \A p \in Objects : p # o => object'[p] = object[p]
      /\ registry'[n] = o /\ \A m \in Names : m # n => registry'[m] = registry[m]
  BY <1>1 DEF IInv, TypeOK, NewSession, LoadSession
<1>4. SavesKept' /\ TurnsKept' /\ LiveLater' /\ InOrder' /\ AnsweredIssued'
  BY <1>2, <1>3, CalmKept
<1>5. FilesKept'
  BY <1>2 DEF Kept, FilesKept, KeptFile
<1>6. /\ object'[o].name = n
      /\ answered[n] # 0 /\ n \notin deleted => Reaches(object'[o].turns, answered[n])
  <2>1. CASE NewSession(n, o)
    <3>1. object'[o] = Blank(n) /\ n \notin issued
      BY <1>1, <2>1 DEF IInv, TypeOK, NewSession
    <3>2. object'[o].name = n
      BY <3>1, BlankType
    <3>3. answered[n] = 0
      BY <3>1 DEF Kept, AnsweredIssued
    <3>4. QED
      BY <3>2, <3>3
  <2>2. CASE LoadSession(n, o)
    <3>1. object'[o] = Loaded(n, file[n]) /\ file[n] # None /\ file[n].turns \in Seq(Tasks)
      BY <1>1, <2>2 DEF IInv, TypeOK, LoadSession, Documents
    <3>2. object'[o].name = n /\ object'[o].turns = LastTurns(file[n].turns)
      BY <3>1, LoadedIdle
    <3>3. KeptFile(n)
      BY DEF Kept, FilesKept
    <3>4. QED
      BY <3>1, <3>2, <3>3, LastReaches DEF KeptFile
  <2>3. QED
    BY <2>1, <2>2
<1>7. ObjectsKept'
  <2> SUFFICES ASSUME NEW p \in Objects, object'[p] # None, object'[p].name \notin deleted
               PROVE  /\ registry'[object'[p].name] = p
                      /\ answered[object'[p].name] # 0 =>
                           Reaches(object'[p].turns, answered[object'[p].name])
    BY <1>2 DEF ObjectsKept, KeptObject
  <2>1. CASE p = o
    BY <1>3, <1>6, <2>1
  <2>2. CASE p # o
    <3>1. object'[p] = object[p] /\ object[p] # None
      BY <1>3, <2>2
    <3>2. KeptObject(p) /\ object[p].name \in Names
      BY <1>1, <3>1, ObjectTyped DEF Kept, ObjectsKept, IInv, Object
    <3>3. object[p].name # n
      <4>1. registry[object[p].name] = p
        BY <3>1, <3>2 DEF KeptObject
      <4>2. CASE NewSession(n, o)
        <5>1. object[p].name \in issued /\ n \notin issued
          BY <1>1, <3>1, <4>2 DEF IInv, Issued, NewSession
        <5>2. QED
          BY <5>1
      <4>3. CASE LoadSession(n, o)
        BY <4>1, <4>3, Constants DEF LoadSession, Objects, NoObject
      <4>4. QED
        BY <4>2, <4>3
    <3>4. QED
      BY <1>3, <3>1, <3>2, <3>3 DEF KeptObject
  <2>3. QED
    BY <2>1, <2>2
<1>8. QED
  BY <1>4, <1>5, <1>7 DEF Kept

LEMMA DeleteKept ==
  ASSUME Kept, Worked', DeleteAll \/ \E n \in Names : DeleteSession(n) PROVE Kept'
<1>1. IInv /\ IInv'
  BY DEF Kept, Worked
<1>2. UNCHANGED <<object, task, answered, writes, issued>> /\ deleted \subseteq deleted'
  BY DEF DeleteAll, DeleteSession
<1>3. SavesKept' /\ TurnsKept' /\ LiveLater' /\ InOrder' /\ AnsweredIssued'
  BY <1>2, CalmKept
<1>4. \A m \in Names \ deleted' : file'[m] = file[m] /\ registry'[m] \in {registry[m], NoObject}
                                  /\ (registry[m] # NoObject => registry'[m] = registry[m])
  <2>1. ASSUME NEW n \in Names, DeleteSession(n)
        PROVE  \A m \in Names \ deleted' : file'[m] = file[m] /\ registry'[m] = registry[m]
    BY <1>1, <2>1 DEF DeleteSession, IInv, TypeOK
  <2>2. CASE DeleteAll
    <3>1. PICK gone \in SUBSET {n \in Names : file[n] # None} :
            /\ file' = [n \in Names |-> IF n \in gone THEN None ELSE file[n]]
            /\ \/ registry' = [n \in Names |-> NoObject] /\ deleted' = deleted \union gone \union Registered
               \/ deleted' = deleted \union gone /\ UNCHANGED registry
      BY <2>2 DEF DeleteAll
    <3>2. QED
      BY <3>1 DEF Registered
  <2>3. QED
    BY <2>1, <2>2
<1>5. FilesKept'
  BY <1>2, <1>4 DEF Kept, FilesKept, KeptFile
<1>6. ObjectsKept'
  <2> SUFFICES ASSUME NEW p \in Objects, object[p] # None, object[p].name \notin deleted'
               PROVE  /\ registry'[object[p].name] = p
                      /\ answered[object[p].name] # 0 => Reaches(object[p].turns, answered[object[p].name])
    BY <1>2 DEF ObjectsKept, KeptObject
  <2>1. object[p].name \in Names /\ object[p].name \notin deleted /\ KeptObject(p)
    BY <1>1, <1>2, ObjectTyped DEF Kept, ObjectsKept, IInv, Object
  <2>2. registry[object[p].name] = p /\ p # NoObject
    BY <2>1, Constants DEF KeptObject, Objects, NoObject
  <2>3. QED
    BY <1>4, <2>1, <2>2 DEF KeptObject
<1>7. QED
  BY <1>3, <1>5, <1>6 DEF Kept

LEMMA StartKept ==
  ASSUME Kept, Worked', NEW n \in Names, NEW k \in Tasks, StartMessage(n, k) PROVE Kept'
<1> DEFINE o == registry[n]
<1>1. IInv /\ IInv'
  BY DEF Kept, Worked
<1>2. o \in Objects /\ object[o] \in Object /\ object[o] # None /\ object[o].name = n /\ ~ object[o].busy
  BY <1>1, RegisteredObject, NoneAssumption DEF StartMessage
<1>3. /\ task'[k].obj = o /\ task'[k].pc = "accepted"
      /\ task[k].pc = "none" /\ \A j \in Tasks : j < k => task[j].pc # "none"
      /\ \A j \in Tasks : j # k => task'[j] = task[j]
  BY <1>1 DEF IInv, TypeOK, StartMessage
<1>4. UNCHANGED <<registry, issued, writes, file, deleted, answered>>
  BY DEF StartMessage, shared, store, history
<1>5. \A p \in Objects : /\ object'[p] # None => object[p] # None
                         /\ object[p] # None => /\ object'[p].name = object[p].name
                                                /\ object'[p].turns = object[p].turns
  <2>1. /\ object'[o].name = object[o].name /\ object'[o].turns = object[o].turns
        /\ \A p \in Objects : p # o => object'[p] = object[p]
    BY <1>1, <1>2 DEF IInv, TypeOK, StartMessage, Object
  <2>2. QED
    BY <1>2, <2>1
<1>6. FilesKept'
  BY <1>4 DEF Kept, FilesKept, KeptFile
<1>7. ObjectsKept'
  BY <1>4, <1>5 DEF Kept, ObjectsKept, KeptObject
<1>8. SavesKept'
  <2> SUFFICES ASSUME NEW w \in writes PROVE KeptWrite(w)'
    BY <1>4 DEF SavesKept
  <2>1. w.by # "load" => object'[w.obj].name = object[w.obj].name
    BY <1>1, <1>5, WriteObject
  <2>2. w.by = "task" /\ task'[w.task].pc = "answered" => task[w.task].pc = "answered"
    BY <1>1, <1>3 DEF IInv, Saving
  <2>3. KeptWrite(w)
    BY DEF Kept, SavesKept
  <2>4. QED
    BY <1>4, <2>1, <2>2, <2>3 DEF KeptWrite
<1>9. TurnsKept'
  <2> SUFFICES ASSUME NEW j \in Tasks, task'[j].pc = "answered"
               PROVE  Reaches(object'[task'[j].obj].turns, j)
    BY DEF TurnsKept
  <2>1. task'[j] = task[j] /\ Live(j)
    BY <1>3 DEF Live
  <2>2. QED
    BY <1>1, <1>5, <2>1, LiveName DEF Kept, TurnsKept
<1>10. LiveLater'
  <2> SUFFICES ASSUME NEW j \in Tasks, Live(j)' PROVE answered[object'[task'[j].obj].name] <= j
    BY <1>4 DEF LiveLater
  <2>1. CASE j = k
    <3>1. object'[task'[j].obj].name = n
      BY <1>2, <1>3, <1>5, <2>1
    <3>2. answered[n] \in Nat /\ (answered[n] # 0 => answered[n] \in Tasks)
      BY <1>1, AnsweredTask DEF IInv
    <3>3. answered[n] # 0 => ~ (k < answered[n])
      BY <1>3, <3>2 DEF Kept, AnsweredIssued, InOrder
    <3>4. k \in Nat
      BY Constants DEF Tasks
    <3>5. QED
      BY <2>1, <3>1, <3>2, <3>3, <3>4
  <2>2. CASE j # k
    <3>1. task'[j] = task[j] /\ Live(j)
      BY <1>3, <2>2 DEF Live
    <3>2. QED
      BY <1>1, <1>5, <3>1, LiveName DEF Kept, LiveLater
  <2>3. QED
    BY <2>1, <2>2
<1>11. InOrder'
  <2> SUFFICES ASSUME NEW i \in Tasks, NEW j \in Tasks, i < j, task'[j].pc # "none"
               PROVE  task'[i].pc # "none"
    BY DEF InOrder
  <2>1. QED
    BY <1>3 DEF Kept, InOrder
<1>12. AnsweredIssued'
  <2> SUFFICES ASSUME NEW m \in Names, answered[m] # 0
               PROVE  m \in issued /\ task'[answered[m]].pc # "none"
    BY <1>4 DEF AnsweredIssued
  <2>1. answered[m] \in Tasks
    BY <1>1, AnsweredTask DEF IInv
  <2>2. QED
    BY <1>3, <2>1 DEF Kept, AnsweredIssued
<1>13. QED
  BY <1>6, <1>7, <1>8, <1>9, <1>10, <1>11, <1>12 DEF Kept

LEMMA AnswerKept == ASSUME Kept, Worked', NEW k \in Tasks, AnswerWork(k) PROVE Kept'
<1> DEFINE o == task[k].obj
           turns == LastTurns(Append(object[o].turns, k))
<1>1. IInv /\ IInv'
  BY DEF Kept, Worked
<1>2. Live(k) /\ task[k].pc = "working"
  BY DEF AnswerWork, At, Live
<1>3. /\ o \in Objects /\ object[o] \in Object /\ object[o] # None /\ object[o].name \in Names
      /\ object[o].turns \in Seq(Tasks)
  BY <1>1, <1>2, LiveName DEF Object
<1>4. /\ task'[k].obj = o /\ task'[k].pc = "answered"
      /\ \A j \in Tasks : j # k => task'[j] = task[j]
  BY <1>1 DEF IInv, TypeOK, AnswerWork, Goto, Task
<1>5. /\ object'[o].name = object[o].name /\ object'[o].turns = turns
      /\ \A p \in Objects : p # o => object'[p] = object[p]
  BY <1>1, <1>3 DEF IInv, TypeOK, AnswerWork, Object
<1>6. \A p \in Objects : object'[p] # None => object[p] # None /\ object'[p].name = object[p].name
  BY <1>3, <1>5
<1>7. \A j \in Nat : j <= k => Reaches(turns, j)
  BY <1>3, AppendReaches
<1> HIDE DEF turns
<1>8. UNCHANGED <<registry, issued, writes, file, deleted, answered>>
  BY DEF AnswerWork, shared, store, history
<1>9. FilesKept'
  BY <1>8 DEF Kept, FilesKept, KeptFile
<1>10. ObjectsKept'
  <2> SUFFICES ASSUME NEW p \in Objects, object'[p] # None PROVE KeptObject(p)'
    BY DEF ObjectsKept, KeptObject
  <2>1. KeptObject(p) /\ object[p] # None
    BY <1>6 DEF Kept, ObjectsKept
  <2>2. CASE p = o
    <3>1. answered[object[o].name] \in Nat /\ answered[object[o].name] <= k
      BY <1>1, <1>2, <1>3, AnsweredTask DEF Kept, LiveLater, IInv
    <3>2. Reaches(object'[o].turns, answered[object[o].name])
      BY <1>5, <1>7, <3>1
    <3>3. QED
      BY <1>5, <1>8, <2>1, <2>2, <3>2 DEF KeptObject
  <2>3. CASE p # o
    BY <1>5, <1>8, <2>1, <2>3 DEF KeptObject
  <2>4. QED
    BY <2>2, <2>3
<1>11. SavesKept'
  <2> SUFFICES ASSUME NEW w \in writes PROVE KeptWrite(w)'
    BY <1>8 DEF SavesKept
  <2>1. w.by # "load" => object'[w.obj].name = object[w.obj].name
    BY <1>1, <1>3, <1>5, WriteObject
  <2>2. w.by = "task" => w.task \in Tasks /\ w.task # k
    BY <1>1, <1>2 DEF IInv, Saving, SavePoints
  <2>3. KeptWrite(w)
    BY DEF Kept, SavesKept
  <2>4. QED
    BY <1>4, <1>8, <2>1, <2>2, <2>3 DEF KeptWrite
<1>12. TurnsKept'
  <2> SUFFICES ASSUME NEW j \in Tasks, task'[j].pc = "answered"
               PROVE  Reaches(object'[task'[j].obj].turns, j)
    BY DEF TurnsKept
  <2>1. CASE j = k
    <3>1. k \in Nat /\ k <= k
      BY Constants DEF Tasks
    <3>2. QED
      BY <1>4, <1>5, <1>7, <2>1, <3>1
  <2>2. CASE j # k
    <3>1. task'[j] = task[j] /\ Live(j)
      BY <1>4, <2>2 DEF Live
    <3>2. task[j].obj \in Objects /\ task[j].obj # o
      BY <1>1, <1>2, <2>2, <3>1, LiveName DEF IInv, OneEach
    <3>3. QED
      BY <1>5, <3>1, <3>2 DEF Kept, TurnsKept
  <2>3. QED
    BY <2>1, <2>2
<1>13. LiveLater'
  <2> SUFFICES ASSUME NEW j \in Tasks, Live(j)' PROVE answered[object'[task'[j].obj].name] <= j
    BY <1>8 DEF LiveLater
  <2>1. Live(j) /\ task'[j].obj = task[j].obj
    BY <1>2, <1>4 DEF Live
  <2>2. task[j].obj \in Objects /\ object'[task[j].obj].name = object[task[j].obj].name
    BY <1>1, <1>5, <2>1, LiveName
  <2>3. QED
    BY <2>1, <2>2 DEF Kept, LiveLater
<1>14. InOrder'
  <2>1. \A j \in Tasks : task'[j].pc = "none" <=> task[j].pc = "none"
    BY <1>2, <1>4
  <2>2. QED
    BY <2>1 DEF Kept, InOrder
<1>15. AnsweredIssued'
  <2> SUFFICES ASSUME NEW m \in Names, answered[m] # 0
               PROVE  m \in issued /\ task'[answered[m]].pc # "none"
    BY <1>8 DEF AnsweredIssued
  <2>1. answered[m] \in Tasks
    BY <1>1, AnsweredTask DEF IInv
  <2>2. QED
    BY <1>4, <2>1 DEF Kept, AnsweredIssued
<1>16. QED
  BY <1>9, <1>10, <1>11, <1>12, <1>13, <1>14, <1>15 DEF Kept

LEMMA RestartKept == ASSUME Kept, Worked', NEW n \in Names, Restart(n) PROVE Kept'
<1>1. IInv /\ IInv'
  BY DEF Kept, Worked
<1>2. /\ object'[1] = Blank(n) /\ \A o \in Objects : o # 1 => object'[o] = None
      /\ Blank(n).name = n /\ registry'[n] = 1
  BY FirstObject, BlankType DEF Restart
<1>3. \A k \in Tasks : /\ task'[k].pc \in Away
                       /\ task'[k].pc = "none" <=> task[k].pc = "none"
  BY DEF Restart, At, Away
<1>4. UNCHANGED <<file, deleted, answered>> /\ writes' = {} /\ issued' = issued \union {n} /\ n \notin issued
  BY DEF Restart, store, history
<1>5. answered[n] = 0
  BY <1>4 DEF Kept, AnsweredIssued
<1>6. FilesKept'
  BY <1>4 DEF Kept, FilesKept, KeptFile
<1>7. ObjectsKept'
  BY <1>2, <1>4, <1>5 DEF ObjectsKept, KeptObject
<1>8. SavesKept' /\ TurnsKept' /\ LiveLater'
  BY <1>3, <1>4 DEF SavesKept, TurnsKept, LiveLater, Live, Away
<1>9. InOrder'
  BY <1>3 DEF Kept, InOrder
<1>10. AnsweredIssued'
  <2> SUFFICES ASSUME NEW m \in Names, answered[m] # 0
               PROVE  m \in issued' /\ task'[answered[m]].pc # "none"
    BY <1>4 DEF AnsweredIssued
  <2>1. answered[m] \in Tasks
    BY <1>1, AnsweredTask DEF IInv
  <2>2. QED
    BY <1>3, <1>4, <2>1 DEF Kept, AnsweredIssued
<1>11. QED
  BY <1>6, <1>7, <1>8, <1>9, <1>10 DEF Kept

\* A save ends.
SaveOf(w, saved) ==
  /\ AfterSave(w, saved)
  /\ writes' = writes \ {w}
  /\ file' = IF saved THEN [file EXCEPT ![w.name] = w.document] ELSE file
  /\ UNCHANGED <<issued, starts, deleted>>

\* What is written is not behind the last answer.
LEMMA WrittenReaches ==
  ASSUME Kept, OrphansCurrent, NEW w \in writes, w.name \notin deleted, answered[w.name] # 0
  PROVE  Reaches(w.document.turns, answered[w.name])
<1>1. KeptWrite(w)
  BY DEF Kept, SavesKept
<1>2. CASE w.by # "orphan"
  BY <1>1, <1>2 DEF KeptWrite
<1>3. CASE w.by = "orphan"
  <2>1. w.obj \in Objects /\ object[w.obj] # None /\ KeptObject(w.obj)
    BY <1>3, WriteObject DEF Kept, Worked, ObjectsKept
  <2>2. w.name = object[w.obj].name /\ w.document.turns = object[w.obj].turns
    BY <1>1, <1>3 DEF KeptWrite, OrphansCurrent
  <2>3. QED
    BY <2>1, <2>2 DEF KeptObject
<1>4. QED
  BY <1>2, <1>3

LEMMA TaskSaveKept ==
  ASSUME Kept, Worked', OrphansCurrent, NEW w \in writes, w.by = "task", NEW saved \in BOOLEAN,
         SaveOf(w, saved)
  PROVE  Kept'
<1> DEFINE k == w.task
           o == w.obj
           n == w.name
<1>1. IInv /\ IInv' /\ Marked /\ KeptWrite(w)
  BY DEF Kept, Worked, SavesKept
<1>2. /\ k \in Tasks /\ task[k].obj = o /\ task[k].pc \in SavePoints /\ Live(k)
      /\ o \in Objects /\ object[o] \in Object /\ object[o] # None /\ o # NoObject
      /\ n \in Names /\ object[o].name = n /\ registry[n] = o
      /\ w.document \in Documents /\ n \in issued
  <2>1. /\ k \in Tasks /\ task[k].obj = o /\ task[k].pc \in SavePoints /\ Live(k)
    BY <1>1, Saver
  <2>2. object[o].name = n
    BY <1>1 DEF KeptWrite
  <2>3. w.document \in Documents /\ n \in issued
    BY <1>1 DEF IInv, TypeOK, Write, Issued
  <2>4. QED
    BY <1>1, <2>1, <2>2, <2>3, LiveName
<1>3. Settles(k, o) /\ Ends(k, o) /\ UNCHANGED <<registry, terminal>>
  BY <1>1, AfterTaskSave, SaveEnds DEF SaveOf
<1>4. answered' = IF task[k].pc = "answered" /\ saved THEN [answered EXCEPT ![n] = k] ELSE answered
  BY DEF SaveOf, AfterSave, At
<1>5. writes' = writes \ {w} /\ UNCHANGED <<issued, deleted>>
      /\ file' = IF saved THEN [file EXCEPT ![n] = w.document] ELSE file
  BY DEF SaveOf
<1>6. n \notin deleted /\ answered[n] # 0 => Reaches(w.document.turns, answered[n])
  BY WrittenReaches
<1>7. task[k].pc = "answered" => Reaches(w.document.turns, k)
  BY <1>1 DEF KeptWrite
<1>8. \A v \in writes : v # w /\ v.by # "orphan" /\ n \notin deleted => v.name # n
  <2> SUFFICES ASSUME NEW v \in writes, v # w, v.by # "orphan", n \notin deleted, v.name = n PROVE FALSE
    OBVIOUS
  <2>1. CASE v.by = "load"
    BY <1>1, <1>2, <2>1 DEF IInv, Saving
  <2>2. CASE v.by # "load"
    <3>1. v.obj \in Objects /\ object[v.obj] # None /\ object[v.obj].name = n
      BY <1>1, <2>2, WriteObject DEF Kept, SavesKept, KeptWrite
    <3>2. registry[n] = v.obj
      BY <3>1 DEF Kept, ObjectsKept, KeptObject
    <3>3. v.obj = w.obj /\ w.by # "orphan"
      BY <1>2, <3>2
    <3>4. QED
      BY <1>1, <3>3 DEF IInv, OneSave
  <2>3. QED
    BY <2>1, <2>2
<1>9. w.by = "task" /\ w \in writes
  OBVIOUS
<1> HIDE DEF k, o, n
<1>10. /\ task'[k].obj = o /\ \A j \in Tasks : j # k => task'[j] = task[j]
       /\ object'[o].name = n /\ object'[o].turns = object[o].turns
       /\ \A p \in Objects : p # o => object'[p] = object[p]
       /\ task'[k].pc \notin {"none", "answered"}
  BY <1>2, <1>3 DEF Settles, Ends
<1>11. /\ \A m \in Names : m # n => answered'[m] = answered[m]
       /\ \/ task[k].pc = "answered" /\ saved /\ answered'[n] = k
          \/ UNCHANGED answered /\ ~ (task[k].pc = "answered" /\ saved)
  BY <1>1, <1>2, <1>4 DEF IInv, TypeOK
<1>12. FilesKept'
  <2> SUFFICES ASSUME NEW m \in Names PROVE KeptFile(m)'
    BY DEF FilesKept
  <2>1. KeptFile(m)
    BY DEF Kept, FilesKept
  <2>2. CASE m # n
    BY <1>1, <1>5, <1>11, <2>1, <2>2 DEF KeptFile, IInv, TypeOK
  <2>3. CASE m = n /\ saved
    <3>1. file'[n] = w.document /\ w.document # None
      BY <1>1, <1>2, <1>5, <2>3, NoneAssumption DEF IInv, TypeOK
    <3>2. n \notin deleted /\ answered'[n] # 0 => Reaches(w.document.turns, answered'[n])
      BY <1>6, <1>7, <1>11
    <3>3. QED
      BY <1>5, <2>3, <3>1, <3>2 DEF KeptFile
  <2>4. CASE m = n /\ ~ saved
    BY <1>5, <1>11, <2>1, <2>4 DEF KeptFile
  <2>5. QED
    BY <2>2, <2>3, <2>4
<1>13. ObjectsKept'
  <2> SUFFICES ASSUME NEW p \in Objects, object'[p] # None PROVE KeptObject(p)'
    BY DEF ObjectsKept, KeptObject
  <2>1. CASE p = o
    <3>1. KeptObject(o)
      BY <1>2 DEF Kept, ObjectsKept
    <3>2. answered'[n] # 0 /\ n \notin deleted => Reaches(object[o].turns, answered'[n])
      <4>1. CASE task[k].pc = "answered" /\ answered'[n] = k
        BY <1>2, <4>1 DEF Kept, TurnsKept
      <4>2. CASE UNCHANGED answered
        BY <1>2, <3>1, <4>2 DEF KeptObject
      <4>3. QED
        BY <1>11, <4>1, <4>2
    <3>3. QED
      BY <1>2, <1>3, <1>5, <1>10, <2>1, <3>2 DEF KeptObject
  <2>2. CASE p # o
    <3>1. object'[p] = object[p] /\ object[p] # None /\ KeptObject(p) /\ object[p].name \in Names
      BY <1>1, <1>10, <2>2, ObjectTyped DEF Kept, ObjectsKept, IInv, Object
    <3>2. object[p].name \notin deleted => object[p].name # n
      BY <1>2, <2>2, <3>1 DEF KeptObject
    <3>3. QED
      BY <1>3, <1>5, <1>11, <3>1, <3>2 DEF KeptObject
  <2>3. QED
    BY <2>1, <2>2
<1>14. SavesKept'
  <2> SUFFICES ASSUME NEW v \in writes, v # w PROVE KeptWrite(v)'
    BY <1>5 DEF SavesKept
  <2>1. KeptWrite(v) /\ v.name \in Names
    BY <1>1 DEF Kept, SavesKept, IInv, TypeOK, Write
  <2>2. v.by # "load" => object'[v.obj].name = object[v.obj].name
    BY <1>1, <1>2, <1>10, WriteObject
  <2>3. v.by # "orphan" /\ v.name \notin deleted => answered'[v.name] = answered[v.name]
    BY <1>8, <1>11, <2>1
  <2>4. v.by = "task" /\ task'[v.task].pc = "answered" => task[v.task].pc = "answered"
    BY <1>1, <1>10 DEF IInv, Saving
  <2>5. QED
    BY <1>5, <2>1, <2>2, <2>3, <2>4 DEF KeptWrite
<1>15. TurnsKept'
  <2> SUFFICES ASSUME NEW j \in Tasks, task'[j].pc = "answered"
               PROVE  Reaches(object'[task'[j].obj].turns, j)
    BY DEF TurnsKept
  <2>1. task'[j] = task[j] /\ Live(j)
    BY <1>10 DEF Live
  <2>2. task[j].obj \in Objects
    BY <1>1, <2>1, LiveName
  <2>3. object'[task[j].obj].turns = object[task[j].obj].turns
    BY <1>10, <2>2
  <2>4. QED
    BY <2>1, <2>3 DEF Kept, TurnsKept
<1>16. LiveLater'
  <2> SUFFICES ASSUME NEW j \in Tasks, Live(j)' PROVE answered'[object'[task'[j].obj].name] <= j
    BY DEF LiveLater
  <2>1. CASE j = k
    <3>1. object'[task'[k].obj].name = n /\ answered[n] <= k /\ k \in Nat
      BY <1>2, <1>10, Constants DEF Kept, LiveLater, Tasks
    <3>2. QED
      BY <1>11, <2>1, <3>1
  <2>2. CASE j # k
    <3>1. task'[j] = task[j] /\ Live(j)
      BY <1>10, <2>2 DEF Live
    <3>2. /\ task[j].obj \in Objects /\ task[j].obj # o
          /\ object[task[j].obj].name \in Names /\ registry[object[task[j].obj].name] = task[j].obj
      BY <1>1, <1>2, <2>2, <3>1, LiveName DEF IInv, OneEach
    <3>3. object'[task[j].obj] = object[task[j].obj] /\ object[task[j].obj].name # n
      BY <1>2, <1>10, <3>2
    <3>4. QED
      BY <1>11, <3>1, <3>2, <3>3 DEF Kept, LiveLater
  <2>3. QED
    BY <2>1, <2>2
<1>17. \A j \in Tasks : task'[j].pc = "none" <=> task[j].pc = "none"
  BY <1>2, <1>10 DEF Live
<1>18. InOrder'
  BY <1>17 DEF Kept, InOrder
<1>19. AnsweredIssued'
  <2> SUFFICES ASSUME NEW m \in Names, answered'[m] # 0
               PROVE  m \in issued /\ task'[answered'[m]].pc # "none"
    BY <1>5 DEF AnsweredIssued
  <2>1. CASE m = n /\ answered'[n] = k
    BY <1>2, <1>10, <2>1
  <2>2. CASE answered'[m] = answered[m]
    <3>1. answered[m] \in Tasks
      BY <1>1, <2>2, AnsweredTask DEF IInv
    <3>2. QED
      BY <1>17, <2>2, <3>1 DEF Kept, AnsweredIssued
  <2>3. QED
    BY <1>11, <2>1, <2>2
<1>20. QED
  BY <1>12, <1>13, <1>14, <1>15, <1>16, <1>18, <1>19 DEF Kept

LEMMA OtherSaveKept ==
  ASSUME Kept, Worked', OrphansCurrent, NEW w \in writes, w.by # "task", NEW saved \in BOOLEAN,
         SaveOf(w, saved)
  PROVE  Kept'
<1>1. IInv /\ IInv'
  BY DEF Kept, Worked
<1>2. w.name \in Names /\ w.document \in Documents /\ w.document # None
  BY <1>1, NoneAssumption DEF IInv, TypeOK, Write
<1>3. /\ UNCHANGED <<task, answered, issued, deleted>> /\ writes' \subseteq writes
      /\ file' = IF saved THEN [file EXCEPT ![w.name] = w.document] ELSE file
  BY <1>1, OtherSaves DEF SaveOf
<1>4. FilesKept'
  <2> SUFFICES ASSUME NEW m \in Names PROVE KeptFile(m)'
    BY DEF FilesKept
  <2>1. KeptFile(m)
    BY DEF Kept, FilesKept
  <2>2. CASE m = w.name /\ saved
    <3>1. file'[m] = w.document
      BY <1>1, <1>2, <1>3, <2>2 DEF IInv, TypeOK
    <3>2. QED
      BY <1>2, <1>3, <2>2, <3>1, WrittenReaches DEF KeptFile
  <2>3. CASE ~ (m = w.name /\ saved)
    BY <1>1, <1>3, <2>1, <2>3 DEF KeptFile, IInv, TypeOK
  <2>4. QED
    BY <2>2, <2>3
<1>5. CASE UNCHANGED <<object, registry>>
  <2>1. SavesKept' /\ TurnsKept' /\ LiveLater' /\ InOrder' /\ AnsweredIssued'
    BY <1>3, <1>5, CalmKept
  <2>2. ObjectsKept'
    BY <1>3, <1>5 DEF Kept, ObjectsKept, KeptObject
  <2>3. QED
    BY <1>4, <2>1, <2>2 DEF Kept
<1>6. CASE /\ w.obj \in Objects /\ object[w.obj] \in Object /\ UNCHANGED registry
           /\ object' = [object EXCEPT ![w.obj].title = TRUE]
  <2>1. /\ object'[w.obj].name = object[w.obj].name /\ object'[w.obj].turns = object[w.obj].turns
        /\ object'[w.obj] \in Object
        /\ \A p \in Objects : p # w.obj => object'[p] = object[p]
    BY <1>1, <1>6 DEF IInv, TypeOK, Object
  <2>2. \A p \in Objects : /\ object'[p] # None <=> object[p] # None
                           /\ object'[p].name = object[p].name /\ object'[p].turns = object[p].turns
    BY <1>6, <2>1, NoneAssumption
  <2>3. SavesKept' /\ TurnsKept' /\ LiveLater' /\ InOrder' /\ AnsweredIssued'
    BY <1>3, <2>2, CalmKept
  <2>4. ObjectsKept'
    BY <1>3, <1>6, <2>2 DEF Kept, ObjectsKept, KeptObject
  <2>5. QED
    BY <1>4, <2>3, <2>4 DEF Kept
<1>7. ASSUME w.by = "load", NEW o \in Objects, object[o] = None,
             object' = [object EXCEPT ![o] = Loaded(w.name, w.document)],
             registry' = [registry EXCEPT ![w.name] = o]
      PROVE  Kept'
  <2>1. /\ object'[o] = Loaded(w.name, w.document)
        /\ \A p \in Objects : p # o => object'[p] = object[p]
        /\ registry'[w.name] = o /\ \A m \in Names : m # w.name => registry'[m] = registry[m]
    BY <1>1, <1>2, <1>7 DEF IInv, TypeOK
  <2>2. object'[o].name = w.name /\ object'[o].turns = LastTurns(w.document.turns)
    BY <2>1, LoadedIdle
  <2>3. w.name \notin deleted /\ answered[w.name] # 0 => Reaches(object'[o].turns, answered[w.name])
    <3>1. w.document.turns \in Seq(Tasks)
      BY <1>2 DEF Documents
    <3>2. QED
      BY <2>2, <3>1, WrittenReaches, LastReaches
  <2>4. SavesKept' /\ TurnsKept' /\ LiveLater' /\ InOrder' /\ AnsweredIssued'
    <3>1. \A p \in Objects : object[p] # None =>
            /\ object'[p] # None
            /\ object'[p].name = object[p].name /\ object'[p].turns = object[p].turns
      BY <1>7, <2>1
    <3>2. QED
      BY <1>3, <3>1, CalmKept
  <2>5. ObjectsKept'
    <3> SUFFICES ASSUME NEW p \in Objects, object'[p] # None PROVE KeptObject(p)'
      BY DEF ObjectsKept, KeptObject
    <3>1. CASE p = o
      BY <1>3, <2>1, <2>2, <2>3, <3>1 DEF KeptObject
    <3>2. CASE p # o
      <4>1. object'[p] = object[p] /\ object[p] # None /\ KeptObject(p) /\ object[p].name \in Names
        BY <1>1, <2>1, <3>2, ObjectTyped DEF Kept, ObjectsKept, IInv, Object
      <4>2. registry[w.name] = NoObject /\ p # NoObject
        BY <1>1, <1>7, Constants DEF IInv, Saving, Objects, NoObject
      <4>3. object[p].name \notin deleted => object[p].name # w.name
        BY <4>1, <4>2 DEF KeptObject
      <4>4. QED
        BY <1>3, <2>1, <4>1, <4>3 DEF KeptObject
    <3>3. QED
      BY <3>1, <3>2
  <2>6. QED
    BY <1>4, <2>4, <2>5 DEF Kept
<1>8. QED
  BY <1>1, <1>5, <1>6, <1>7, OtherSaves DEF SaveOf

LEMMA KeptInit == Init => Kept
<1> SUFFICES ASSUME NEW n \in Names, First(n) PROVE Kept
  BY DEF Init, First
<1>1. Worked
  BY WorkedInit DEF Init
<1>2. /\ object[1] = Blank(n) /\ \A o \in Objects : o # 1 => object[o] = None
      /\ Blank(n).name = n /\ registry[n] = 1
  BY FirstObject, BlankType DEF First
<1>3. \A m \in Names : answered[m] = 0
  BY DEF First
<1>4. \A k \in Tasks : task[k].pc = "none"
  BY DEF First
<1>5. ObjectsKept
  BY <1>2, <1>3 DEF ObjectsKept, KeptObject
<1>6. QED
  BY <1>1, <1>3, <1>4, <1>5
     DEF Kept, FilesKept, KeptFile, SavesKept, TurnsKept, LiveLater, InOrder, AnsweredIssued, Live, First

LEMMA KeptNext == Kept /\ OrphansCurrent /\ [Next]_vars => Kept'
<1> SUFFICES ASSUME Kept, OrphansCurrent, [Next]_vars PROVE Kept'
  OBVIOUS
<1>1. Worked'
  BY WorkedNext DEF Kept
<1>2. ASSUME NEW w \in writes, RenameTemporary(w) \/ FailSave(w) PROVE Kept'
  <2>1. SaveOf(w, TRUE) \/ SaveOf(w, FALSE)
    BY <1>2 DEF RenameTemporary, FailSave, SaveOf
  <2>2. QED
    BY <1>1, <2>1, TaskSaveKept, OtherSaveKept
<1>3. IInv
  BY DEF Kept, Worked
<1>4. QED
  BY <1>1, <1>2, <1>3, Steps, QuietKept, StartKept, AnswerKept, CreateKept, DeleteKept, RestartKept

LEMMA KeptMeans == Kept => AnswersAreKept
<1> SUFFICES ASSUME Kept, NEW n \in Names, answered[n] # 0, n \notin deleted
             PROVE  file[n] # None /\ \E i \in DOMAIN file[n].turns : file[n].turns[i] >= answered[n]
  BY DEF AnswersAreKept
<1>1. file[n] # None /\ Reaches(file[n].turns, answered[n])
  BY DEF Kept, FilesKept, KeptFile
<1>2. file[n].turns \in Seq(Tasks)
  BY <1>1 DEF Kept, Worked, IInv, TypeOK, Documents
<1>3. QED
  BY <1>1, <1>2, ReachesMember

\* Without disconnections no handler is dropped.
LEMMA NoOrphanNext ==
  ASSUME ~ Disconnects PROVE (\A w \in writes : w.by # "orphan") /\ Worked /\ [Next]_vars
                             => (\A w \in writes : w.by # "orphan")'
<1> SUFFICES ASSUME \A w \in writes : w.by # "orphan", IInv, [Next]_vars
             PROVE  \A v \in writes' : v.by # "orphan"
  BY DEF Worked
<1>1. ASSUME NEW w \in writes, MakeTemporary(w) PROVE \A v \in writes' : v.by # "orphan"
  <2>1. [w EXCEPT !.made = TRUE].by = w.by
    BY DEF IInv, TypeOK, Write
  <2>2. QED
    BY <1>1, <2>1 DEF MakeTemporary
<1>2. CASE HandlerStep
  <2>1. ASSUME NEW n \in Names, LoadInterrupted(n) PROVE \A v \in writes' : v.by # "orphan"
    BY <2>1 DEF LoadInterrupted
  <2>2. CASE ~ \E n \in Names : LoadInterrupted(n)
    <3>1. UNCHANGED writes
      BY <1>2, <2>2 DEF HandlerStep, NewSession, LoadSession, StartMessage, DeleteSession,
                        CancelMessage, PostDecision, DeleteAll, Shutdown
    <3>2. QED
      BY <3>1
  <2>3. QED
    BY <2>1, <2>2
<1>3. ASSUME NEW k \in Tasks, TaskStep(k) PROVE \A v \in writes' : v.by # "orphan"
  <2>1. CASE BeginTaskSave(k)
    BY <2>1 DEF BeginTaskSave, Begin
  <2>2. CASE ~ BeginTaskSave(k)
    <3>1. UNCHANGED writes
      BY <1>3, <2>2 DEF TaskStep, Prepare, ScheduleCheckpoint, CheckCancel, OpenDialog, Wait,
                        FailWork, AnswerWork, DropMessage
    <3>2. QED
      BY <3>1
  <2>3. QED
    BY <2>1, <2>2
<1>4. ASSUME NEW o \in Objects, ObjectStep(o) PROVE \A v \in writes' : v.by # "orphan"
  BY <1>4 DEF ObjectStep, BeginCheckpoint, BeginCancelSave, Begin, DropCancel, SuggestTitle, BeginTitleSave
<1>5. ASSUME NEW t \in Terminals, TerminalStep(t) PROVE \A v \in writes' : v.by # "orphan"
  BY <1>5 DEF TerminalStep, UpgradeTerminal, ConnectTerminal, CloseTerminal, CheckTerminal,
              AskTerminal, WaitTerminal
<1>6. CASE WriteStep
  BY <1>1, <1>6 DEF WriteStep, RenameTemporary, FailSave
<1>7. ASSUME NEW n \in Names, Restart(n) PROVE \A v \in writes' : v.by # "orphan"
  BY <1>7 DEF Restart
<1>8. CASE UNCHANGED vars
  BY <1>8 DEF vars
<1>9. QED
  BY <1>2, <1>3, <1>4, <1>5, <1>6, <1>7, <1>8 DEF Next

\* Nor is any message.
LEMMA NoneDroppedNext ==
  ASSUME ~ Disconnects PROVE (\A k \in Tasks : ~ At(k, "dropped")) /\ Worked /\ [Next]_vars
                             => (\A k \in Tasks : ~ At(k, "dropped"))'
<1> SUFFICES ASSUME \A k \in Tasks : task[k].pc # "dropped", IInv, [Next]_vars
             PROVE  \A j \in Tasks : task'[j].pc # "dropped"
  BY DEF Worked, At
<1>0. \A k \in Tasks : task[k] \in Task
  BY DEF IInv, TypeOK
<1>1. CASE HandlerStep
  <2>1. ASSUME NEW n \in Names, NEW k \in Tasks, StartMessage(n, k)
        PROVE  \A j \in Tasks : task'[j].pc # "dropped"
    BY <2>1 DEF StartMessage, IInv, TypeOK
  <2>2. ASSUME NEW n \in Names, CancelMessage(n) \/ PostDecision(n)
        PROVE  \A j \in Tasks : task'[j].pc # "dropped"
    BY <1>0, <2>2 DEF CancelMessage, PostDecision, TaskReplies, Task
  <2>3. CASE Shutdown
    <3>1. PICK askers : task' = TaskReplies(askers)
      BY <2>3, Zenon DEF Shutdown
    <3>2. QED
      BY <1>0, <3>1 DEF TaskReplies, Task
  <2>4. CASE \/ DeleteAll
             \/ \E n \in Names : \/ LoadInterrupted(n) \/ DeleteSession(n)
                                \/ \E o \in Objects : NewSession(n, o) \/ LoadSession(n, o)
    <3>1. UNCHANGED task
      BY <2>4 DEF NewSession, LoadSession, LoadInterrupted, DeleteSession, DeleteAll
    <3>2. QED
      BY <3>1
  <2>5. QED
    BY <1>1, <2>1, <2>2, <2>3, <2>4 DEF HandlerStep
<1>2. ASSUME NEW k \in Tasks, TaskStep(k) PROVE \A j \in Tasks : task'[j].pc # "dropped"
  <2>1. CASE UNCHANGED task
    BY <2>1
  <2>2. CASE ScheduleCheckpoint(k) \/ BeginTaskSave(k)
    BY <2>2 DEF ScheduleCheckpoint, BeginTaskSave
  <2>3. ASSUME NEW pc \in PC \ {"dropped"}, Goto(k, pc)
        PROVE  \A j \in Tasks : task'[j].pc # "dropped"
    BY <1>0, <2>3 DEF Goto, Task, IInv, TypeOK
  <2>4. ASSUME NEW pc \in PC \ {"dropped"}, NEW reply \in Reply,
               task' = [task EXCEPT ![k].pc = pc, ![k].reply = reply]
        PROVE  \A j \in Tasks : task'[j].pc # "dropped"
    BY <1>0, <2>4 DEF Task, IInv, TypeOK
  <2>5. CASE Fail(k)
    BY <2>4, <2>5 DEF Fail, PC, Reply
  <2>6. CASE Prepare(k) \/ CheckCancel(k) \/ AnswerWork(k)
    BY <2>3, <2>5, <2>6 DEF Prepare, CheckCancel, AnswerWork, PC
  <2>7. CASE OpenDialog(k)
    BY <2>4, <2>7 DEF OpenDialog, PC, Reply
  <2>8. CASE Wait(k)
    BY <2>4, <2>5, <2>8 DEF Wait, PC, Reply
  <2>9. CASE FailWork(k)
    BY <2>5, <2>9 DEF FailWork
  <2>10. QED
    BY <1>2, <2>2, <2>6, <2>7, <2>8, <2>9 DEF TaskStep, DropMessage
<1>3. ASSUME NEW w \in writes, NEW saved \in BOOLEAN, AfterSave(w, saved)
      PROVE  \A j \in Tasks : task'[j].pc # "dropped"
  <2>1. CASE w.by = "task"
    <3> DEFINE k == w.task
    <3>1. k \in Tasks /\ task[k].pc \in SavePoints
      BY <2>1, Saver
    <3>2. \/ \E pc \in {"ready", "over", "waiting", "clearing"} : Goto(k, pc)
          \/ Fail(k)
      BY <1>3, <2>1, <3>1 DEF AfterSave, EndTask, At, SavePoints
    <3> HIDE DEF k
    <3>3. QED
      <4>1. ASSUME NEW pc \in {"ready", "over", "waiting", "clearing"}, Goto(k, pc)
            PROVE  \A j \in Tasks : task'[j].pc # "dropped"
        <5>1. pc \in PC /\ pc # "dropped"
          BY DEF PC
        <5>2. QED
          BY <1>0, <3>1, <4>1, <5>1, TaskGoes
      <4>2. CASE Fail(k)
        <5>1. "failed" \in PC /\ "none" \in Reply
          BY DEF PC, Reply
        <5>2. task' = [task EXCEPT ![k].pc = "failed", ![k].reply = "none"]
          BY <4>2 DEF Fail
        <5>3. task'[k].pc = "failed" /\ \A j \in Tasks : j # k => task'[j] = task[j]
          BY <3>1, <5>1, <5>2, TaskSet
        <5>4. QED
          BY <1>0, <5>3
      <4>3. QED
        BY <3>2, <4>1, <4>2
  <2>2. CASE w.by # "task"
    BY <1>3, <2>2 DEF AfterSave
  <2>3. QED
    BY <2>1, <2>2
<1>4. ASSUME NEW w \in writes, MakeTemporary(w) \/ RenameTemporary(w) \/ FailSave(w)
      PROVE  \A j \in Tasks : task'[j].pc # "dropped"
  BY <1>3, <1>4 DEF MakeTemporary, RenameTemporary, FailSave
<1>5. ASSUME NEW o \in Objects, ObjectStep(o) PROVE \A j \in Tasks : task'[j].pc # "dropped"
  BY <1>5 DEF ObjectStep, BeginCheckpoint, BeginCancelSave, DropCancel, SuggestTitle, BeginTitleSave, Begin
<1>6. ASSUME NEW t \in Terminals, TerminalStep(t) PROVE \A j \in Tasks : task'[j].pc # "dropped"
  BY <1>6 DEF TerminalStep, UpgradeTerminal, ConnectTerminal, CloseTerminal, CheckTerminal,
              AskTerminal, WaitTerminal
<1>7. ASSUME NEW n \in Names, Restart(n) PROVE \A j \in Tasks : task'[j].pc # "dropped"
  BY <1>7 DEF Restart, At
<1>8. CASE UNCHANGED vars
  BY <1>8 DEF vars
<1>9. QED
  BY <1>1, <1>2, <1>4, <1>5, <1>6, <1>7, <1>8 DEF Next, WriteStep

\* The state of the server, its sessions, saves and files is always what the code's
\* types allow.
THEOREM TypeCorrect == Spec => []TypeOK
<1>1. IInv => TypeOK
  BY DEF IInv
<1>2. QED
  BY <1>1, Invariance, PTL

\* A session never has two tasks, and a task's session stays registered, however
\* messages, deletions, loads, saves and restarts interleave (web/routes/sessions.rs,
\* start_message, load_session and delete_session).
THEOREM TasksAreAlone == Spec => []OneTaskPerSession
<1>1. IInv => OneTaskPerSession
  BY LiveObject DEF IInv, Held, OneEach, OneTaskPerSession
<1>2. QED
  BY <1>1, Invariance, PTL

\* A session is busy, or shown as running, only while a task of its is under way,
\* except one whose message lost its connection before its first save: that one has no
\* task and stays busy (web/agent.rs, run_message; web/routes/sessions.rs, start_message).
THEOREM BusyMeansTask == Spec => []BusyHasTask
<1>1. Worked => BusyHasTask
  <2> SUFFICES ASSUME Worked, NEW n \in Registered,
                      object[registry[n]].busy \/ object[registry[n]].mark = "running"
               PROVE  AtWork(registry[n]) \/ Stranded(registry[n])
    BY DEF BusyHasTask
  <2>1. n \in Names /\ registry[n] \in Objects /\ object[registry[n]] # None
    BY RegisteredObject, NoneAssumption DEF Worked, Registered
  <2>2. PICK k \in Tasks : task[k].obj = registry[n] /\ task[k].pc \notin Away
    BY <2>1 DEF Worked, HasTask
  <2>3. Live(k) \/ At(k, "dropped")
    BY <2>2 DEF Live, At, Away
  <2>4. QED
    BY <2>2, <2>3 DEF AtWork, Stranded
<1>2. QED
  BY <1>1, WorkedInvariance, PTL

\* A session is busy, or shows a running task, only while it has one.
BusyIsAtWork ==
  \A n \in Registered :
    LET o == registry[n] IN
    object[o].busy \/ object[o].mark = "running" => AtWork(o)

\* While every client waits for its request no session is stranded: one that is busy,
\* or shown as running, has a task under way.
THEOREM BusyMeansAtWork == ASSUME ~ Disconnects PROVE Spec => []BusyIsAtWork
<1> DEFINE NoneDropped == \A k \in Tasks : ~ At(k, "dropped")
<1>1. Init => NoneDropped
  BY DEF Init, First, At
<1>2. NoneDropped /\ Worked /\ [Next]_vars => NoneDropped'
  BY NoneDroppedNext
<1>3. NoneDropped /\ BusyHasTask => BusyIsAtWork
  BY DEF BusyHasTask, BusyIsAtWork, Stranded
<1> HIDE DEF NoneDropped
<1>4. QED
  BY <1>1, <1>2, <1>3, WorkedInvariance, BusyMeansTask, PTL DEF Spec

\* A session never shows a dialog nobody waits for, however requests, cancellations,
\* lost channels and terminals interleave (web/agent.rs, WebConfirmer::wait;
\* web/routes/sessions.rs, cancel_message and post_decision).
THEOREM DialogsAreAwaited == Spec => []DialogHasWaiter
<1>1. Init => Worked /\ Attended
  BY WorkedInit, AttendedInit
<1>2. (Worked /\ Attended) /\ [Next]_vars => (Worked /\ Attended)'
  BY WorkedNext, AttendedNext
<1>3. Worked /\ Attended => DialogHasWaiter
  BY AttendedMeans
<1>4. QED
  BY <1>1, <1>2, <1>3, PTL DEF Spec

\* Once a task has reported its answer saved, no later save, failure or restart takes
\* it from the session's file, as long as no write of a handler that was dropped is of
\* an older answer than its session.  The cancel handler of the code can be dropped so:
\* its lock is released while its blocking write goes on, and the write may end after a
\* newer one (web/state.rs, persist_web_session; web/routes/sessions.rs, cancel_message).
THEOREM AnswersStay == Spec /\ []OrphansCurrent => []AnswersAreKept
<1>1. Init => Kept
  BY KeptInit
<1>2. Kept /\ OrphansCurrent /\ [Next]_vars => Kept'
  BY KeptNext
<1>3. Kept => AnswersAreKept
  BY KeptMeans
<1>4. QED
  BY <1>1, <1>2, <1>3, PTL DEF Spec

\* In particular no answer is lost while every client waits for its request.
THEOREM AnswersStayConnected == ASSUME ~ Disconnects PROVE Spec => []AnswersAreKept
<1> DEFINE NoOrphans == \A w \in writes : w.by # "orphan"
<1>1. Init => NoOrphans
  BY DEF Init, First
<1>2. NoOrphans /\ Worked /\ [Next]_vars => NoOrphans'
  BY NoOrphanNext
<1>3. NoOrphans => OrphansCurrent
  BY DEF OrphansCurrent
<1> HIDE DEF NoOrphans
<1>4. QED
  BY <1>1, <1>2, <1>3, WorkedInvariance, AnswersStay, PTL DEF Spec
=============================================================================
