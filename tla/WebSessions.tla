---------------------------- MODULE WebSessions ----------------------------
(***************************************************************************)
(* The Web server's sessions (web/state.rs, web/agent.rs,                  *)
(* web/routes/sessions.rs, web/routes/terminal.rs) and the session files   *)
(* they are kept in (sessions.rs).                                         *)
(*                                                                         *)
(* A session object is reachable from HTTP handlers through the registry,  *)
(* and from the tasks, title requests, scheduled checkpoints and terminals *)
(* that already hold it.  A save takes its snapshot under the object's     *)
(* persist lock and then writes the file in two steps: it creates a        *)
(* temporary file, which must not exist, and renames it over the session's *)
(* file.  The process may die between any two steps, a save may fail, and  *)
(* the browser's connection may be lost, which drops the handler that      *)
(* waits for a save but not the blocking write it started.                 *)
(*                                                                         *)
(* A turn is the number of the task that produced it; display lines,       *)
(* metrics, audit events and redaction are left out.                       *)
(***************************************************************************)
EXTENDS Naturals, Sequences, FiniteSets

CONSTANTS
  Names,          \* session names; each is issued once, a file keeps it
  Terminals,      \* browser terminals (web sockets)
  MaxSessions,    \* MAX_WEB_SESSIONS
  MaxObjects,     \* bound on the session objects created or loaded
  MaxTasks,       \* bound on the tasks started
  MaxStarts,      \* bound on the starts of the server
  MaxScheduled,   \* bound on the scheduled checkpoints of an object
  ContextTurns,   \* max_context_turns
  Disconnects,    \* whether handlers are dropped when their client is gone
  None

Objects == 1 .. MaxObjects
Tasks == 1 .. MaxTasks
NoObject == 0
Marks == {"running", "completed", "failed", "cancelled", "interrupted"}

ASSUME WebAssumption ==
  /\ MaxSessions \in Nat /\ MaxObjects \in Nat \ {0} /\ MaxTasks \in Nat
  /\ MaxStarts \in Nat \ {0} /\ MaxScheduled \in Nat /\ ContextTurns \in Nat \ {0}
  /\ Disconnects \in BOOLEAN
  /\ None \notin Names /\ None \notin Marks
  /\ None \notin Tasks /\ None \notin Terminals /\ Tasks \cap Terminals = {}

VARIABLES
  registry,   \* name -> the object the registry holds for it
  object,     \* SessionState and the signals of every object
  task,       \* the accepted messages
  terminal,   \* the terminal sockets
  writes,     \* saves that took their snapshot and are writing
  file,       \* name -> the session's file
  temporary,  \* names whose temporary file exists
  issued,     \* names given to sessions so far
  starts,     \* starts of the server so far
  deleted,    \* history: names deleted
  answered    \* history: name -> the last task that reported its answer saved

shared == <<registry, issued>>
store == <<file, temporary>>
history == <<deleted, answered>>
vars == <<shared, object, task, terminal, writes, store, starts, history>>

\* SessionDocument: complete turns, checkpoint status, whether it has a title.
Documents == [turns : Seq(Tasks), mark : Marks \union {None}, title : BOOLEAN]

\* asker: whose dialog is `pending`; needsTitle: ~ title_generated.
Object == [name : Names, busy : BOOLEAN, cancel : BOOLEAN, mark : Marks \union {None},
           turns : Seq(Tasks), asker : Tasks \union Terminals \union {None},
           needsTitle : BOOLEAN, title : BOOLEAN, titling : {"no", "due", "asked", "given"},
           scheduled : 0 .. MaxScheduled, cancelSave : BOOLEAN]

PC == {"none", "accepted", "ready", "working", "checked", "asking", "waiting", "answered",
       "clearing", "failed", "over", "dropped"}
Reply == {"none", "open", "sent"}
Task == [obj : Objects \union {NoObject}, pc : PC, reply : Reply]
Terminal == [obj : Objects \union {NoObject}, reply : Reply,
             pc : {"closed", "upgrading", "open", "checked", "asking"}]
Savers == {"task", "checkpoint", "cancel", "title", "load", "orphan"}
Write == [name : Names, obj : Objects \union {NoObject}, by : Savers, task : 0 .. MaxTasks,
          document : Documents, made : BOOLEAN]

ASSUME NoneAssumption == None \notin Object /\ None \notin Documents

TypeOK ==
  /\ registry \in [Names -> Objects \union {NoObject}]
  /\ object \in [Objects -> Object \union {None}]
  /\ task \in [Tasks -> Task]
  /\ terminal \in [Terminals -> Terminal]
  /\ \A w \in writes : w \in Write
  /\ file \in [Names -> Documents \union {None}]
  /\ temporary \subseteq Names
  /\ issued \subseteq Names
  /\ starts \in 1 .. MaxStarts
  /\ deleted \subseteq Names
  /\ answered \in [Names -> 0 .. MaxTasks]

LastTurns(s) ==
  IF Len(s) > ContextTurns THEN SubSeq(s, Len(s) - ContextTurns + 1, Len(s)) ELSE s

\* The session of a loaded document.
Loaded(n, d) ==
  [name |-> n, busy |-> FALSE, cancel |-> FALSE, mark |-> d.mark, turns |-> LastTurns(d.turns),
   asker |-> None, needsTitle |-> ~ d.title, title |-> d.title, titling |-> "no",
   scheduled |-> 0, cancelSave |-> FALSE]

\* SessionState::empty
Blank(n) == Loaded(n, [turns |-> <<>>, mark |-> None, title |-> FALSE])

\* start_with_listener: a server starts with one new session.
First(n) ==
  /\ registry = [m \in Names |-> IF m = n THEN 1 ELSE NoObject]
  /\ object = [o \in Objects |-> IF o = 1 THEN Blank(n) ELSE None]
  /\ task = [k \in Tasks |-> [obj |-> NoObject, pc |-> "none", reply |-> "none"]]
  /\ terminal = [t \in Terminals |-> [obj |-> NoObject, pc |-> "closed", reply |-> "none"]]
  /\ writes = {}
  /\ file = [m \in Names |-> None]
  /\ temporary = {}
  /\ issued = {n}
  /\ starts = 1
  /\ deleted = {}
  /\ answered = [m \in Names |-> 0]

Init == \E n \in Names : First(n)

----------------------------------------------------------------------------
Live(k) == task[k].pc \notin {"none", "over", "dropped"}
Unused(o) == object[o] = None /\ \A p \in Objects : p < o => object[p] # None
Registered == {n \in Names : registry[n] # NoObject}

\* The registry lock is held while a title or a loaded session is being saved.
RegistryFree == \A w \in writes : w.by \notin {"title", "load"}

\* Mutant: a scheduled checkpoint is written without the lock.
PersistFree_NotCheckpoints(o) == \A w \in writes : w.obj = o => w.by \in {"orphan", "checkpoint"}

\* The persist lock: a dropped handler releases it, its blocking write goes on.
PersistFree(o) == \A w \in writes : w.obj = o => w.by = "orphan"

Connected(o) ==
  \E t \in Terminals : terminal[t].obj = o /\ terminal[t].pc \in {"open", "checked", "asking"}

\* Mutant: only an open dialog or terminal protects a session.
InUse_NotBusy(o) == object[o].asker # None \/ Connected(o)

\* delete_session and delete_all_sessions refuse to remove such a session.
InUse(o) == object[o].busy \/ object[o].asker # None \/ Connected(o)

\* The waiter whose dialog is open gets an answer; the others keep theirs.
TaskReplies(askers) ==
  [k \in Tasks |-> IF k \in askers THEN [task[k] EXCEPT !.reply = "sent"] ELSE task[k]]
TerminalReplies(askers) ==
  [t \in Terminals |-> IF t \in askers THEN [terminal[t] EXCEPT !.reply = "sent"] ELSE terminal[t]]

----------------------------------------------------------------------------
(* The registry: every handler looks its session up under the lock. *)

\* new_session
NewSession(n, o) ==
  /\ RegistryFree
  /\ Cardinality(Registered) < MaxSessions
  /\ n \notin issued
  /\ Unused(o)
  /\ registry' = [registry EXCEPT ![n] = o]
  /\ issued' = issued \union {n}
  /\ object' = [object EXCEPT ![o] = Blank(n)]
  /\ UNCHANGED <<task, terminal, writes, store, starts, history>>

\* load_session of a file without an unfinished task.  MAX_WEB_SESSIONS is not
\* looked at.
LoadSession(n, o) ==
  /\ RegistryFree
  /\ registry[n] = NoObject /\ file[n] # None /\ file[n].mark # "running"
  /\ Unused(o)
  /\ registry' = [registry EXCEPT ![n] = o]
  /\ object' = [object EXCEPT ![o] = Loaded(n, file[n])]
  /\ UNCHANGED <<task, terminal, writes, store, issued, starts, history>>

\* load_session of a file whose task was under way: it is marked interrupted and
\* saved before the session is registered, all under the registry lock.
LoadInterrupted(n) ==
  /\ RegistryFree
  /\ registry[n] = NoObject /\ file[n] # None /\ file[n].mark = "running"
  /\ \E o \in Objects : Unused(o)
  /\ writes' = writes \union
       {[name |-> n, obj |-> NoObject, by |-> "load", task |-> 0, made |-> FALSE,
         document |-> [file[n] EXCEPT !.mark = "interrupted"]]}
  /\ UNCHANGED <<shared, object, task, terminal, store, starts, history>>

\* delete_session; a registered session need not have a file.
DeleteSession(n) ==
  /\ RegistryFree
  /\ registry[n] # NoObject => ~ InUse(registry[n])
  /\ registry[n] # NoObject \/ file[n] # None
  /\ file' = [file EXCEPT ![n] = None]
  /\ registry' = [registry EXCEPT ![n] = NoObject]
  /\ deleted' = deleted \union {n}
  /\ UNCHANGED <<object, task, terminal, writes, temporary, issued, starts, answered>>

\* delete_all_sessions: after the first file that cannot be removed it stops,
\* and the registry keeps every session.
DeleteAll ==
  /\ RegistryFree
  /\ \A n \in Registered : ~ InUse(registry[n])
  /\ \E gone \in SUBSET {n \in Names : file[n] # None} :
       /\ file' = [n \in Names |-> IF n \in gone THEN None ELSE file[n]]
       /\ \/ /\ gone = {n \in Names : file[n] # None}
             /\ registry' = [n \in Names |-> NoObject]
             /\ deleted' = deleted \union gone \union Registered
          \/ /\ gone # {n \in Names : file[n] # None}
             /\ deleted' = deleted \union gone
             /\ UNCHANGED registry
  /\ UNCHANGED <<object, task, terminal, writes, temporary, issued, starts, answered>>

\* start_message, also of retry_message: up to the wait for the first save.
StartMessage(n, k) ==
  LET o == registry[n] IN
  /\ RegistryFree
  /\ o # NoObject
  /\ ~ object[o].busy /\ object[o].asker = None
  /\ task[k].pc = "none" /\ \A j \in Tasks : j < k => task[j].pc # "none"
  /\ task' = [task EXCEPT ![k] = [obj |-> o, pc |-> "accepted", reply |-> "none"]]
  /\ object' = [object EXCEPT ![o].busy = TRUE, ![o].cancel = FALSE, ![o].mark = "running"]
  /\ UNCHANGED <<shared, terminal, writes, store, starts, history>>

\* cancel_message: the open dialog is refused; then it waits for a save.
CancelMessage(n) ==
  LET o == registry[n] IN
  /\ RegistryFree
  /\ o # NoObject
  /\ object[o].busy
  /\ object' = [object EXCEPT ![o].cancel = TRUE, ![o].asker = None, ![o].cancelSave = TRUE]
  /\ task' = TaskReplies({object[o].asker})
  /\ terminal' = TerminalReplies({object[o].asker})
  /\ UNCHANGED <<shared, writes, store, starts, history>>

\* post_decision (which answer is accepted is Approval's subject).
PostDecision(n) ==
  LET o == registry[n] IN
  /\ RegistryFree
  /\ o # NoObject
  /\ object[o].asker # None
  /\ object' = [object EXCEPT ![o].asker = None]
  /\ task' = TaskReplies({object[o].asker})
  /\ terminal' = TerminalReplies({object[o].asker})
  /\ UNCHANGED <<shared, writes, store, starts, history>>

\* WebServer::shutdown cancels every session and refuses the open dialogs.
Shutdown ==
  LET closing == {registry[n] : n \in Registered}
      askers == {object[o].asker : o \in closing} IN
  /\ RegistryFree
  /\ object' = [o \in Objects |->
                  IF o \in closing THEN [object[o] EXCEPT !.cancel = TRUE, !.asker = None]
                  ELSE object[o]]
  /\ task' = TaskReplies(askers)
  /\ terminal' = TerminalReplies(askers)
  /\ UNCHANGED <<shared, writes, store, starts, history>>

----------------------------------------------------------------------------
(* run_message and run_agent: the task of a session. *)

At(k, label) == task[k].pc = label
Goto(k, label) == task' = [task EXCEPT ![k].pc = label]

\* run_agent returned an error: the checkpoint keeps it for a retry.
Fail(k) ==
  LET o == task[k].obj IN
  /\ task' = [task EXCEPT ![k].pc = "failed", ![k].reply = "none"]
  /\ object' = [object EXCEPT ![o].titling = IF @ = "due" THEN "no" ELSE @,
                              ![o].mark = IF object[o].cancel THEN "cancelled" ELSE "failed"]

\* The configuration is read again and the model's client built.
Prepare(k) ==
  /\ At(k, "ready")
  /\ \/ Goto(k, "working") /\ UNCHANGED object
     \/ Fail(k)
  /\ UNCHANGED <<shared, terminal, writes, store, starts, history>>

\* schedule_checkpoint: a tool starts or ends, a generation or a phase ends.
ScheduleCheckpoint(k) ==
  LET o == task[k].obj IN
  /\ At(k, "working")
  /\ object[o].scheduled < MaxScheduled
  /\ object' = [object EXCEPT ![o].scheduled = @ + 1]
  /\ UNCHANGED <<shared, task, terminal, writes, store, starts, history>>

\* WebConfirmer::wait reads the cancel signal before it opens the dialog.
CheckCancel(k) ==
  /\ At(k, "working")
  /\ ~ object[task[k].obj].cancel
  /\ Goto(k, "checked")
  /\ UNCHANGED <<shared, object, terminal, writes, store, starts, history>>

\* It replaces the dialog there is: whoever waits for that one loses its channel.
OpenDialog(k) ==
  LET o == task[k].obj IN
  /\ At(k, "checked")
  /\ object' = [object EXCEPT ![o].asker = k]
  /\ task' = [task EXCEPT ![k].pc = "asking", ![k].reply = "open"]
  /\ UNCHANGED <<shared, terminal, writes, store, starts, history>>

Lost(o, waiter, reply) == reply = "open" /\ object[o].asker # waiter

\* Mutant: a cancelled wait leaves its dialog.
Wait_LeavesDialog(k) ==
  /\ At(k, "waiting")
  /\ task[k].reply = "sent" \/ object[task[k].obj].cancel
  /\ task' = [task EXCEPT ![k].pc = "working", ![k].reply = "none"]
  /\ UNCHANGED <<shared, object, terminal, writes, store, starts, history>>

\* Mutant: only an answer ends the wait.
Wait_IgnoresCancel(k) ==
  /\ At(k, "waiting")
  /\ task[k].reply = "sent"
  /\ task' = [task EXCEPT ![k].pc = "working", ![k].reply = "none"]
  /\ UNCHANGED <<shared, object, terminal, writes, store, starts, history>>

\* The select of wait: an answer, a lost channel (an error, which a shell command
\* hands on to the whole task) or the cancel signal, which closes any dialog.
Wait(k) ==
  LET o == task[k].obj IN
  /\ At(k, "waiting")
  /\ \/ /\ task[k].reply = "sent"
        /\ task' = [task EXCEPT ![k].pc = "working", ![k].reply = "none"]
        /\ UNCHANGED object
     \/ /\ Lost(o, k, task[k].reply)
        /\ \/ Fail(k)
           \/ /\ task' = [task EXCEPT ![k].pc = "working", ![k].reply = "none"]
              /\ UNCHANGED object
     \/ /\ object[o].cancel
        /\ task' = [task EXCEPT ![k].pc = "working", ![k].reply = "none"]
        /\ object' = [object EXCEPT ![o].asker = None]
  /\ UNCHANGED <<shared, terminal, writes, store, starts, history>>

\* The runner failed, was cancelled or stopped at a limit.
FailWork(k) ==
  /\ At(k, "working")
  /\ Fail(k)
  /\ UNCHANGED <<shared, terminal, writes, store, starts, history>>

\* The runner answered, perhaps after a cancellation; the turn is kept in memory.
AnswerWork(k) ==
  LET o == task[k].obj IN
  /\ At(k, "working")
  /\ Goto(k, "answered")
  /\ object' = [object EXCEPT ![o].turns = LastTurns(Append(@, k)),
                              ![o].mark = "completed",
                              ![o].titling = IF object[o].needsTitle THEN "due" ELSE @,
                              ![o].needsTitle = FALSE]
  /\ UNCHANGED <<shared, terminal, writes, store, starts, history>>

\* Mutant: the session stays busy after a task that was cancelled.
EndTask_StaysBusy(k, o, titling) ==
  /\ Goto(k, "over")
  /\ object' = [object EXCEPT ![o].busy = object[o].cancel, ![o].asker = None, ![o].titling = titling]

\* The end of run_message: the session is idle and its dialog closed.
EndTask(k, o, titling) ==
  /\ Goto(k, "over")
  /\ object' = [object EXCEPT ![o].busy = FALSE, ![o].asker = None, ![o].titling = titling]

\* The client of start_message is gone: the task is never started.
DropMessage(k) ==
  /\ Disconnects
  /\ At(k, "accepted")
  /\ Goto(k, "dropped")
  /\ writes' = {IF w.by = "task" /\ w.task = k THEN [w EXCEPT !.by = "orphan"] ELSE w : w \in writes}
  /\ UNCHANGED <<shared, object, terminal, store, starts, history>>

\* The client of cancel_message is gone.
DropCancel(o) ==
  /\ Disconnects
  /\ object[o] # None
  /\ \/ object[o].cancelSave
     \/ \E w \in writes : w.obj = o /\ w.by = "cancel"
  /\ object' = [object EXCEPT ![o].cancelSave = FALSE]
  /\ writes' = {IF w.obj = o /\ w.by = "cancel" THEN [w EXCEPT !.by = "orphan"] ELSE w : w \in writes}
  /\ UNCHANGED <<shared, task, terminal, store, starts, history>>

----------------------------------------------------------------------------
(* Saves *)

Document(o) == [turns |-> object[o].turns, mark |-> object[o].mark, title |-> object[o].title]

\* persist_web_session: the lock is taken and the snapshot made.
Begin(o, by, k) ==
  /\ PersistFree(o)
  /\ writes' = writes \union
       {[name |-> object[o].name, obj |-> o, by |-> by, task |-> k, made |-> FALSE,
         document |-> Document(o)]}

BeginTaskSave(k) ==
  /\ task[k].pc \in {"accepted", "asking", "answered", "clearing", "failed"}
  /\ Begin(task[k].obj, "task", k)
  /\ UNCHANGED <<shared, object, task, terminal, store, starts, history>>

\* The spawned save of schedule_checkpoint; the registry is not looked at.
BeginCheckpoint(o) ==
  /\ object[o] # None /\ object[o].scheduled > 0
  /\ Begin(o, "checkpoint", 0)
  /\ object' = [object EXCEPT ![o].scheduled = @ - 1]
  /\ UNCHANGED <<shared, task, terminal, store, starts, history>>

BeginCancelSave(o) ==
  /\ object[o] # None /\ object[o].cancelSave
  /\ Begin(o, "cancel", 0)
  /\ object' = [object EXCEPT ![o].cancelSave = FALSE]
  /\ UNCHANGED <<shared, task, terminal, store, starts, history>>

\* generate_title_after_reply: the model suggests a title or does not.
SuggestTitle(o) ==
  /\ object[o] # None /\ object[o].titling = "asked"
  /\ \E next \in {"given", "no"} : object' = [object EXCEPT ![o].titling = next]
  /\ UNCHANGED <<shared, task, terminal, writes, store, starts, history>>

\* Unlike the other saves, a title is saved under the registry lock, and only if
\* the session is still registered.
BeginTitleSave(o) ==
  /\ object[o] # None /\ object[o].titling = "given"
  /\ PersistFree(o) /\ RegistryFree
  /\ object' = [object EXCEPT ![o].titling = "no"]
  /\ IF registry[object[o].name] = o
       THEN writes' = writes \union
              {[name |-> object[o].name, obj |-> o, by |-> "title", task |-> 0, made |-> FALSE,
                document |-> [Document(o) EXCEPT !.title = TRUE]]}
       ELSE UNCHANGED writes
  /\ UNCHANGED <<shared, task, terminal, store, starts, history>>

\* private_new_file
MakeTemporary(w) ==
  /\ w \in writes /\ ~ w.made
  /\ w.name \notin temporary
  /\ writes' = (writes \ {w}) \union {[w EXCEPT !.made = TRUE]}
  /\ temporary' = temporary \union {w.name}
  /\ UNCHANGED <<shared, object, task, terminal, file, starts, history>>

\* What follows a save in the code that waits for it.
AfterSave(w, saved) ==
  IF w.by = "task"
  THEN LET k == w.task
           o == w.obj IN
       /\ CASE At(k, "accepted") /\ saved ->
                 Goto(k, "ready") /\ UNCHANGED object
            [] At(k, "accepted") /\ ~ saved ->
                 /\ Goto(k, "over")
                 /\ object' = [object EXCEPT ![o].busy = FALSE, ![o].mark = None]
            [] At(k, "asking") ->
                 Goto(k, "waiting") /\ UNCHANGED object
            [] At(k, "answered") /\ saved ->
                 Goto(k, "clearing") /\ object' = [object EXCEPT ![o].mark = None]
            [] At(k, "answered") /\ ~ saved ->
                 Fail(k)
            [] At(k, "clearing") ->
                 EndTask(k, o, IF object[o].titling # "due" THEN object[o].titling
                               ELSE IF object[o].cancel THEN "no" ELSE "asked")
            [] At(k, "failed") ->
                 EndTask(k, o, object[o].titling)
       /\ answered' = IF At(k, "answered") /\ saved THEN [answered EXCEPT ![w.name] = k] ELSE answered
       /\ UNCHANGED <<registry, terminal>>
  ELSE /\ CASE w.by = "title" /\ saved ->
                 object' = [object EXCEPT ![w.obj].title = TRUE] /\ UNCHANGED registry
            [] w.by = "load" /\ saved ->
                 \E o \in Objects :
                   /\ Unused(o)
                   /\ object' = [object EXCEPT ![o] = Loaded(w.name, w.document)]
                   /\ registry' = [registry EXCEPT ![w.name] = o]
            [] OTHER -> UNCHANGED <<object, registry>>
       /\ UNCHANGED <<task, terminal, answered>>

\* The rename of save_web_state_with_metadata.
RenameTemporary(w) ==
  /\ w \in writes /\ w.made
  /\ writes' = writes \ {w}
  /\ file' = [file EXCEPT ![w.name] = w.document]
  /\ temporary' = temporary \ {w.name}
  /\ AfterSave(w, TRUE)
  /\ UNCHANGED <<issued, starts, deleted>>

\* The configuration cannot be read, the temporary file is already there, or the
\* write fails, and then the temporary file is removed again.
FailSave(w) ==
  /\ w \in writes
  /\ writes' = writes \ {w}
  /\ temporary' = IF w.made THEN temporary \ {w.name} ELSE temporary
  /\ AfterSave(w, FALSE)
  /\ UNCHANGED <<file, issued, starts, deleted>>

----------------------------------------------------------------------------
(* The terminal of a session asks through the session's one dialog. *)

\* terminal_upgrade looks the session up; the client counts as connected only
\* when the socket is there.
UpgradeTerminal(t, n) ==
  /\ RegistryFree
  /\ terminal[t].pc = "closed" /\ registry[n] # NoObject
  /\ terminal' = [terminal EXCEPT ![t] = [obj |-> registry[n], pc |-> "upgrading", reply |-> "none"]]
  /\ UNCHANGED <<shared, object, task, writes, store, starts, history>>

ConnectTerminal(t) ==
  /\ terminal[t].pc = "upgrading"
  /\ terminal' = [terminal EXCEPT ![t].pc = "open"]
  /\ UNCHANGED <<shared, object, task, writes, store, starts, history>>

CloseTerminal(t) ==
  /\ terminal[t].pc \in {"upgrading", "open"}
  /\ terminal' = [terminal EXCEPT ![t] = [obj |-> NoObject, pc |-> "closed", reply |-> "none"]]
  /\ UNCHANGED <<shared, object, task, writes, store, starts, history>>

\* A command that needs an approval; after a cancelled task the signal is still
\* set, and every such command is refused until a message is accepted.
CheckTerminal(t) ==
  /\ terminal[t].pc = "open" /\ ~ object[terminal[t].obj].cancel
  /\ terminal' = [terminal EXCEPT ![t].pc = "checked"]
  /\ UNCHANGED <<shared, object, task, writes, store, starts, history>>

AskTerminal(t) ==
  /\ terminal[t].pc = "checked"
  /\ object' = [object EXCEPT ![terminal[t].obj].asker = t]
  /\ terminal' = [terminal EXCEPT ![t].pc = "asking", ![t].reply = "open"]
  /\ UNCHANGED <<shared, task, writes, store, starts, history>>

WaitTerminal(t) ==
  LET o == terminal[t].obj IN
  /\ terminal[t].pc = "asking"
  /\ \/ terminal[t].reply = "sent" /\ UNCHANGED object
     \/ Lost(o, t, terminal[t].reply) /\ UNCHANGED object
     \/ object[o].cancel /\ object' = [object EXCEPT ![o].asker = None]
  /\ terminal' = [terminal EXCEPT ![t].pc = "open", ![t].reply = "none"]
  /\ UNCHANGED <<shared, task, writes, store, starts, history>>

----------------------------------------------------------------------------
\* The process dies, in the middle of anything, and is started again: the files
\* stay, the temporary ones too.
Restart(n) ==
  /\ starts < MaxStarts
  /\ n \notin issued
  /\ starts' = starts + 1
  /\ issued' = issued \union {n}
  /\ registry' = [m \in Names |-> IF m = n THEN 1 ELSE NoObject]
  /\ object' = [o \in Objects |-> IF o = 1 THEN Blank(n) ELSE None]
  /\ task' = [k \in Tasks |-> IF At(k, "none") THEN task[k]
                              ELSE [obj |-> NoObject, pc |-> "over", reply |-> "none"]]
  /\ terminal' = [t \in Terminals |-> [obj |-> NoObject, pc |-> "closed", reply |-> "none"]]
  /\ writes' = {}
  /\ UNCHANGED <<store, history>>

HandlerStep ==
  \/ \E n \in Names :
       \/ \E o \in Objects : NewSession(n, o) \/ LoadSession(n, o)
       \/ \E k \in Tasks : StartMessage(n, k)
       \/ LoadInterrupted(n)
       \/ DeleteSession(n)
       \/ CancelMessage(n)
       \/ PostDecision(n)
  \/ DeleteAll
  \/ Shutdown

TaskStep(k) ==
  \/ Prepare(k)
  \/ ScheduleCheckpoint(k)
  \/ CheckCancel(k)
  \/ OpenDialog(k)
  \/ Wait(k)
  \/ FailWork(k)
  \/ AnswerWork(k)
  \/ BeginTaskSave(k)
  \/ DropMessage(k)

ObjectStep(o) ==
  \/ BeginCheckpoint(o)
  \/ BeginCancelSave(o)
  \/ DropCancel(o)
  \/ SuggestTitle(o)
  \/ BeginTitleSave(o)

WriteStep == \E w \in writes : MakeTemporary(w) \/ RenameTemporary(w) \/ FailSave(w)

TerminalStep(t) ==
  \/ \E n \in Names : UpgradeTerminal(t, n)
  \/ ConnectTerminal(t)
  \/ CloseTerminal(t)
  \/ CheckTerminal(t)
  \/ AskTerminal(t)
  \/ WaitTerminal(t)

Next ==
  \/ HandlerStep
  \/ \E k \in Tasks : TaskStep(k)
  \/ \E o \in Objects : ObjectStep(o)
  \/ WriteStep
  \/ \E t \in Terminals : TerminalStep(t)
  \/ \E n \in Names : Restart(n)

Spec == Init /\ [][Next]_vars

\* Spawned work goes on, blocking writes end, and the persist lock is handed on in
\* the order of its waiters.  The runner returns, which is assumed here: AgentLoop
\* shows it (CancelEnds, TimeLimitEnds) for every task except one whose tool in hand
\* never returns, as a command does whose descendants hold its pipes.
FairSpec ==
  /\ Spec
  /\ \A k \in Tasks :
       /\ WF_vars(Prepare(k))
       /\ WF_vars(OpenDialog(k))
       /\ WF_vars(Wait(k))
       /\ SF_vars(BeginTaskSave(k))
       /\ SF_vars(FailWork(k) \/ AnswerWork(k))
  /\ \A o \in Objects :
       WF_vars(\E w \in writes : w.obj = o /\ (MakeTemporary(w) \/ RenameTemporary(w) \/ FailSave(w)))

----------------------------------------------------------------------------
(* Properties *)

\* A session has one task at most, even if its file came back and was loaded
\* again; the task's session stays registered, so that it can be cancelled and
\* its requests answered.
OneTaskPerSession ==
  \A k \in Tasks : Live(k) =>
    /\ registry[object[task[k].obj].name] = task[k].obj
    /\ \A j \in Tasks : Live(j) /\ object[task[j].obj].name = object[task[k].obj].name => j = k

\* The session of a message whose connection was lost before the save that
\* start_message awaits: it is busy, but its task was never started and never will
\* be, and no message is accepted until the server is started again.
Stranded(o) == \E k \in Tasks : task[k].obj = o /\ At(k, "dropped")

AtWork(o) == \E k \in Tasks : task[k].obj = o /\ Live(k)

\* A session is busy, or shows a running task, only while it has one, however that
\* task, its dialogs and its saves end, unless it is stranded by a lost connection.
BusyHasTask ==
  \A n \in Registered :
    LET o == registry[n] IN
    object[o].busy \/ object[o].mark = "running" => AtWork(o) \/ Stranded(o)

\* Once a task has reported its answer saved, the session's file never falls
\* behind that answer, whatever is saved later and whenever the process dies.
\* (That no handler is dropped while it saves is assumed where this is checked:
\* the write of a dropped cancel_message goes on without the persist lock and may
\* replace a newer file.)
AnswersAreKept ==
  \A n \in Names : answered[n] # 0 /\ n \notin deleted =>
    file[n] # None /\ \E i \in DOMAIN file[n].turns : file[n].turns[i] >= answered[n]

\* A deleted session does not come back: no late load or save writes it again.
DeletedStaysDeleted == \A n \in deleted : file[n] = None

\* The dialog a session shows has somebody waiting for its answer: one left over
\* would keep the session from accepting messages and from being deleted.
DialogHasWaiter ==
  \A o \in Objects : object[o] # None /\ object[o].asker # None =>
    \/ \E k \in Tasks : /\ object[o].asker = k /\ task[k].obj = o /\ task[k].reply = "open"
                        /\ task[k].pc \in {"asking", "waiting"}
    \/ \E t \in Terminals : /\ object[o].asker = t /\ terminal[t].obj = o
                            /\ terminal[t].reply = "open" /\ terminal[t].pc = "asking"

\* A cancelled task ends and leaves its session idle, wherever the request found
\* it: before its first save, at a dialog about to be opened, between two saves.
\* (As long as the runner returns, and unless the session is stranded.)
CancelEndsTask ==
  \A o \in Objects :
    object[o] # None /\ object[o].busy /\ object[o].cancel
      ~> object[o] = None \/ ~ object[o].busy \/ Stranded(o)

=============================================================================
