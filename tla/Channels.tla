------------------------------ MODULE Channels ------------------------------
(***************************************************************************)
(* The message channels (channels/mod.rs, approval.rs, store.rs, and the   *)
(* receive loop of weixin.rs; the gateway of qq.rs is left out).           *)
(*                                                                         *)
(* A channel runs two tasks: the adapter receives messages, remembers each *)
(* one in the ledger, and handles decisions and /cancel itself; what is    *)
(* left goes through a bounded queue to the worker, which asks the agent   *)
(* one message at a time and waits for approvals that arrive as later      *)
(* messages.  Owners start, stop and rebind channels under the lock        *)
(* `actions`; the process may die at any point and a save may fail, with   *)
(* the old or the new state left on disk.                                  *)
(*                                                                         *)
(* A message is its position in `sent`.  Content, media, redaction and     *)
(* outbound deliveries are left out.  A save keeps the lock `saved` until  *)
(* it is done, so that nobody sees the state in between: it is one step.   *)
(***************************************************************************)
EXTENDS Naturals, Sequences, FiniteSets

CONSTANTS
  Kinds,          \* the channels
  Routes,         \* senders, each in a conversation of one channel
  KindOf,         \* route -> its channel
  Ops,            \* operations the agent may ask to have approved
  Dangerous,      \* those that need the second confirmation
  Root,           \* those no approval of which may be remembered
  Words,          \* the texts of the first, the second ... message
  MaxRequests,    \* bound on the approval requests of a process
  MaxEdits,       \* bound on the actions of owners
  MaxFailures,    \* bound on the saves that fail
  MaxStarts,      \* bound on the starts of the process
  SeenLimit,      \* length of the ledger (2048)
  QueueLimit,     \* length of the queue (32)
  None

Choices == {"approve", "session", "always"}
AllWords == {"ask", "new", "cancel", "deny", "confirm"} \union Choices
MaxMessages == Len(Words)
Messages == 1 .. MaxMessages
Ids == 0 .. MaxRequests

ASSUME ChannelsAssumption ==
  /\ KindOf \in [Routes -> Kinds]
  /\ Dangerous \subseteq Ops /\ Root \subseteq Ops
  /\ Words \in Seq(SUBSET AllWords)
  /\ MaxRequests \in Nat /\ MaxEdits \in Nat /\ MaxFailures \in Nat
  /\ MaxStarts \in Nat /\ SeenLimit \in Nat \ {0} /\ QueueLimit \in Nat \ {0}
  /\ None \notin Ops /\ None \notin AllWords

VARIABLES
  sent,      \* the messages of the senders, in order
  shown,     \* route -> the last request shown to it
  saved,     \* Saved, in memory
  disk,      \* accounts.json
  job,       \* jobs: the running task of a channel and its cancel signal
  adapter,   \* run_adapter and receive
  queue,     \* the messages on their way to the worker
  worker,    \* the worker, its task and the confirmation it waits in
  pending,   \* channel -> its open request
  reply,     \* channel -> what was sent on the request's one-shot channel
  grants,    \* session_grants
  owner,     \* the action under the lock, with the channels still to stop
  closing,   \* shutdown
  requests,  \* requests made by this process
  count,     \* edits, failed saves and starts so far
  asked,     \* history: how often a message was given to the agent
  forgotten  \* history: messages that left a ledger

outside == <<sent, shown>>
store == <<saved, disk>>
control == <<owner, closing, job>>
dialog == <<pending, reply>>
history == <<asked, forgotten>>
vars == <<outside, store, control, adapter, queue, worker, dialog, grants, requests, count, history>>

State == [bound : SUBSET Kinds, enabled : SUBSET Kinds, seen : Seq(Messages),
          cursor : [Kinds -> Nat], generation : [Routes -> Nat], allowed : SUBSET Ops]
Adapter == [pc : {"off", "binding", "connect", "poll", "intake", "drain"},
            cursor : Nat, next : Nat]
Worker == [pc : {"off", "idle", "working", "prompting", "waiting"},
           message : 0 .. MaxMessages, cancel : BOOLEAN, op : Ops \union {None},
           choice : Choices \union {None}, refused : SUBSET Ops]
Pending == [id : Ids, strong : BOOLEAN, remember : BOOLEAN]

TypeOK ==
  /\ sent \in Seq([route : Routes, word : AllWords, to : Ids])
  /\ shown \in [Routes -> Ids]
  /\ saved \in State /\ disk \in State
  /\ job \in [Kinds -> {"none", "running", "cancelled"}]
  /\ adapter \in [Kinds -> Adapter]
  /\ queue \in [Kinds -> Seq(Messages)]
  /\ worker \in [Kinds -> Worker]
  /\ pending \in [Kinds -> Pending \union {None}]
  /\ reply \in [Kinds -> Choices \union {"deny", None}]
  /\ grants \subseteq Routes
  /\ closing \in {"no", "asked", "stopping", "closed"}
  /\ requests \in Ids

Idle == [pc |-> "idle", message |-> 0, cancel |-> FALSE, op |-> None,
         choice |-> None, refused |-> {}]
WorkerOff == [Idle EXCEPT !.pc = "off"]
AdapterOff == [pc |-> "off", cursor |-> 0, next |-> 0]

\* What start and launch leave running of the channels in `on`; a worker is there
\* as soon as its adapter is.
Launched(on, pc) ==
  /\ job' = [k \in Kinds |-> IF k \in on THEN "running" ELSE job[k]]
  /\ adapter' = [k \in Kinds |-> IF k \in on THEN [AdapterOff EXCEPT !.pc = pc] ELSE adapter[k]]
  /\ worker' = [k \in Kinds |-> IF k \in on /\ pc = "connect" THEN Idle ELSE worker[k]]

Fresh == [bound |-> Kinds, enabled |-> Kinds, seen |-> <<>>, cursor |-> [k \in Kinds |-> 0],
          generation |-> [r \in Routes |-> 0], allowed |-> {}]

\* ChannelManager::start, with every channel bound and enabled.
Init ==
  /\ sent = <<>> /\ shown = [r \in Routes |-> 0]
  /\ saved = Fresh /\ disk = Fresh
  /\ job = [k \in Kinds |-> "running"]
  /\ adapter = [k \in Kinds |-> [AdapterOff EXCEPT !.pc = "connect"]]
  /\ queue = [k \in Kinds |-> <<>>]
  /\ worker = [k \in Kinds |-> Idle]
  /\ pending = [k \in Kinds |-> None] /\ reply = [k \in Kinds |-> None]
  /\ grants = {}
  /\ owner = None /\ closing = "no"
  /\ requests = 0
  /\ count = [edits |-> 0, failures |-> 0, starts |-> 1]
  /\ asked = [m \in Messages |-> 0] /\ forgotten = {}

----------------------------------------------------------------------------
(* Persistence: a failed save may have replaced the file already. *)

Persist(next) == disk' = next /\ UNCHANGED count
PersistFails(next) ==
  /\ count.failures < MaxFailures
  /\ count' = [count EXCEPT !.failures = @ + 1]
  /\ disk' \in {disk, next}

----------------------------------------------------------------------------
(* The senders. *)

Stopping(k) == job[k] # "running"
Goto(k, pc) == adapter' = [adapter EXCEPT ![k].pc = pc]
Later(k, i) == {j \in i + 1 .. Len(sent) : KindOf[sent[j].route] = k}
IsNext(k, m) ==
  m \in Later(k, adapter[k].next) /\ \A l \in Later(k, adapter[k].next) : m <= l
Remembered(m) == \E i \in DOMAIN saved.seen : saved.seen[i] = m

\* A message is chosen when it is first delivered, alone or at the end of a batch.
\* A decision is for the open request, a second confirmation names the one shown.
Send(r, word) ==
  LET k == KindOf[r] IN
  /\ Len(sent) < MaxMessages /\ word \in Words[Len(sent) + 1]
  /\ adapter[k].pc \in {"poll", "intake"} /\ Later(k, adapter[k].next) = {}
  /\ adapter[k].pc = "poll" => ~ Stopping(k)
  /\ word = "confirm" => shown[r] # 0
  /\ sent' = Append(sent, [route |-> r, word |-> word, to |-> IF word = "confirm" THEN shown[r] ELSE 0])
  /\ Goto(k, "intake")
  /\ UNCHANGED <<shown, store, control, queue, worker, dialog, grants, requests, count, history>>

----------------------------------------------------------------------------
(* run_adapter and receive.  Any error, also of something the adapter sends,    *)
(* ends the connection: it is made again from the saved cursor.                 *)

\* weixin::bind: the new account is saved, then its adapter runs.
Bind(k) ==
  LET next == [saved EXCEPT !.bound = @ \union {k}, !.enabled = @ \union {k}, !.cursor[k] = 0] IN
  /\ adapter[k].pc = "binding"
  /\ \/ /\ saved' = next /\ Persist(next)
        /\ Goto(k, "connect")
        /\ worker' = [worker EXCEPT ![k] = Idle]
     \/ /\ saved' = next /\ PersistFails(next)
        /\ Goto(k, "off")
        /\ UNCHANGED worker
     \/ /\ Goto(k, "off")
        /\ UNCHANGED <<saved, disk, worker, count>>
  /\ UNCHANGED <<outside, control, queue, dialog, grants, requests, history>>

Connect(k) ==
  /\ adapter[k].pc = "connect" /\ ~ Stopping(k)
  /\ adapter' = [adapter EXCEPT ![k] = [pc |-> "poll", cursor |-> saved.cursor[k], next |-> saved.cursor[k]]]
  /\ UNCHANGED <<outside, store, control, queue, worker, dialog, grants, requests, count, history>>

\* Messages after the cursor are delivered again, as a batch that is taken in to
\* its end even when the channel is being stopped.
Poll(k) ==
  /\ adapter[k].pc = "poll" /\ ~ Stopping(k)
  /\ Later(k, adapter[k].next) # {}
  /\ Goto(k, "intake")
  /\ UNCHANGED <<outside, store, control, queue, worker, dialog, grants, requests, count, history>>

Disconnect(k) ==
  /\ adapter[k].pc = "poll" /\ ~ Stopping(k)
  /\ Goto(k, "connect")
  /\ UNCHANGED <<outside, store, control, queue, worker, dialog, grants, requests, count, history>>

InTask(k) == worker[k].pc \notin {"off", "idle"}
Route(k) == sent[worker[k].message].route

\* The adapter went on to message m; what it sent about it may have failed.
Handled(k, m, sends) ==
  \E pc \in {"intake"} \union (IF sends THEN {"connect"} ELSE {}) :
    adapter' = [adapter EXCEPT ![k].pc = pc, ![k].next = m]

\* control: the open request a decision is valid for.
Decides(k, m) ==
  LET p == pending[k]  d == sent[m] IN
  /\ p # None
  /\ Route(k) = d.route
  /\ d.to \in {0, p.id}
  /\ \/ d.word = "deny"
     \/ d.word = "approve" /\ ~ p.strong
     \/ d.word \in {"session", "always"} /\ ~ p.strong /\ p.remember
     \/ d.word = "confirm" /\ p.strong

\* A decision takes the request out of the table and answers its confirmation; or
\* it matches none, also when the two minutes of the request are over.
Decide(k, m) ==
  /\ sent[m].word \in Choices \union {"deny", "confirm"}
  /\ \/ /\ Decides(k, m)
        /\ pending' = [pending EXCEPT ![k] = None]
        /\ reply' = [reply EXCEPT ![k] = IF sent[m].word = "confirm" THEN "approve" ELSE sent[m].word]
        /\ Handled(k, m, FALSE)
     \/ Handled(k, m, TRUE) /\ UNCHANGED dialog
  /\ UNCHANGED <<queue, worker>>

\* /cancel is for the active task of its sender.
CancelTask(k, m) ==
  /\ sent[m].word = "cancel"
  /\ worker' = IF InTask(k) /\ Route(k) = sent[m].route
               THEN [worker EXCEPT ![k].cancel = TRUE] ELSE worker
  /\ Handled(k, m, TRUE)
  /\ UNCHANGED <<queue, dialog>>

\* The rest is for the worker; a full queue refuses it.
Enqueue(k, m) ==
  LET full == Len(queue[k]) = QueueLimit IN
  /\ sent[m].word \in {"ask", "new"}
  /\ queue' = IF full THEN queue ELSE [queue EXCEPT ![k] = Append(@, m)]
  /\ Handled(k, m, full)
  /\ UNCHANGED <<worker, dialog>>

SeenAfter(m) ==
  LET longer == Append(saved.seen, m) IN
  IF Len(longer) > SeenLimit THEN Tail(longer) ELSE longer

\* Mutant: the ledger is only kept in memory.
Intake_NotSaved(k) ==
  \E m \in Messages :
    /\ adapter[k].pc = "intake" /\ IsNext(k, m)
    /\ IF Remembered(m)
       THEN Handled(k, m, FALSE) /\ UNCHANGED <<saved, queue, worker, dialog>>
       ELSE /\ saved' = [saved EXCEPT !.seen = SeenAfter(m)]
            /\ Decide(k, m) \/ CancelTask(k, m) \/ Enqueue(k, m)
    /\ UNCHANGED <<outside, disk, control, grants, requests, count, history>>

\* admit and intake: a message of the ledger is dropped; another one is added to
\* it and the ledger saved before anything is done about the message.  A failed
\* save leaves the message in the ledger of this process.  (Between the save and
\* the rest only a crash could be seen, and it loses the message either way.)
Intake(k) ==
  \E m \in Messages :
    LET next == [saved EXCEPT !.seen = SeenAfter(m)] IN
    /\ adapter[k].pc = "intake" /\ IsNext(k, m)
    /\ \/ /\ Remembered(m)
          /\ Handled(k, m, FALSE)
          /\ UNCHANGED <<store, queue, worker, dialog, count, forgotten>>
       \/ /\ ~ Remembered(m)
          /\ saved' = next
          /\ forgotten' = IF Len(saved.seen) = SeenLimit THEN forgotten \union {Head(saved.seen)} ELSE forgotten
          /\ \/ /\ Persist(next)
                /\ Decide(k, m) \/ CancelTask(k, m) \/ Enqueue(k, m)
             \/ /\ PersistFails(next)
                /\ Goto(k, "connect")
                /\ UNCHANGED <<queue, worker, dialog>>
    /\ UNCHANGED <<outside, control, grants, requests, asked>>

\* The end of a batch: the cursor is saved.
EndBatch(k) ==
  LET next == [saved EXCEPT !.cursor[k] = adapter[k].next] IN
  /\ adapter[k].pc = "intake" /\ adapter[k].next # adapter[k].cursor
  /\ saved' = next
  /\ \/ /\ Persist(next)
        /\ adapter' = [adapter EXCEPT ![k].pc = "poll", ![k].cursor = adapter[k].next]
     \/ /\ PersistFails(next)
        /\ Goto(k, "connect")
  /\ UNCHANGED <<outside, control, queue, worker, dialog, grants, requests, history>>

\* Mutant: the delay before a reconnection does not watch the cancellation.
Drain_NotConnecting(k) ==
  /\ Stopping(k) /\ adapter[k].pc = "poll"
  /\ Goto(k, "drain")
  /\ UNCHANGED <<outside, store, control, queue, worker, dialog, grants, requests, count, history>>

\* The cancelled adapter drops its end of the queue and waits for the worker.
Drain(k) ==
  /\ Stopping(k) /\ adapter[k].pc \in {"connect", "poll"}
  /\ Goto(k, "drain")
  /\ UNCHANGED <<outside, store, control, queue, worker, dialog, grants, requests, count, history>>

\* A channel that was being bound just stops.
AdapterEnds(k) ==
  /\ \/ adapter[k].pc = "drain" /\ worker[k].pc = "off"
     \/ adapter[k].pc = "binding" /\ Stopping(k)
  /\ adapter' = [adapter EXCEPT ![k] = AdapterOff]
  /\ queue' = [queue EXCEPT ![k] = <<>>]
  /\ UNCHANGED <<outside, store, control, worker, dialog, grants, requests, count, history>>

----------------------------------------------------------------------------
(* worker and ChannelConfirmer. *)

WorkerAt(k, pc) == worker[k].pc = pc
HeadIs(k, word) == queue[k] # <<>> /\ sent[Head(queue[k])].word = word

\* /new: another conversation; its grant ends once the change is saved.
NewConversation(k) ==
  LET r == sent[Head(queue[k])].route
      next == [saved EXCEPT !.generation[r] = @ + 1] IN
  /\ WorkerAt(k, "idle") /\ ~ Stopping(k)
  /\ HeadIs(k, "new")
  /\ queue' = [queue EXCEPT ![k] = Tail(@)]
  /\ saved' = next
  /\ \/ Persist(next) /\ grants' = grants \ {r}
     \/ PersistFails(next) /\ UNCHANGED grants
  /\ UNCHANGED <<outside, control, adapter, worker, dialog, requests, history>>

\* The next message is given to the agent.
Take(k) ==
  LET m == Head(queue[k]) IN
  /\ WorkerAt(k, "idle") /\ ~ Stopping(k)
  /\ HeadIs(k, "ask")
  /\ queue' = [queue EXCEPT ![k] = Tail(@)]
  /\ worker' = [worker EXCEPT ![k].pc = "working", ![k].message = m]
  /\ asked' = [asked EXCEPT ![m] = IF @ = 2 THEN 2 ELSE @ + 1]
  /\ UNCHANGED <<outside, store, control, adapter, dialog, grants, requests, count,
                 forgotten>>

\* Stopping the channel cancels the task of its worker.
StopTask(k) ==
  /\ Stopping(k) /\ InTask(k) /\ ~ worker[k].cancel
  /\ worker' = [worker EXCEPT ![k].cancel = TRUE]
  /\ UNCHANGED <<outside, store, control, adapter, queue, dialog, grants, requests, count, history>>

\* The task ends with an answer or an error, which is sent unless the channel is
\* being stopped.
FinishTask(k) ==
  /\ WorkerAt(k, "working")
  /\ worker' = [worker EXCEPT ![k] = Idle]
  /\ UNCHANGED <<outside, store, control, adapter, queue, dialog, grants, requests, count, history>>

\* What is still queued is dropped with the worker.
WorkerEnds(k) ==
  /\ WorkerAt(k, "idle") /\ Stopping(k)
  /\ worker' = [worker EXCEPT ![k] = WorkerOff]
  /\ UNCHANGED <<outside, store, control, adapter, queue, dialog, grants, requests, count, history>>

IsReleased(k, op) ==
  \/ op \in saved.allowed
  \/ Route(k) \in grants /\ op \notin Dangerous \union Root

\* The first part of wait: a request is opened and its prompt is on its way.
OpenRequest(k, op, choice) ==
  /\ requests < MaxRequests
  /\ requests' = requests + 1
  /\ pending' = [pending EXCEPT ![k] = [id |-> requests + 1, strong |-> choice # None,
                                        remember |-> choice = None /\ op \notin Root]]
  /\ worker' = [worker EXCEPT ![k].pc = "prompting", ![k].op = op, ![k].choice = choice]

\* confirm: what was refused in this task, is cancelled or has a grant is decided
\* at once and changes nothing; anything else asks the sender.
Ask(k, op) ==
  /\ WorkerAt(k, "working")
  /\ ~ worker[k].cancel /\ op \notin worker[k].refused /\ ~ IsReleased(k, op)
  /\ OpenRequest(k, op, None)
  /\ UNCHANGED <<outside, store, control, adapter, queue, reply, grants, count, history>>

\* The prompt may be answered before its sending is known to have succeeded.
SendPrompt(k) ==
  /\ WorkerAt(k, "prompting")
  /\ shown' = IF pending[k] # None THEN [shown EXCEPT ![Route(k)] = pending[k].id] ELSE shown
  /\ worker' = [worker EXCEPT ![k].pc = "waiting"]
  /\ UNCHANGED <<sent, store, control, adapter, queue, dialog, grants, requests, count, history>>

ToWork(k, refused) ==
  worker' = [worker EXCEPT ![k].pc = "working", ![k].op = None, ![k].choice = None,
                           ![k].refused = @ \union refused]

\* Mutant: the open request is left behind.
Refuse_LeavesRequest(k) ==
  /\ reply' = [reply EXCEPT ![k] = None]
  /\ ToWork(k, {worker[k].op})
  /\ UNCHANGED pending

\* Without an answer the operation is refused for the rest of the task.
Refuse(k) ==
  /\ pending' = [pending EXCEPT ![k] = None]
  /\ reply' = [reply EXCEPT ![k] = None]
  /\ ToWork(k, {worker[k].op})

\* The prompt is too long or cannot be sent.
PromptFails(k) ==
  /\ WorkerAt(k, "prompting")
  /\ Refuse(k)
  /\ UNCHANGED <<outside, store, control, adapter, queue, grants, requests, count, history>>

\* The select of wait: the cancellation comes first, then an answer or the
\* time limit of two minutes.
Unanswered(k) ==
  /\ WorkerAt(k, "waiting")
  /\ \/ worker[k].cancel
     \/ reply[k] = "deny"
     \/ pending[k] # None
  /\ Refuse(k)
  /\ UNCHANGED <<outside, store, control, adapter, queue, grants, requests, count, history>>

\* The end of confirm.  A session grant is kept in memory.  A permanent one is in
\* force once it is saved; otherwise confirm returns an error, which some tools
\* hand on to the whole task.
Grant(k, choice) ==
  LET r == Route(k)
      next == [saved EXCEPT !.allowed = @ \union {worker[k].op}] IN
  \/ /\ choice # "always"
     /\ grants' = IF choice = "session" THEN grants \union {r} ELSE grants
     /\ ToWork(k, {})
     /\ UNCHANGED <<store, count>>
  \/ /\ choice = "always"
     /\ saved' = next /\ Persist(next)
     /\ ToWork(k, {})
     /\ UNCHANGED grants
  \/ /\ choice = "always"
     /\ PersistFails(next)
     /\ ToWork(k, {}) \/ worker' = [worker EXCEPT ![k] = Idle]
     /\ UNCHANGED <<saved, grants>>

\* The first answer chooses what is granted; a dangerous operation is asked about
\* a second time, and that answer only confirms.
Answered(k) ==
  LET first == worker[k].choice = None IN
  /\ WorkerAt(k, "waiting")
  /\ ~ worker[k].cancel /\ reply[k] \in Choices
  /\ reply' = [reply EXCEPT ![k] = None]
  /\ \/ /\ first /\ worker[k].op \in Dangerous
        /\ OpenRequest(k, worker[k].op, reply[k])
        /\ UNCHANGED <<store, count, grants>>
     \/ /\ first => worker[k].op \notin Dangerous
        /\ Grant(k, IF first THEN reply[k] ELSE worker[k].choice)
        /\ UNCHANGED <<pending, requests>>
  /\ UNCHANGED <<outside, control, adapter, queue, asked, forgotten>>

----------------------------------------------------------------------------
(* apply_owned, stop_job and shutdown: one at a time, under the lock. *)

Whats == {"start", "stop", "forget", "bind"}

\* The account must be there to be started.
Apply(what, k) ==
  /\ owner = None /\ closing = "no"
  /\ count.edits < MaxEdits
  /\ what = "start" => k \in saved.bound
  /\ count' = [count EXCEPT !.edits = @ + 1]
  /\ owner' = [what |-> what, kind |-> k, todo |-> {k}]
  /\ UNCHANGED <<outside, store, closing, job, adapter, queue, worker, dialog, grants, requests, history>>

\* RevokePermanentApproval
Revoke(op) ==
  LET next == [saved EXCEPT !.allowed = @ \ {op}] IN
  /\ owner = None /\ closing = "no"
  /\ count.edits < MaxEdits
  /\ op \in saved.allowed
  /\ \/ /\ saved' = next /\ disk' = next
        /\ count' = [count EXCEPT !.edits = @ + 1]
     \/ /\ count.failures < MaxFailures
        /\ count' = [count EXCEPT !.edits = @ + 1, !.failures = @ + 1]
        /\ disk' \in {disk, next}
        /\ UNCHANGED saved
  /\ UNCHANGED <<outside, control, adapter, queue, worker, dialog, grants, requests,
                 asked, forgotten>>

\* shutdown refuses further actions at once and then waits for the one at work.
Shutdown ==
  /\ closing = "no"
  /\ closing' = "asked"
  /\ UNCHANGED <<outside, store, job, owner, adapter, queue, worker, dialog, grants, requests, count, history>>

BeginShutdown ==
  /\ closing = "asked" /\ owner = None
  /\ closing' = "stopping"
  /\ owner' = [what |-> "shutdown", kind |-> None, todo |-> Kinds]
  /\ UNCHANGED <<outside, store, job, adapter, queue, worker, dialog, grants, requests, count, history>>

\* stop_job, one channel after the other: cancel the job and wait for its end.
SignalJob(k) ==
  /\ owner # None /\ k \in owner.todo
  /\ job[k] = "running" /\ \A j \in Kinds : job[j] # "cancelled"
  /\ job' = [job EXCEPT ![k] = "cancelled"]
  /\ UNCHANGED <<outside, store, owner, closing, adapter, queue, worker, dialog, grants, requests, count, history>>

\* Mutant: nobody waits for the task of the job.
JobEnded_NotAwaited(k) ==
  /\ owner # None /\ k \in owner.todo
  /\ job[k] # "running"
  /\ job' = [job EXCEPT ![k] = "none"]
  /\ owner' = [owner EXCEPT !.todo = @ \ {k}]
  /\ UNCHANGED <<outside, store, closing, adapter, queue, worker, dialog, grants, requests, count, history>>

JobEnded(k) ==
  /\ owner # None /\ k \in owner.todo
  /\ job[k] = "none" \/ (job[k] = "cancelled" /\ adapter[k].pc = "off")
  /\ job' = [job EXCEPT ![k] = "none"]
  /\ owner' = [owner EXCEPT !.todo = @ \ {k}]
  /\ UNCHANGED <<outside, store, closing, adapter, queue, worker, dialog, grants, requests, count, history>>

Edited(what, k) ==
  CASE what = "start" -> [saved EXCEPT !.enabled = @ \union {k}]
    [] what \in {"stop", "bind"} -> [saved EXCEPT !.enabled = @ \ {k}]
    [] what = "forget" -> [saved EXCEPT !.bound = @ \ {k}, !.enabled = @ \ {k}, !.cursor[k] = 0]

\* The rest of apply_owned: the account changes in memory, is saved, and the
\* channel is launched.  A failed save leaves the change in memory.
Complete ==
  LET k == owner.kind
      next == Edited(owner.what, k)
      on == IF owner.what \in {"start", "bind"} THEN {k} ELSE {} IN
  /\ owner # None /\ owner.what # "shutdown" /\ owner.todo = {}
  /\ saved' = next
  /\ owner' = None
  /\ \/ /\ Persist(next)
        /\ Launched(on, IF owner.what = "bind" THEN "binding" ELSE "connect")
     \/ /\ PersistFails(next)
        /\ UNCHANGED <<job, adapter, worker>>
  /\ UNCHANGED <<outside, closing, queue, dialog, grants, requests, history>>

CompleteShutdown ==
  /\ owner # None /\ owner.what = "shutdown" /\ owner.todo = {}
  /\ owner' = None
  /\ closing' = "closed"
  /\ UNCHANGED <<outside, store, job, adapter, queue, worker, dialog, grants, requests, count, history>>

\* The process ends, in order or not, and is started again.
Restart ==
  /\ count.starts < MaxStarts
  /\ count' = [count EXCEPT !.starts = @ + 1]
  /\ saved' = disk
  /\ job' = [k \in Kinds |-> IF k \in disk.enabled THEN "running" ELSE "none"]
  /\ adapter' = [k \in Kinds |-> IF k \in disk.enabled THEN [AdapterOff EXCEPT !.pc = "connect"]
                                 ELSE AdapterOff]
  /\ worker' = [k \in Kinds |-> IF k \in disk.enabled THEN Idle ELSE WorkerOff]
  /\ queue' = [k \in Kinds |-> <<>>]
  /\ pending' = [k \in Kinds |-> None] /\ reply' = [k \in Kinds |-> None]
  /\ grants' = {}
  /\ owner' = None /\ closing' = "no"
  /\ requests' = 0 /\ shown' = [r \in Routes |-> 0]
  /\ UNCHANGED <<sent, disk, history>>

----------------------------------------------------------------------------

SenderStep ==
  \E r \in Routes, word \in AllWords : Send(r, word)

AdapterStep(k) ==
  \/ Bind(k) \/ Connect(k) \/ Poll(k) \/ Disconnect(k)
  \/ Intake(k) \/ EndBatch(k)
  \/ Drain(k) \/ AdapterEnds(k)

WorkerStep(k) ==
  \/ NewConversation(k) \/ Take(k) \/ StopTask(k) \/ FinishTask(k) \/ WorkerEnds(k)
  \/ \E op \in Ops : Ask(k, op)
  \/ SendPrompt(k) \/ PromptFails(k) \/ Unanswered(k) \/ Answered(k)

OwnerStep ==
  \/ \E k \in Kinds : SignalJob(k) \/ JobEnded(k)
  \/ BeginShutdown \/ Complete \/ CompleteShutdown

Next ==
  \/ SenderStep
  \/ \E k \in Kinds : AdapterStep(k) \/ WorkerStep(k)
  \/ \E k \in Kinds, what \in Whats : Apply(what, k)
  \/ \E op \in Ops : Revoke(op)
  \/ OwnerStep \/ Shutdown
  \/ Restart

Spec == Init /\ [][Next]_vars

\* Every wait of an adapter is a request with a time limit or gives way to the
\* cancellation; requests for approval expire.  A cancelled task ends, which is
\* assumed here: AgentLoop shows it (CancelEnds) for every task except one whose tool
\* in hand never returns, as a command does whose descendants hold its pipes.
FairSpec ==
  /\ Spec
  /\ \A k \in Kinds :
       /\ WF_vars(Intake(k) \/ EndBatch(k)) /\ WF_vars(Drain(k)) /\ WF_vars(AdapterEnds(k))
       /\ WF_vars(StopTask(k)) /\ WF_vars(worker[k].cancel /\ FinishTask(k)) /\ WF_vars(WorkerEnds(k))
       /\ WF_vars(SendPrompt(k) \/ PromptFails(k) \/ Unanswered(k) \/ Answered(k))
  /\ WF_vars(OwnerStep)

----------------------------------------------------------------------------
(* Properties *)

\* A message is given to the agent once at most, however often the channel
\* delivers it: after a lost connection, a failed save, a forgotten account or a
\* crash between any two steps.  (The ledger is bounded: what left it is excepted.)
AskedOnce == \A m \in Messages : m \notin forgotten => asked[m] <= 1

\* An open request belongs to the confirmation the worker waits in, however the
\* last one ended; a request left over would make a bare reply ambiguous.
PendingHasWaiter ==
  \A k \in Kinds :
    pending[k] # None \/ reply[k] # None => worker[k].pc \in {"prompting", "waiting"}

\* A channel nobody runs is quiet: its adapter, its worker and its requests are
\* gone; and so is every channel once shutdown has returned.
StopIsComplete ==
  /\ \A k \in Kinds : job[k] = "none" =>
       adapter[k].pc = "off" /\ worker[k].pc = "off" /\ queue[k] = <<>> /\ pending[k] = None
  /\ closing = "closed" => \A k \in Kinds : job[k] = "none"

\* Shutdown returns, whether the channels are connecting, waiting for messages or
\* for approvals, or asking the agent, as long as a cancelled task ends.
ShutdownReturns == closing = "asked" ~> closing \in {"no", "closed"}

=============================================================================
