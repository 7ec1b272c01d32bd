# A TLA+ verification of nl2sh

nl2sh is an Android shell agent written in Rust. A person (in the terminal UI,
the Web UI or a chat channel), a script (the CLI) or another program (MCP, A2A)
asks for something in natural language; an LLM loop turns it into tool calls and
shell commands; a security classifier assesses each of them; a confirmation
policy decides whether someone has to approve it; a broker executes it. The
modules in this directory model the parts of that pipeline in which order,
failure, concurrency and restarts decide whether it is correct.

## 1. The system

### Components, state and operations

| Component | Source | State it keeps | Operations |
|---|---|---|---|
| Approval grants | `src/security/grants.rs` | `grants.json` (remaining uses, revocations) under a lock file shared by processes | `try_release`, `consume`, `revoke`, `statuses` |
| Approval policy | `src/agent/policy.rs`, `src/agent/session_policy.rs`, `src/security/policy/*` | session policy override (atomic), saved policy | `confirm_assessed`, `confirmation_required`, `can_remember_approval`, `PrivilegeBroker::authorize` |
| Tool runtime | `src/tools/runtime.rs` | none of its own | `execute_prepared_operation`, `invoke_scoped` |
| Agent loop | `src/agent/runner.rs`, `runtime.rs`, `context.rs`, `background.rs` | task counters, transcript, task approvals, action history, continuation queue | one LLM round; one tool call; parallel batch; resume; stop |
| UI lease | `src/runtime/resources.rs`, `src/shell/broker.rs` | flock file shared by processes, task-local "held" flags | acquire, share with a background job, release |
| Background shell | `src/shell/background.rs` | registry of at most 16 jobs, ring buffers | spawn, supervise, stop, page, shutdown |
| Shell execution | `src/shell/executor.rs`, `pipeline.rs`, `pty.rs` | one child per command, in a group of its own | run, time out, cancel, terminate, kill, read the output |
| Web sessions | `src/web/interaction.rs`, `agent.rs`, `state.rs`, `routes/sessions.rs` | per session: busy, pending approval, reply channel, cancel flag, checkpoint, turns; a file per session | start, run, decide, cancel, persist, delete, load after restart |
| Session store | `src/sessions.rs` | one JSON file per session | save, load, list, rename, delete |
| Protocol tasks | `src/protocol/tasks.rs`, `store.rs`, `execution.rs` | active map, per-context locks, 16 permits, SQLite store | submit, get, cancel, list, shutdown, recovery |
| Local approvals for protocols | `src/protocol/approval.rs` | one private socket directory per pending request | request, approve, deny, expire |
| Channels | `src/channels/*` | manager of adapter jobs, dedup set, pending approvals, session and permanent grants | admit, queue, run, approve, cancel, `/new`, launch, stop |
| LLM client | `src/llm/*` | none across calls | request, stream, retry |
| Tools | `src/tools/*` | per tool | prepare, execute |
| Service, update, dependencies | `src/service.rs`, `update.rs`, `runtime_dependencies/*` | pid and status files, staged binaries | start, stop, replace |
| Terminal UI | `src/tui/*` | screen and input state | render, edit, dispatch |


### How the components interact

```
 person / browser        channel message       MCP / A2A client        CLI
        |                      |                       |                |
   Web session            channel gateway        Protocol tasks         |
        |                      |                       |                |
        +----------------------+-----------+-----------+----------------+
                                           |
                              Agent loop (one per task)  <-->  LLM client
                                           |
                      Tool runtime: assess, confirm, authorize
                       |                   |                  |
               Approval policy       Approval grants     UI lease
                       |             (file, flock)       (flock)
               confirmer: Web dialog, channel message,
               terminal, local socket, or nobody
                                           |
                        shell broker, structured tools, background jobs
```

- A *task* is a future polled by its front end. Whoever starts it passes a cancel
  signal (a `watch` channel); the loop and the confirmers read it at the points
  the code names, never in between.
- Every operation passes `confirm_assessed`, which may release it by policy, by a
  grant, by what the task remembers, or by asking its front end's confirmer. The
  confirmer waits on a one-shot channel that a *different* request (the browser's
  post) answers.
- Grants are shared by all nl2sh processes of the device through one JSON file
  and `flock`. So is the UI lease.
- MCP and A2A requests become protocol tasks: a record in SQLite, a worker that
  runs the agent loop or a direct operation, and a `watch` channel for those who
  wait. A context is a Web session file; asks of one context take turns.
- A Web session is an object in a registry, held at the same time by its task, its
  terminals, its title request, its scheduled checkpoints and the handlers of
  requests; each of them may save it, and all saves go to one file.
- A channel is an adapter (receives, remembers, decides) and a worker (asks the agent)
  with a bounded queue between them; approvals are later messages of the same chat.
- The managed service is found through a state file; whoever controls it is another process.

### What is hard about it

- *Interleaving of processes*: the grant file and the UI lease have no owner; two
  processes read, decide and write, and either may die in between.
- *Interleaving of futures*: cancellation, the time limit, the owner's edits and
  stale browser posts arrive at any `await`.
- *Dropped futures*: a client that disconnects drops `submit` in the middle, but
  not the blocking write it had started.
- *Partial failure*: any database write may fail, and so may the write that was
  to record the failure. A tool round has six exits, all of which have to leave
  the conversation in a shape the provider accepts.
- *Restart*: permits, locks, dialogs and channels are gone; records, turns and
  grant counters are not.
- *Counters and limits*: permits, retained records, uses, calls, steps, stalls,
  repetitions and repairs, each compared somewhere with its limit.

### What makes each component correct

| Component | Correctness |
|---|---|
| Approval grants | A grant is used at most as often as its budgets allow, however templates are edited; nothing is released after a revocation; an exhausted grant hides no usable one; every request gets an answer |
| Approval policy, Web dialog | What runs is what was shown; strong confirmation takes two posts for the same dialog; only ordinary commands are released without a person; a dialog is open only while it is needed; nothing is released automatically after a cancellation |
| Protocol tasks | Capacity is never exceeded or leaked; asks of a context do not overlap and lose no turn; records of live work survive pruning; a final answer stays the answer; shutdown leaves nobody behind and returns |
| Agent loop | Each admitted call has exactly one result in order, on every exit; counters match the transcript; budgets hold; repetitions and stalls are bounded and announced; the model is asked only when it can see everything; cancellation and time limit end the task, unless the tool in hand never returns |
| Web sessions, session store | One task per session; busy only while a task is under way, except for a session whose message lost its connection before its first save; a dialog has a waiter; an answer reported as saved stays saved; a deleted session stays deleted; a cancelled task ends |
| UI lease, background shell | One user of the device at a time; a job keeps its task's lease alive and releases it; a stopped job is reaped; a shell that may run is in the registry, which holds at most 16; a clean shutdown leaves no child |
| Local approvals | One decision per request; a request that expired or whose owner died is never approved |
| Channels | A message is given to the agent at most once; a request is open only while somebody waits for it; stopping a channel leaves no task behind and returns |
| Service | The service that runs is the one on record; a stop that succeeded leaves nothing running |
| Conversation context | Trimming removes whole turns, oldest first, and never the current one |

## 2. Plan

Done, in this order:

1. `GrantBudget` (abstract) and `Grants` (detailed), with the refinement between them.
2. `Approval`, the boundary every operation crosses.
3. `ProtocolTasks`, the server's tasks over their database.
4. `AgentLoop`, the loop that drives all of it.
5. `WebSessions` with the session store.
6. `DeviceShell`: the UI lease, background shells and foreground commands.
7. The other front ends of `Approval`: the protocol server's confirmer and the local
   terminal that answers it, and the terminal UI.
8. `Channels`: the ledger, the queue, approvals by message, owners, shutdown, restart.
9. `Service`: its controllers, locks and state file.

Next:

10. The self-update (`update.rs`, `web/routes/update.rs`) next to `Service`: several
    processes, one executable, one staging file; see the observations of section 6.
11. `LlmClient`: negotiation of the dialect, retries, and what a stream may have shown
    before its attempt failed.
12. The QQ gateway's buttons and `ConfigureQq` in `Channels`; the eight pending
    directories of `protocol/approval.rs` with several servers.
13. `ConversationContext`: trimming as a function, checked against a declarative
    definition over bounded histories.

Every safety property that a run checks is proved (section 5). Theorems worth proving next: that
`DeletedStaysDeleted` fails only through the late save of section 6, a promise of its own for
`ProtocolTasks` that a client may rely on, with the refinement to it, and the invariants of the
modules of steps 10 to 13.

## 3. The modules and the code

Each module's header says which code it is about; `PROJECT.json` maps every
definition to its lines.

### `GrantBudget`: what a grant promises

`left[g]` is the remembered number of uses of grant `g`, `revoked[g]` whether it was
revoked. `Use(g, base)` is one release under a template that allows `base` uses;
`Revoke(g)` ends the grant. `spent[g][b]`, the uses taken under a template that
allowed at most `b`, is a history variable for the properties. Everything is
atomic here.

### `Grants`: the file behind it (`src/security/grants.rs`)

One process per worker. `Present` is the call of `try_release`, `LoadTemplates` the
re-read of the configuration, `Match` / `NoneMatched` the walk over the grants,
`AcquireLock` / `LockTimeout` the polled `flock`, `ReadState`, `Charge`, `PersistUse`
the read-decide-write cycle of `consume`, `RequestRevocation` and `PersistRevocation`
those of `revoke`, `Finish` the answer. `Abort` is a process that dies or an I/O error, at
any step. The rename that publishes the state is atomic in the code and
in the model. `EditConfig` and `SetClock` are the owner and the device.

Abstracted: a template's tool, package and risk patterns to the set of grants a
request is in scope of; the three second poll to a nondeterministic time-out.

### `Approval`: from call to execution (`src/agent/policy.rs`, `session_policy.rs`, `src/security/policy/privilege.rs`, and three front ends)

The task: `StartTask`, `BeginCall`, `Assess` (`SecurityAssessment::from_policy`, the tool's own risk),
`Decide` (`confirm_assessed` up to its first await, including session preference and
remembered commands), `TryRelease` and `Released` (the grant store, and the check of the
cancel signal after it), `Ask`, `Install` (with `InstallFails` and `InstallCancelled`), the
branches of the wait (`TakeAnswer`, `TakeCancel`, `Expire`), `Authorize`, `Execute`, `EndTask`. `Cancel` is the
stop button, or Ctrl-C. `shown`, `by` and `twice` in the consent record how a call was released.

Which front end a task has is part of its configuration:

- `web` (`src/web/interaction.rs`, `src/web/routes/sessions.rs`): `Arm`, `Decision`, `SetPolicy`, with
  the id of any dialog the browser has ever seen.
- `protocol` (`src/protocol/approval.rs`): one request at a time behind a lock, its two steps in
  one answer, an expiry, and `AutoApproved` when the server was started with it.
- `tui` (`src/tui/session.rs`): a dialog with two stages (`Arm`, `Disarm`), its policy page, and the
  permission for the run (`Permission`, `RunAllowed`).

Abstracted: a command stands for its effects, chosen by a constant, because the
analysis of shell text is data; the file and process side of grants is the count
that `GrantBudget` promises.

### `ProtocolTasks`: `src/protocol/tasks.rs`, `store.rs`, `execution.rs`

A submission: `Submit` (stopping check and permit), `Lock` (the active map), `Store`
(the first write), `Resume` (insert and spawn), `Drop` (the client goes away at any of
these). Its worker: `Start`, `Alive` / `Join` / `Check` / `Acquire` / `GiveUp` (the context lock
behind a weak reference; `Acquire` also loads the session's `LastTurns`), `Ask` or `Call`, `Save` / `Resave` (the final write, and the write of
a failure if that failed), `Leave`, `Publish`. The store: `Put` with pruning of terminal records, `PutFails`,
`Open` (everything unfinished becomes FAILED). The rest: `Cancel`, `Answer` (poll), `Learn` (wait),
`Stop`, `CancelAll`, `Drained` (shutdown), `Die`.

Abstracted: a document to its status; the two caps of the store (records, bytes),
which one loop enforces, to the first; the choice of the victim by textual timestamp
to any terminal record, so every clock is covered; a turn to the ask it came from. The number of turns a
session is loaded with (`max_context_turns`, which the code reads again for each ask) is the constant
`ContextTurns`. A save writes what was loaded and one turn more, so older turns leave the file by design;
`saved` is a history variable that remembers every turn ever saved, in order, for `TurnsAreKept`: whatever
completed is in it, and the file and what an ask has loaded are its ends.

### `AgentLoop`: `src/agent/runner.rs` and the budgets of `runtime.rs`

One action per place where `run_scoped_with_registry` decides or awaits:
`StepLimit` / `BeginStep`, the continuations (`PopContinuation`, `Wake`,
`SleepTimedOut`, `ResumeRefused`, `ResumeOperation`), the request (`ModelAnswers`, `ModelCalls`,
`ModelFails`, `ModelInterrupted`), a parallel batch (`StartBatch`, `BatchDone`, `BatchTimedOut`,
`BatchCancelled`), one call (`StartCall`, `Prepare*`, `AskToConfirm`,
`NoConfirmation`, `Approve`, `Reject`, `Edit`, `ConfirmFails`, `OperationDone`, `BackgroundStarted`,
`CommandDone`, `CommandFails`, `CommandInterrupted`), `LeaveCalls`, and the end of the round
(`EmptyRound`, `InvalidRounds`, `Stalled`, `MustReplan`, `RecordRound`). `CancelTask`
and `Expire` are the environment. The task's steps come in two groups: `Loop`, what the loop does by itself,
and `Tool`, the return of a tool, a command or a batch that somebody else has to finish (`InTool`).
A batch of diagnostics is not raced against cancellation and time limit, since its children have to be reaped (`NeedsReaping`).

Abstracted: a call to the path it takes; a result to its fingerprint; the time to
one flag, which can only be raised outside confirmations (their duration is not
active time); the continuation queue to its length.

### `WebSessions`: `src/web/state.rs`, `agent.rs`, `interaction.rs`, `server.rs`, `routes/sessions.rs`, `routes/terminal.rs`, and `src/sessions.rs`

Handlers: `NewSession`, `LoadSession` (and `LoadInterrupted`, which first saves the mark of a task that was
cut off), `StartMessage`, `CancelMessage`, `PostDecision`, `DeleteSession`, `DeleteAll`, `Shutdown`; `DropMessage` and
`DropCancel` are a handler whose client went away while it awaited a save. A task: `Prepare`,
`ScheduleCheckpoint`, `CheckCancel`, `OpenDialog`, `Wait`, `AnswerWork` or `FailWork`, and its saves. The other savers
of the object: `BeginCheckpoint`, `BeginCancelSave`, `SuggestTitle` and `BeginTitleSave`. A save is a snapshot
(`Begin`, under the object's persist lock), `MakeTemporary` (`create_new`), and `RenameTemporary` or
`FailSave`; `AfterSave` is what its caller goes on with. `AtWork` is a session some task of which is
under way, `Stranded` one that a dropped `start_message` left busy. Terminals (`UpgradeTerminal` to
`CloseTerminal`) hold the object across its deletion and share its one dialog. `Restart` is a crash
between any two steps: temporary files stay, everything in memory is gone.

Abstracted: a turn to the number of its task; display lines, metrics and audit events left out.
The registry lock, which a load keeps during its file write, and the persist lock are the guards
`RegistryFree` and `PersistFree`.

### `DeviceShell`: `src/runtime/resources.rs`, `src/shell/broker.rs`, `background.rs`, `executor.rs`, `pipeline.rs`, `pty.rs`

A task's call: `BeginCall`, `Acquire` or `GiveUp` (ten seconds of polls), `Act` / `Acted`, `ReleaseLease`. A foreground
command: `RunCommand`, `Fork` (a descendant that inherits the pipes), `ShellExits`, `StopCommand` (SIGTERM),
`KillCommand` (SIGKILL), `ShellReaped`, `OutputRead`. A background one: `AskBackground` (the lease is cloned),
`Spawn` with eviction of the oldest finished job, `SpawnFails`, `ReleaseAfterStart`; its supervisor:
`Expire`, `Terminate`, `KillAndReap`, `SuperviseFails`, `ReleaseJobLease`, `Finish`; `Stop`; and `Shutdown`, `ShutdownWaits`,
`ShutdownGivesUp`, `Exit` of a process.

Abstracted: the `flock` is free when no clone of an earlier lease is left, which is what the
kernel says of an open file description; output, exit codes and terminal modes.

### `Channels`: `src/channels/mod.rs`, `approval.rs`, `store.rs`, `weixin.rs`

The adapter: `Bind`, `Connect`, `Poll`, `Disconnect`, `Intake` (remember the message, then decide, cancel or
enqueue it), `EndBatch` (the cursor), `Drain`, `AdapterEnds`. The worker: `NewConversation`, `Take`, `StopTask`,
`FinishTask`, `WorkerEnds`, and the confirmation it waits in: `Ask`, `SendPrompt` / `PromptFails`, `Answered`,
`Unanswered`. Owners, under the lock `actions`: `Apply`, `Revoke`, `Complete`; `Shutdown` with `BeginShutdown`,
`SignalJob`, `JobEnded`, `CompleteShutdown`. `Restart` is a crash, or a clean start after a shutdown. `Send` is a person's message.

Abstracted: a message to its position and its word; a save, which nobody sees half done
because the lock is kept, to one step that may fail and leave either state on disk.

### `Service`: `src/service.rs`

A controller: `Ask`, `LockOperation` or `LockTimesOut`, then for a start `ReadStatus`, `CheckHealth`, `Launch` /
`LaunchFails` / `IdentifyFails`, `PollEnds` / `PollTimesOut`, and for a stop `ReadForStop`, `SendToken`, `ReadReply`, `StopEnds` /
`StopFails`, after which a restart goes on as a start. A service process: `LockRunning` or `LockRunningTimesOut`,
`FailStart`, `Publish` (the state file), `AcceptToken`, `Terminate`, `RemoveRecord`, `Leave`. `Die` and `Abandon` are the
death of either, or an error return, at any step.

Abstracted: the record to the process that wrote it (process identifier, start time and executable identify
it); ports, policy and log are left out.

### How the modules fit together

`Grants` implements `GrantBudget` (a refinement, checked and proved). `Approval` uses
the counted grant of that promise instead of the file. `AgentLoop` takes any verdict
that `Approval` may come to (approved, rejected, edited, failed), and
`ProtocolTasks`, `WebSessions` and `Channels` take any result an agent loop may have. In
`WebSessions` an answer is whatever somebody posts; what it may release is the question of
`Approval`. `DeviceShell` takes any sequence of calls a loop may make. Each of these
over-approximates the component it stands on, so what holds of the upper module does
not depend on details of the lower one.

## 4. The runs

`tlc -config <cfg> <module>`; every constant is given its value in the cfg or the MC module.

| Run | Module, cfg | Bounds | Shows |
|---|---|---|---|
| `grants` | `MCGrants`, `Grants.cfg` | 2 workers, 2 overlapping grants, up to 2 uses, 3 requests (one of them blocked by policy), 2 edits, clock {0, 1} | `WithinBudget`, `ReadsAreFresh`, `NothingAfterRevocation`, `NoUsableGrantHidden`; the store implements `GrantBudget`; `AlwaysAnswered` under fairness |
| `approval` | `MCApproval`, `Approval.cfg` | 4 commands, 7 configurations of the 3 front ends, 1 use, 2 dialogs (81 thousand states) | what runs was released for exactly that, strong operations in two steps, nothing automatic after a cancellation, and that a cancellation ends the wait |
| `protocol_turns` | `MCProtocolTasks`, `ProtocolTasks_turns.cfg` | 3 asks of one context that load 1 turn, 2 permits, 2 records (3.3 million) | capacity, turns, pruning, shutdown |
| `protocol_live` | `MCProtocolTasks`, `ProtocolTasks_live.cfg` | an ask and a direct operation, 2 permits, 2 records, 2 starts (78 thousand) | `AnswersAgree` over death and restart; `TasksSettle`, `ShutdownReturns` under fairness, provided that operations return |
| `agent` | `MCAgentLoop`, `AgentLoop.cfg` | up to 3 calls per response and in all, 3 steps (hard limit 2), six kinds of calls, 2 results, replan at 1, abort at 2, 1 continuation (884 thousand) | pairing, counters, cancellation, repetitions and completeness on every exit; `CancelEnds`, `TimeLimitEnds` under fairness, except for a task that stays in a tool |
| `web_restart` | `WebSessions`, `WebSessions_restart.cfg` | 2 names, 2 objects, 2 tasks, 2 starts, 1 scheduled checkpoint (1.1 million) | `OneTaskPerSession`, `AnswersAreKept` over all savers, deletion, load and a crash |
| `web_live` | `WebSessions`, `WebSessions_live.cfg` | 1 session, 1 task, 1 terminal, lost connections (49 thousand) | `BusyHasTask` and, under fairness, `CancelEndsTask`, except for a stranded session; `DialogHasWaiter` |
| `web_deleted` | `WebSessions`, `WebSessions_deleted.cfg` | 1 session, 1 task | violated, see section 6 |
| `device` | `MCDeviceShell`, `DeviceShell.cfg` | 2 processes with a task each, 2 jobs, a registry of 1 (834 thousand) | `UiIsExclusive`, `NothingIsForgotten`, `ShutdownLeavesNothing`; `JobsEnd` under fairness |
| `foreground` | `MCDeviceShell`, `DeviceShell_foreground.cfg` | 1 process, 1 task | violated, see section 6 |
| `channels` | `MCChannels`, `Channels.cfg` | 1 channel, 1 sender with 3 messages, a ledger of 3, a queue of 1, 2 requests, 1 edit, 1 failed save, 2 starts (744 thousand) | `AskedOnce`, `PendingHasWaiter`, `StopIsComplete`; `ShutdownReturns` under fairness, provided that a cancelled task ends |
| `service` | `Service`, `Service.cfg` | 2 controllers, 3 service processes, 4 operations (68 thousand) | `RecordIsKept`, `StopIsEffective` |

`CHECK_DEADLOCK FALSE` appears where the system really stops: a task that has ended, a
server that has been shut down for the last time, processes that have exited, and operations
or messages that have all been made.

### Why the bounds are enough

- *Grants*: a race needs two processes. With two uses one can be charged twice, and once more
  after an edit from one to unlimited, or to nothing and back, which takes two edits. A second grant that
  matches too is what an exhausted one could hide. A clock of two values covers before and after an expiry, also backwards.
- *Approval*: the four commands cover the four ways assessment branches (no confirmation,
  ordinary, dangerous, root). Two dialogs are the fewest for a stale post. One use lets the
  grant run out within a task. The configurations are those under which front end, policy, strictness,
  root mode and the server's own approval disagree.
- *Protocol tasks*: with three asks and two permits one is refused and two compete for the lock while
  a third may replace it; as unfinished records cannot be pruned, two retained records are the fewest under
  which two tasks run at once, and three tasks make pruning choose. With one turn loaded per ask the third save is the
first to leave a turn out. The live run has both kinds of tasks, but
  one ask only: that asks of one context wait for each other is in the first run and in the proof.
- *Agent loop*: three calls per response and three in all place the budget within the first
  and within the second response, between and within a batch. Two outcomes are needed for a result that changes,
  two repetitions for a counter that is reset. The kinds of calls are the rejected, the parallel read and the
diagnostic, the operation, the background start and the trace; an unknown tool is left out of the run, as it takes the path of
rejected arguments without their repair counter.
- *Web sessions*: two objects of one name need a deletion or a restart, two tasks are the fewest that can
  follow one another on them, two names are needed for a load beside a session that is in use. All six
  savers of an object are there at once. Terminals and lost connections are in the small run,
  because they touch the dialog and the handlers, not the file.
- *Device*: a lease that passes from a task to its job and is wanted by another process takes two of each;
  a registry of one makes every second start evict or fail.
- *Channels*: the second message may decide, cancel or start over while the first is at work,
  the third confirms; a ledger of three holds them all, so that `AskedOnce` is about every message.
- *Service*: three processes let an old service close while a new one waits and a third is launched by the other
  controller; four operations are a start, a restart and a stop by one and anything by the other.

The proofs of section 5 remove these bounds for the properties they cover.

### Fairness

- `Grants`: `WF(Step(w))`. A worker that runs keeps running; the lock may time out and its holder may
  die, but nothing says that the lock is ever obtained.
- `Approval`: `WF(TaskStep)`. The runtime keeps polling the task. Nobody has to answer a dialog.
- `ProtocolTasks`: weak fairness of the steps of a started write and of a worker, strong fairness of
  those that need a lock others keep taking: `Acquire` the context's, `Leave` and `CancelAll`
  the active map's (tokio's mutexes hand locks out in order). None for clients, death, the beginning of
  a shutdown or dropped submissions. The operation a worker runs
  is assumed to return, which is more than the code gives: an ask ends after a cancellation or at its time limit as `AgentLoop`
  shows, but not while it is in a tool that never returns, and run `foreground` shows a command that does not.
- `AgentLoop`: `WF(Loop)` and strong fairness of a rejection after a cancellation (the
  confirmers wait for both the answer and the signal). None for `Tool`: the runner awaits a tool without racing it against
  the cancellation or the time limit (`runner.rs:782`), a command's pipes are awaited without a limit (`pipeline.rs:80`), and a
  `timeout_secs` of 0 is none. None for the provider, the person or the clock either. So `CancelEnds` and `TimeLimitEnds` except a
  task that stays in a tool for ever, and `TimeLimitEnds` one whose confirmations are never answered.
- `WebSessions`: weak fairness of a task's own steps and of each object's writes, strong fairness of a task's save
  (it waits for the persist lock, which tokio hands out in order) and of the end of its work: the runner is assumed to return
  after a cancellation, with the same exception as above. None for browsers, people, titles, checkpoints or crashes.
- `DeviceShell`: weak fairness of a job's supervisor and of the steps a task takes by itself in a command (signals,
  reaping, the end of the wait). None for the shells: a shell or a descendant may run for ever.
- `Channels`: weak fairness of the adapter's and the worker's own steps and of an owner's action that was begun.
  None for senders, for the provider's deliveries, or for a task that was not cancelled. A cancelled task is assumed to end,
  with the same exception as above.
- `Service` has no liveness property: all its waits are limited polls, which the model ends at any time.

Every property of a passing run has a mutant in `PROJECT.json`: a change of one definition that a
plausible mistake in the code would amount to, under which TLC finds the property
violated. The mutated forms stand in the modules next to what they mutate.

## 5. What is proved

`tlapm <module>` checks the eight proof modules. The theorems hold for every value of the
constants that satisfies the named assumptions: any number of processes, grants, submissions,
permits, records, commands, calls and budgets, sessions, objects, savers and terminals, jobs and registry limits,
controllers and services, channels, senders, messages and ledgers.

| Module | Theorems |
|---|---|
| `GrantsProofs` | `BudgetTypeCorrect`, `BudgetNeverExceeded` (of the abstract budget); `ReadsStayFresh`, `Refinement` (the store implements the budget), `BudgetRespected`, `RevocationIsFinal`, `NoneIsHidden` |
| `ApprovalProofs` | `TypeCorrect`, `NothingElseRuns`, `StrongReview`, `AutomaticIsOrdinary`, `DialogsAreNeeded`, `CancelStopsRelease` |
| `ProtocolTasksProofs` | `TypeCorrect`, `CapacityHolds`, `ContextsAreSerial`, `CompletedTurnsStay`, `WorkIsRecorded`, `AnswersLast`, `RecordsSettle`, `ShutdownDrains` |
| `DeviceShellProofs` | `TypeCorrect`, `DeviceIsExclusive`, `RegistryIsComplete`, `ShutdownIsClean` |
| `ServiceProofs` | `TypeCorrect`, `ServiceIsFound`, `StopStops` |
| `WebSessionsProofs` | `TypeCorrect`, `TasksAreAlone`, `BusyMeansTask`, `BusyMeansAtWork`, `DialogsAreAwaited`, `AnswersStay`, `AnswersStayConnected` |
| `ChannelsProofs` | `TypeCorrect`, `RequestsAreAwaited`, `StopsAreComplete`, `AskedAtMostOnce` |
| `AgentLoopProofs` | `TypeCorrect`, `RoundsPaired`, `StatsAreRecorded`, `CancellationHolds`, `RepetitionsEnd`, `StallsAreAnnounced`, `NothingIsLeftOut` |

Assumptions: each module names its own (`GrantsAssumption`, `ApprovalAssumption`, `TasksAssumption`,
`AgentLoopAssumption`, `DeviceAssumption`, `ServiceAssumption`, `WebAssumption` with `NoneAssumption`, `ChannelsAssumption`).
They say that limits are naturals,
positive where the configuration's validation makes them so, that the set of
submissions is finite, that a task is replanned before it is aborted
(`ReplanAfter < AbortAfter`), and that the special values are none of the ordinary ones.

The inductive invariants and why they are needed:

- *Grant budget*. `WithinBudget` says that uses taken under templates allowing at most `b` never
  number more than `b`. That is not inductive, since a step must know what is left. `Balanced`
  says that once such a use was taken, what is left plus what was spent is at most `b`;
  a charge keeps the sum, and a template with a smaller budget only lowers what is left.
- *Grants*. `ReadsAreFresh` (what the holder of the lock has read is what the file says) turns
  read-decide-write into one step of the budget; every other step maps to a stutter. The abstract
  bound is then inherited through the refinement instead of being proved again. That a revocation is final
  follows from the same freshness. That no usable grant is hidden needs `Tried`: every grant a worker has
  passed, and which every configuration would have matched, is used up or revoked and will stay so.
- *Approval*. `Bound`: the dialog, its answer channel, the newest id and the armed ids belong to one request
  (`DialogBound`); an answer on the channel is for the command shown (`AnswerBound`); what the task
  remembers was taught by a person; the consent in hand is for the command in hand (`ConsentBound`); and
  the need for the dialog persists until it closes (`NeedBound`). The properties are about the end of a
  path of five awaits, each of which the invariant spans. That nothing is released automatically after a
  cancellation needs no invariant: every such step reads the cancel signal itself, which `ReleaseReadsCancel`
  goes through action by action.
- *Protocol tasks*. `Inv` relates where a submission is to what it owns: map entry, lock, channel and permit
  (`Asks`, `Owners`), its stored status (`Records`, `Agrees`) and its context's lock and turns (`Queues`). `Permits` says that
  permits and holders add up to the capacity, by the library's theorems on cardinality.
  Serial asks need the weak reference to be shared by all who hold or await it; that completed turns
  stay needs `Recent`: the file ends as the history of saved turns does and reaches back at least `ContextTurns` of them (so that a
  load misses none that it should have), and what an ask has loaded is exactly the last `ContextTurns`, still when it saves.
- *Agent loop*. Pairing, counters, repetitions and stalls each hold at the end of a round because of something that holds at
  every point within it: the round's results are a prefix of its calls (`Paired`), the
  history of commands agrees with the log of what ran (`Tracked`), the stall counter and the
  warning agree (`Announced`), at most one call started late (`LateOnce`), used calls are recorded or in hand (`Used`), and the
  step counter stays within its limit (`Steps`).

- *Device shell*. `Sound` says what each task and each job may be by itself; `Lease` counts who shares the lock: one
  task, or one job, or for a moment a task and the job it has just started; that two users are one then follows. `Registered`
  needs the library's theorems on cardinality for the eviction. `Closed` is what a process that shuts down still
  has to wait for, starts that raced the shutdown included.
- *Service*. `OneLock` (the running lock) and `OneOperator` (the operation lock) are what the kernel gives. `RecordIsKept`
  follows from the first. `StopIsEffective` needs who still looks after a service that is not on record
  (`Awaited`: a controller that polls, which the operation lock keeps away from a stop) and that the service a
  stop waits for is the only other one (`SeenIsRight`).
- *Web sessions*. A live task keeps its object busy and registered (`Held`), and each object has one (`OneEach`); so neither a
  deletion nor a load can take the name. A save that ends may move its task on, so `Saving` and `OneSave`
  relate every write to the one task that waits for it. A fresh name is fresh because of `Issued`.
  `Worked` adds what the last steps of a task still owe its object and says that a busy session is at work or stranded; `BusyMeansAtWork`
  is the promise without the exception, for a server whose clients keep their connections.
  `Attended` who waits for each open dialog.
  `Kept` is about answers: the file, the registered object and each write under way of a session that was not deleted
  reach the last answer reported as saved. Writes of one object follow one another under its persist lock, except those
  of a handler that was dropped; so `AnswersStayConnected` has no dropped handlers, and `AnswersStay` allows them
  as long as what they still write is not older than the session (`OrphansCurrent`), in all reachable states. Without that hypothesis the property
  is false of the model and of the code (section 6).
- *Channels*. `Sound` says what one channel's adapter, queue, worker, request and job may be together; since only a restart
  touches two channels, each action is a matter of one. `Owned` is what the action under the lock has stopped so far, from which
  the end of a shutdown follows. `Ledger` is about messages: what is queued or was given to the agent, and was not forgotten,
  is in the ledger in memory *and* in the one on disk, and is queued at one place only. Both ledgers are needed because a crash
  goes back to the one on disk while a redelivery meets the one in memory; a failed save may leave them different.

Theorems about properties that no run lists, because a run has better use for its time:
`TypeOK` of each module with proofs, `OnlyOrdinaryIsAutomatic` and `DialogIsNeeded` (`Approval`), `FinalIsFinal`
(`ProtocolTasks`), `StallIsAnnounced` (`AgentLoop`), `TypeOK` and `WithinBudget` of `GrantBudget` itself.

Only model-checked:

- Liveness (`AlwaysAnswered`, `CancelStopsTask`, `TasksSettle`, `ShutdownReturns`, `CancelEnds`, `TimeLimitEnds`, `CancelEndsTask`, `JobsEnd`,
  and the other `ShutdownReturns`): temporal reasoning under fairness needs ENABLED, which the prover does not support.
- The two properties of section 6 that the code violates.

## 6. Where the code and its documents disagree

Both are modelled as the code has them; the run shows the disagreement.

- `web_deleted`. `cancel_message` saves the session after it released the registry lock, and `persist_web_session` does
  not ask whether the session is still registered (`web/routes/sessions.rs:581`, `web/state.rs:279`). When the cancelled
  task ends first and the session, idle again, is deleted, that save writes the deleted file back. `ARCHITECTURE.md:169` says that
  deletion is synchronised with the registry so that no late recovery or task does that.
- `foreground`. Once the shell of a foreground command has exited, `execute` waits for the readers of its pipes without
  a limit (`shell/pipeline.rs:80`): a descendant that keeps them open (`sleep 1000 &`) holds the task and its device lease
  past the time limit and past a cancellation. `docs/en/guide/web.md:21` says of the limit that it "terminates/reaps timed-out processes".
  This is why the liveness properties of the modules above it are stated except for a tool that never returns, or under the
  assumption that operations return (section 4).

Met while modelling, and not shown by a run of their own:

- A cancellation that interrupts a call's wait for its resource, or a parallel batch, returns `AgentRunFailure` without the
  results the round already has (`agent/runner.rs:541`, `464`), which by `runner.rs:28` "retains the current turn's completed tool
  evidence". A cancellation between a response and its first call is reported as the step limit (`runner.rs:854`, `runtime.rs:14`).
- A `cancel_message` handler whose client goes away is dropped while it saves (`web/routes/sessions.rs:581`): its guard of the
  session's persist lock goes, its blocking write goes on (`web/state.rs:283`, `304`), and may rename its older snapshot over
  the one the task has meanwhile saved and reported. With `Disconnects = TRUE` in `WebSessions_restart.cfg` TLC finds `AnswersAreKept` violated so.
- A temporary file left by a crash (`sessions.rs:334`, `create_new`) makes every later save of that session, and a load that
  has to save, fail. A file `.nl2sh-update` left by a crash does the same to updates (`update.rs:343`).
- A process whose executable was replaced by another process gets a path ending in ` (deleted)` from `current_exe`. `ownership` strips
  it (`update.rs:44`), `replace_current_executable` does not (`update.rs:337`): its update reports success and is
  written beside the installed program. A second update of the same Web server is refused (`web/routes/update.rs`).
- A handler of `start_message` that is dropped while it awaits its first save leaves the session busy with no task, until a restart
  (`web/routes/sessions.rs:522`). `Stranded` is that state, which `BusyHasTask` and `CancelEndsTask` except by name.
- `/new` after a failed save keeps the session's grant (`channels/mod.rs:706`); a channel manager's `start` launches outside the lock `actions`.
- The terminal UI's confirmer does not report a cancellation, so that a Ctrl-C that finds the request still in its channel lets the
  dialog open and wait. "Approved once." is printed by the approving terminal though the request has expired meanwhile.
- `pty.rs` does not watch the request's cancel signal. `list_pending` prunes without the lock.
- `service stop` cannot see the child of a `service start` that was interrupted, and `service start` fails, leaving its child, when
  the identity check of an earlier recorded process races with that process's end (`service.rs:328`, `519`-`531`). It gives up after ten
  seconds although the Web server's own shutdown may take longer.

## 7. What is not modelled

Components of the plan that are still to come: conversation context, self-update, the LLM client's retries and negotiation.

Left out for good:

- *Parsing and classifying shell text*, JSON-RPC, SSE, provider wire formats, configuration files: data transformations
  without state. Their results are the inputs of the models.
- *Structured tools* (`src/tools`): device queries and file operations, each with a prepare and an execute that are steps of
  `AgentLoop`; their effects are on the device, outside the program.
- *The rest of the terminal UI, command line, audit and history*: rendering, dispatch and append-only logs that no decision reads.

Within the modelled parts:

- *Approval*: questions (`ask_user`), and the line-oriented `StdioConfirmer`; direct invocation of a tool without an
  agent (the same boundary, once). *Local approvals*: the eight directories several servers share, and their listing.
- *Web sessions*: event streams, export, audit queue, presentation, metrics and settings pages. *Session store*: rename, queries,
  size bounds, redaction.
- *Device and shells*: output paging, captured output and its limits, terminal modes, the choice of `su`, descendants that leave
  their group.
- *Channels*: the QQ gateway and its buttons, `ConfigureQq`, media, outbound deliveries, questions, the control socket.
- *Service*: ports and startup policy, which carry no state between operations; runtime companions.
