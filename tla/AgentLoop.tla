----------------------------- MODULE AgentLoop -----------------------------
(***************************************************************************)
(* One task of the agent (src/agent/runner.rs, run_scoped_with_registry):  *)
(* ask the model, handle the tool calls of its response one after another, *)
(* record the round, and ask again, until the model answers in text or one *)
(* of the budgets of runtime.rs ends the task.  The task may be cancelled, *)
(* and its active time may run out, between any two of its steps.          *)
(*                                                                         *)
(* A tool call is reduced to the path it takes through the loop: its kind, *)
(* or the normalized command of a captured shell call.  What the policy    *)
(* and the person decide about it is Approval.tla's business; here a call  *)
(* may be approved, rejected, edited or fail to be confirmed.  A command's *)
(* result is reduced to its fingerprint.  Continuations differ only in     *)
(* their timers, so their queue is its length.                             *)
(***************************************************************************)
EXTENDS Integers, Sequences

CONSTANTS
  Commands,       \* normalized shell commands the model may ask for
  Outcomes,       \* fingerprints of their results
  Kinds,          \* the other kinds of call the model may make
  MaxCalls,       \* bound on the calls of one response
  AgentSteps,     \* max_agent_steps
  HardSteps,      \* the lower of hard_max_agent_steps and the system ceiling
  MaxToolCalls,   \* max_tool_calls
  SameRetries,    \* max_same_action_retries
  ReplanAfter,    \* replan_after_stalled_steps
  AbortAfter,     \* abort_after_stalled_steps
  QueueLimit,     \* continuations a task may have pending (16 in the code)
  None

AllKinds ==
  { "invalid",    \* arguments that are not valid JSON
    "unknown",    \* no such tool
    "read",       \* a read-only operation declared parallel
    "diagnostic", \* one of these for a platform, with subprocesses of its own
    "operation",  \* any other prepared operation
    "trace",      \* an operation that schedules a continuation
    "background"  \* a shell command started as a background job
  }

Limits == {"Step", "SystemHardStep", "ToolCalls", "ExecutionTime", "Stalled"}

ASSUME AgentLoopAssumption ==
  /\ Kinds \subseteq AllKinds
  /\ Commands \intersect AllKinds = {}
  /\ MaxCalls \in Nat \ {0}
  /\ AgentSteps \in Nat \ {0} /\ HardSteps \in Nat \ {0}
  /\ MaxToolCalls \in Nat \ {0}
  /\ SameRetries \in Nat \ {0}
  /\ ReplanAfter \in Nat \ {0} /\ AbortAfter \in Nat
  /\ ReplanAfter < AbortAfter
  /\ QueueLimit \in Nat
  /\ None \notin Outcomes /\ None \notin Commands /\ None \notin Limits

MaxInvalidRepairs == 2
MaxBatch == 4
Parallel == {"read", "diagnostic"}

EffectiveSteps == IF AgentSteps <= HardSteps THEN AgentSteps ELSE HardSteps

Responses == UNION {[1 .. n -> Commands \union Kinds] : n \in 1 .. MaxCalls}

VARIABLES
  cancel,      \* the task's cancellation signal
  expired,     \* active_time has reached max_task_execution_time_secs
  pc,          \* where the loop is
  step,        \* the loop's counter
  stats,       \* TaskRuntime's counters, and invalid_argument_rounds
  pending,     \* continuations in the background queue
  calls,       \* the response being handled
  at,          \* the call being handled; 0 while a continuation is
  batch,       \* how many calls the parallel batch being run has
  round,       \* round_calls and results as positions in calls, and two flags
  command,     \* the shell command of the call, possibly edited
  history,     \* action_history: the last fingerprint and its repetitions
  stopped,     \* stopped_by
  outcome,     \* how the task ended
  transcript,  \* what was recorded: rounds, their calls, resumed continuations
  log,         \* history: the fingerprints of each command's executions
  late,        \* history: executions started after the cancellation
  warned       \* history: the model was told to replan since it last progressed

vars == <<cancel, expired, pc, step, stats, pending, calls, at, batch, round, command,
          history, stopped, outcome, transcript, log, late, warned>>
counters == <<step, stats, pending>>
response == <<calls, at, batch>>
ghosts == <<log, late, warned>>
\* Everything but pc and outcome.
frame == <<cancel, expired, counters, response, round, command, history, stopped, transcript, ghosts>>

PC == { "step", "drain", "sleep", "resume", "ask", "next", "batch", "prepare", "assess",
        "confirm", "execute", "settle", "ended" }

NoRound == [calls |-> <<>>, results |-> <<>>, progress |-> FALSE, invalid |-> FALSE]

Stats ==
  [used : 0 .. MaxToolCalls, steps : 0 .. EffectiveSteps, stalled : 0 .. AbortAfter,
   replans : Nat, invalid : 0 .. MaxInvalidRepairs + 1]
Round == [calls : Seq(Nat), results : Seq(Nat), progress : BOOLEAN, invalid : BOOLEAN]
Repetition == [last : Outcomes \union {None}, repeats : 0 .. SameRetries]
Transcript == [rounds : Nat, calls : Nat, resumed : Nat]

TypeOK ==
  /\ cancel \in BOOLEAN /\ expired \in BOOLEAN
  /\ pc \in PC
  /\ step \in 0 .. EffectiveSteps
  /\ stats \in Stats
  /\ pending \in 0 .. QueueLimit
  /\ calls \in Seq(Commands \union Kinds)
  /\ at \in Nat /\ batch \in Nat
  /\ round \in Round
  /\ command \in Commands \union {None}
  /\ history \in [Commands -> Repetition]
  /\ stopped \in Limits \union {None}
  /\ outcome \in Limits \union {"running", "answered", "failed", "error"}
  /\ transcript \in Transcript
  /\ log \in [Commands -> Seq(Outcomes)]
  /\ late \in Nat
  /\ warned \in BOOLEAN

Init ==
  /\ cancel = FALSE /\ expired = FALSE
  /\ pc = "step"
  /\ step = 0
  /\ stats = [used |-> 0, steps |-> 0, stalled |-> 0, replans |-> 0, invalid |-> 0]
  /\ pending = 0
  /\ calls = <<>> /\ at = 0 /\ batch = 0
  /\ round = NoRound
  /\ command = None
  /\ history = [c \in Commands |-> [last |-> None, repeats |-> 0]]
  /\ stopped = None
  /\ outcome = "running"
  /\ transcript = [rounds |-> 0, calls |-> 0, resumed |-> 0]
  /\ log = [c \in Commands |-> <<>>]
  /\ late = 0
  /\ warned = FALSE

----------------------------------------------------------------------------
(* Control *)

Goto(label) == pc' = label /\ UNCHANGED outcome

\* The task returns: Ok with a limit or an answer, an AgentRunFailure that
\* carries the transcript ("failed"), or a plain error that does not ("error").
End(how) == pc' = "ended" /\ outcome' = how

Call == IF at = 0 THEN "operation" ELSE calls[at]

\* An execution starts; count it if the task is already cancelled.
StartExecution ==
  /\ Goto("execute")
  /\ late' = IF cancel THEN late + 1 ELSE late

\* push_tool_result for the call in hand (a resumed continuation is a round of
\* its own), and on to the next call.
Result(progress) ==
  IF at = 0
    THEN /\ transcript' = [transcript EXCEPT !.resumed = @ + 1]
         /\ UNCHANGED <<at, round>>
    ELSE /\ round' = [round EXCEPT !.results = Append(@, at), !.progress = @ \/ progress]
         /\ at' = at + 1
         /\ UNCHANGED transcript

Onward == Goto(IF at = 0 THEN "drain" ELSE "next")

----------------------------------------------------------------------------
(* The person and the clock *)

CancelTask ==
  /\ pc # "ended"
  /\ ~ cancel
  /\ cancel' = TRUE
  /\ UNCHANGED <<expired, pc, counters, response, round, command, history, stopped, outcome,
                 transcript, ghosts>>

\* Confirmation waits are not active time.
Expire ==
  /\ pc \notin {"confirm", "ended"}
  /\ ~ expired
  /\ expired' = TRUE
  /\ UNCHANGED <<cancel, pc, counters, response, round, command, history, stopped, outcome,
                 transcript, ghosts>>

----------------------------------------------------------------------------
(* The top of the loop *)

StepLimit == IF AgentSteps > EffectiveSteps THEN "SystemHardStep" ELSE "Step"

StepsUsedUp ==
  /\ pc = "step"
  /\ step = EffectiveSteps
  /\ End(StepLimit)
  /\ UNCHANGED frame

BeginStep ==
  /\ pc = "step"
  /\ step < EffectiveSteps
  /\ step' = step + 1
  /\ IF cancel THEN End("failed")
     ELSE IF expired THEN End("ExecutionTime")
     ELSE Goto("drain")
  /\ UNCHANGED <<cancel, expired, stats, pending, response, round, command, history, stopped,
                 transcript, ghosts>>

\* Mutant: the model is asked with a continuation still waiting for its timer.
QueueDrained_Early ==
  /\ pc = "drain"
  /\ IF expired THEN End("ExecutionTime") ELSE Goto("ask")
  /\ UNCHANGED frame

QueueDrained ==
  /\ pc = "drain"
  /\ pending = 0
  /\ IF expired THEN End("ExecutionTime") ELSE Goto("ask")
  /\ UNCHANGED frame

\* The earliest continuation is taken out; at a limit it is dropped unresumed.
PopContinuation ==
  /\ pc = "drain"
  /\ pending > 0
  /\ pending' = pending - 1
  /\ IF expired THEN End("ExecutionTime")
     ELSE IF stats.used >= MaxToolCalls THEN End("ToolCalls")
     ELSE Goto("sleep")
  /\ UNCHANGED <<cancel, expired, step, stats, response, round, command, history, stopped,
                 transcript, ghosts>>

\* The select: the time limit may be what ends the sleep ...
SleepTimedOut ==
  /\ pc = "sleep"
  /\ expired
  /\ End("ExecutionTime")
  /\ UNCHANGED frame

\* ... or the cancellation or the timer, and then both are looked at again.
Wake ==
  /\ pc = "sleep"
  /\ IF cancel THEN End("failed") /\ UNCHANGED stats
     ELSE IF expired THEN End("ExecutionTime") /\ UNCHANGED stats
     ELSE /\ stats' = [stats EXCEPT !.used = @ + 1]
          /\ Goto("resume")
  /\ UNCHANGED <<cancel, expired, step, pending, response, round, command, history, stopped,
                 transcript, ghosts>>

\* resume_background: no tool, no resources, no time left, a cancellation, or a
\* preparation that fails.
ResumeRefused ==
  /\ pc = "resume"
  /\ Result(FALSE)
  /\ Onward
  /\ UNCHANGED <<cancel, expired, counters, calls, batch, command, history, stopped, ghosts>>

ResumeOperation ==
  /\ pc = "resume"
  /\ ~ cancel /\ ~ expired
  /\ \/ Goto("confirm") /\ UNCHANGED late
     \/ StartExecution
  /\ UNCHANGED <<cancel, expired, counters, response, round, command, history, stopped,
                 transcript, log, warned>>

----------------------------------------------------------------------------
(* The model *)

\* The model asks for at least one tool call.
ModelCalls(asked) ==
  /\ pc = "ask"
  /\ calls' = asked
  /\ at' = 1
  /\ round' = NoRound
  /\ Goto("next")
  /\ UNCHANGED <<cancel, expired, counters, batch, command, history, stopped, transcript, ghosts>>

\* Mutant: the last step is not counted.
ModelAnswers_Uncounted ==
  /\ pc = "ask"
  /\ End("answered")
  /\ UNCHANGED frame

\* The model answers in text, which completes the step.
ModelAnswers ==
  /\ pc = "ask"
  /\ stats' = [stats EXCEPT !.steps = step]
  /\ End("answered")
  /\ UNCHANGED <<cancel, expired, step, pending, response, round, command, history, stopped,
                 transcript, ghosts>>

ModelFails ==
  /\ pc = "ask"
  /\ End("failed")
  /\ UNCHANGED frame

\* Mutant: the request is not raced against the signal.
ModelInterrupted_TimeOnly ==
  /\ pc = "ask"
  /\ expired
  /\ End("ExecutionTime")
  /\ UNCHANGED frame

\* Mutant: the request has no time limit.
ModelInterrupted_CancelOnly ==
  /\ pc = "ask"
  /\ cancel
  /\ End("failed")
  /\ UNCHANGED frame

\* The other branches of the select; with both ready either may be taken.
ModelInterrupted ==
  /\ pc = "ask"
  /\ \/ cancel /\ End("failed")
     \/ expired /\ End("ExecutionTime")
  /\ UNCHANGED frame

----------------------------------------------------------------------------
(* The calls of a response *)

HasCall == pc = "next" /\ at <= Len(calls)

\* 'tool_calls is left: no more calls, a cancellation, or the call budget.
LeaveCalls ==
  /\ pc = "next"
  /\ at > Len(calls) \/ cancel \/ stats.used >= MaxToolCalls
  /\ stopped' = IF HasCall /\ ~ cancel THEN "ToolCalls" ELSE stopped
  /\ Goto("settle")
  /\ UNCHANGED <<cancel, expired, counters, response, round, command, history, transcript, ghosts>>

\* Mutant: the signal is not looked at between two calls.
CanStartCall_IgnoresCancel == HasCall /\ stats.used < MaxToolCalls

CanStartCall == HasCall /\ ~ cancel /\ stats.used < MaxToolCalls

\* parallel_batch_end: the declared reads from here on, as many as the batch
\* limit and the call budget allow.
BatchSizes(capacity) ==
  {n \in 0 .. capacity : \A i \in at .. at + n - 1 : i <= Len(calls) /\ calls[i] \in Parallel}

Largest(sizes) == CHOOSE n \in sizes : \A m \in sizes : m <= n

BatchSize ==
  LET left == MaxToolCalls - stats.used
  IN  Largest(BatchSizes(IF left < MaxBatch THEN left ELSE MaxBatch))

\* The n positions from at on.
Positions(n) == [i \in 1 .. n |-> at + i - 1]

StartBatch ==
  /\ CanStartCall
  /\ BatchSize > 1
  /\ batch' = BatchSize
  /\ stats' = [stats EXCEPT !.used = @ + BatchSize]
  /\ round' = [round EXCEPT !.calls = @ \o Positions(BatchSize)]
  /\ Goto("batch")
  /\ late' = IF cancel THEN late + 1 ELSE late
  /\ UNCHANGED <<cancel, expired, step, pending, calls, at, command, history, stopped,
                 transcript, log, warned>>

\* needs_reaping: such a batch is awaited whatever happens, so that its executors
\* can end their subprocesses.
NeedsReaping == \E i \in at .. at + batch - 1 : calls[i] = "diagnostic"

\* Every read of the batch has returned.
BatchDone(progress) ==
  /\ pc = "batch"
  /\ round' = [round EXCEPT !.results = @ \o Positions(batch), !.progress = @ \/ progress]
  /\ at' = at + batch
  /\ IF expired THEN stopped' = "ExecutionTime" /\ Goto("settle")
                ELSE UNCHANGED stopped /\ Goto("next")
  /\ UNCHANGED <<cancel, expired, counters, calls, batch, command, history, transcript, ghosts>>

\* Mutant: the calls of an abandoned batch get no results.
BatchTimedOut_Unanswered ==
  /\ pc = "batch" /\ ~ NeedsReaping
  /\ expired
  /\ at' = at + batch
  /\ stopped' = "ExecutionTime"
  /\ Goto("settle")
  /\ UNCHANGED <<cancel, expired, counters, calls, batch, round, command, history, transcript,
                 ghosts>>

\* The time limit drops the batch.
BatchTimedOut ==
  /\ pc = "batch" /\ ~ NeedsReaping
  /\ expired
  /\ round' = [round EXCEPT !.results = @ \o Positions(batch)]
  /\ at' = at + batch
  /\ stopped' = "ExecutionTime"
  /\ Goto("settle")
  /\ UNCHANGED <<cancel, expired, counters, calls, batch, command, history, transcript, ghosts>>

BatchCancelled ==
  /\ pc = "batch" /\ ~ NeedsReaping
  /\ cancel
  /\ End("failed")
  /\ UNCHANGED frame

\* A single call is admitted; rejected arguments and unknown tools are answered
\* at once.
StartCall ==
  /\ CanStartCall
  /\ BatchSize <= 1
  /\ stats' = [stats EXCEPT !.used = @ + 1]
  /\ IF Call \in {"invalid", "unknown"}
       THEN /\ round' = [round EXCEPT !.calls = Append(@, at), !.results = Append(@, at),
                                      !.invalid = @ \/ Call = "invalid"]
            /\ at' = at + 1
            /\ Goto("next")
       ELSE /\ round' = [round EXCEPT !.calls = Append(@, at)]
            /\ UNCHANGED at
            /\ Goto("prepare")
  /\ UNCHANGED <<cancel, expired, step, pending, calls, batch, command, history, stopped,
                 transcript, ghosts>>

----------------------------------------------------------------------------
(* One call: resources, preparation, confirmation, execution *)

\* acquire_resources gives up on a cancellation, and with it on the round.
PrepareCancelled ==
  /\ pc = "prepare"
  /\ cancel
  /\ End("failed")
  /\ UNCHANGED frame

\* The resource is not to be had, or the preparation fails.
PrepareFails ==
  /\ pc = "prepare"
  /\ Result(FALSE)
  /\ Onward
  /\ UNCHANGED <<cancel, expired, counters, calls, batch, command, history, stopped, ghosts>>

\* A structured operation: its assessment asks for a confirmation or not.
PrepareOperation ==
  /\ pc = "prepare"
  /\ Call \in Parallel \union {"operation", "trace"}
  /\ \/ Goto("confirm") /\ UNCHANGED late
     \/ StartExecution
  /\ UNCHANGED <<cancel, expired, counters, response, round, command, history, stopped,
                 transcript, log, warned>>

\* A shell call.
PrepareShell ==
  /\ pc = "prepare"
  /\ Call \in Commands \union {"background"}
  /\ command' \in IF Call \in Commands THEN {Call} ELSE Commands
  /\ Goto("assess")
  /\ UNCHANGED <<cancel, expired, counters, response, round, history, stopped, transcript, ghosts>>

AskToConfirm ==
  /\ pc = "assess"
  /\ Goto("confirm")
  /\ UNCHANGED frame

\* Mutant: one repetition too many.
IsBlocked_TooLate == history[command].repeats > SameRetries

\* REPEATED_ACTION_BLOCKED.
IsBlocked == history[command].repeats >= SameRetries

\* After the confirmation of a shell command, or without one: the history, the
\* remaining time, PrivilegeBroker::authorize, and the execution.
AfterConfirmation ==
  \/ /\ IsBlocked
     /\ Result(FALSE)
     /\ Onward
     /\ UNCHANGED <<stopped, late>>
  \/ /\ ~ IsBlocked
     /\ expired
     /\ Result(FALSE)
     /\ stopped' = "ExecutionTime"
     /\ Goto("settle")
     /\ UNCHANGED late
  \/ /\ ~ IsBlocked
     /\ ~ expired
     /\ \/ StartExecution
        \/ End("error") /\ UNCHANGED late
     /\ UNCHANGED <<at, round, stopped, transcript>>

NoConfirmation ==
  /\ pc = "assess"
  /\ AfterConfirmation
  /\ UNCHANGED <<cancel, expired, counters, calls, batch, command, history, log, warned>>

IsShell == Call \in Commands \union {"background"}

Approve ==
  /\ pc = "confirm"
  /\ IF IsShell
       THEN AfterConfirmation
       ELSE StartExecution /\ UNCHANGED <<at, round, stopped, transcript>>
  /\ UNCHANGED <<cancel, expired, counters, calls, batch, command, history, log, warned>>

\* Rejected; or, for an operation, edited or not answered.  A cancellation of
\* the confirmer is a rejection too.
Reject ==
  /\ pc = "confirm"
  /\ Result(FALSE)
  /\ Onward
  /\ UNCHANGED <<cancel, expired, counters, calls, batch, command, history, stopped, ghosts>>

\* An edited shell command is assessed again; so is one approved for the run
\* that may not be remembered.
Edit(edited) ==
  /\ pc = "confirm"
  /\ IsShell
  /\ command' = edited
  /\ Goto("assess")
  /\ UNCHANGED <<cancel, expired, counters, response, round, history, stopped, transcript, ghosts>>

\* confirm_assessed(..)? of a shell command: the whole task is given up.
ConfirmFails ==
  /\ pc = "confirm"
  /\ IsShell
  /\ End("error")
  /\ UNCHANGED frame

\* An operation returns.  One that started a trace schedules its analysis if
\* the queue has room.  The time is not looked at before the next call.
OperationDone(ok) ==
  /\ pc = "execute"
  /\ ~ IsShell
  /\ Result(ok)
  /\ Onward
  /\ pending' = IF ok /\ Call = "trace" /\ pending < QueueLimit THEN pending + 1 ELSE pending
  /\ UNCHANGED <<cancel, expired, step, stats, calls, batch, command, history, stopped, ghosts>>

\* The background job was spawned, or not.
BackgroundStarted(ok) ==
  /\ pc = "execute"
  /\ Call = "background"
  /\ Result(ok)
  /\ Onward
  /\ UNCHANGED <<cancel, expired, counters, calls, batch, command, history, stopped, ghosts>>

\* The time is looked at after each captured command.
ThenTime ==
  IF expired THEN stopped' = "ExecutionTime" /\ Goto("settle")
             ELSE UNCHANGED stopped /\ Goto("next")

\* How often the command has now given this result in a row.
Repeats(result) ==
  IF history[command].last = result THEN history[command].repeats + 1 ELSE 1

CommandDone(result) ==
  /\ pc = "execute"
  /\ Call \in Commands
  /\ history' = [history EXCEPT ![command] = [last |-> result, repeats |-> Repeats(result)]]
  /\ log' = [log EXCEPT ![command] = Append(@, result)]
  /\ Result(Repeats(result) = 1)
  /\ ThenTime
  /\ UNCHANGED <<cancel, expired, counters, calls, batch, command, late, warned>>

\* The executor fails: no fingerprint, and it counts as progress.
CommandFails ==
  /\ pc = "execute"
  /\ Call \in Commands
  /\ Result(TRUE)
  /\ ThenTime
  /\ UNCHANGED <<cancel, expired, counters, calls, batch, command, history, ghosts>>

\* The command is interrupted, by the cancellation or by a signal of its own.
\* It has a fingerprint like any other result.
CommandInterrupted(result) ==
  /\ pc = "execute"
  /\ Call \in Commands
  /\ history' = [history EXCEPT ![command] = [last |-> result, repeats |-> Repeats(result)]]
  /\ log' = [log EXCEPT ![command] = Append(@, result)]
  /\ IF cancel
       THEN Result(Repeats(result) = 1) /\ Goto("settle")
       ELSE End("error") /\ UNCHANGED <<at, round, transcript>>
  /\ UNCHANGED <<cancel, expired, counters, calls, batch, command, stopped, late, warned>>

----------------------------------------------------------------------------
(* The end of a round *)

Limit == IF stopped = None THEN StepLimit ELSE stopped

EmptyRound ==
  /\ pc = "settle"
  /\ round.calls = <<>>
  /\ End(Limit)
  /\ UNCHANGED frame

InvalidRounds == IF round.invalid THEN stats.invalid + 1 ELSE 0
Stalled == IF round.progress THEN 0 ELSE stats.stalled + 1

MustReplan == ~ round.progress /\ Stalled = ReplanAfter

\* The counters of a round that neither fails nor was stopped.
CountRound ==
  /\ stats' = [stats EXCEPT !.steps = step, !.invalid = InvalidRounds, !.stalled = Stalled,
                            !.replans = IF MustReplan THEN @ + 1 ELSE @]
  /\ warned' = (~ round.progress /\ (warned \/ MustReplan))
  /\ IF Stalled >= AbortAfter /\ ~ round.progress
       THEN stopped' = "Stalled" /\ End("Stalled")
       ELSE UNCHANGED stopped /\ Goto("step")

RecordRound ==
  /\ pc = "settle"
  /\ round.calls # <<>>
  /\ transcript' = [transcript EXCEPT !.rounds = @ + 1, !.calls = @ + Len(round.calls)]
  /\ round' = NoRound
  /\ calls' = <<>> /\ at' = 0 /\ command' = None
  /\ IF InvalidRounds > MaxInvalidRepairs \/ stopped # None
       THEN /\ stats' = [stats EXCEPT !.steps = step, !.invalid = InvalidRounds]
            /\ End(IF InvalidRounds > MaxInvalidRepairs THEN "failed" ELSE stopped)
            /\ UNCHANGED <<stopped, warned>>
       ELSE CountRound
  /\ UNCHANGED <<cancel, expired, step, pending, batch, history, log, late>>

----------------------------------------------------------------------------
\* What the loop does by itself, and the branches of its selects.
Loop ==
  \/ StepsUsedUp \/ BeginStep
  \/ QueueDrained \/ PopContinuation \/ SleepTimedOut \/ Wake
  \/ ModelInterrupted
  \/ LeaveCalls \/ StartBatch \/ StartCall
  \/ BatchTimedOut \/ BatchCancelled
  \/ AskToConfirm \/ NoConfirmation
  \/ EmptyRound \/ RecordRound

\* A tool's preparation or execution returns to the loop.
Tool ==
  \/ ResumeRefused \/ ResumeOperation
  \/ \E progress \in BOOLEAN : BatchDone(progress)
  \/ PrepareCancelled \/ PrepareFails \/ PrepareOperation \/ PrepareShell
  \/ \E ok \in BOOLEAN : OperationDone(ok) \/ BackgroundStarted(ok)
  \/ CommandFails
  \/ \E result \in Outcomes : CommandDone(result) \/ CommandInterrupted(result)

Provider == ModelAnswers \/ ModelFails \/ \E asked \in Responses : ModelCalls(asked)

Person ==
  \/ CancelTask
  \/ Approve \/ Reject \/ ConfirmFails
  \/ \E edited \in Commands : Edit(edited)

Next == Loop \/ Tool \/ Provider \/ Person \/ Expire

Spec == Init /\ [][Next]_vars

\* The loop runs on, and races what it races.  A tool may never return: its
\* preparation and its execution are awaited without a look at the signal or the
\* clock, and a command whose descendants hold its pipes is awaited for ever.  The
\* time limit may be far away, the provider may never respond and the person may
\* never decide, or edit for ever; but a confirmer answers the requests of a
\* cancelled task with a rejection, an edit in flight being overtaken by the next.
Fairness ==
  /\ WF_vars(Loop)
  /\ SF_vars(cancel /\ Reject)
FairSpec == Spec /\ Fairness

----------------------------------------------------------------------------
(* Properties *)

\* Providers refuse a tool round whose calls and results do not match: when a
\* round is recorded, by whatever exit the call loop was left, its calls are a
\* prefix of the response and each has exactly one result, in the same order.
RoundsArePaired ==
  pc = "settle" =>
    /\ round.results = round.calls
    /\ Len(round.calls) <= Len(calls)
    /\ \A i \in 1 .. Len(round.calls) : round.calls[i] = i

\* The counters returned with a task (TaskStats) are those of its transcript:
\* every admitted call and resumed continuation is recorded once, and so is
\* every step, the final answer included.
StatsMatchTranscript ==
  outcome \in Limits \union {"answered"} =>
    /\ stats.used = transcript.calls + transcript.resumed
    /\ stats.steps = transcript.rounds + (IF outcome = "answered" THEN 1 ELSE 0)

\* After a cancellation at most the call in hand still starts; nothing that
\* follows it does (the checks between calls, steps and continuations).
CancelStops == late <= 1

\* No command runs more than max_same_action_retries times in a row with the
\* same result, over all rounds of the task (docs/en/changelog.md:334).
RepeatsAreBounded ==
  \A c \in Commands : \A i \in 1 .. Len(log[c]) - SameRetries :
    \E j \in i + 1 .. i + SameRetries : log[c][j] # log[c][i]

\* A task is only given up as stalled after the model was told to replan, in
\* the same stretch of rounds without progress.
StallIsAnnounced == outcome = "Stalled" => warned

\* The model is only asked when everything it caused is in the transcript: each
\* admitted call, and each continuation those calls scheduled, resumed and
\* recorded.
ModelSeesEverything ==
  pc = "ask" =>
    /\ pending = 0
    /\ stats.used = transcript.calls + transcript.resumed

\* The loop is in a tool, and neither the signal nor the clock gets it out: a
\* continuation or a call in preparation, an operation or a command under way, or
\* a batch that has to be reaped.
InTool == pc \in {"resume", "prepare", "execute"} \/ (pc = "batch" /\ NeedsReaping)

\* A cancelled task returns, however far its time limit is, whatever the provider
\* and the person do, unless the tool in hand never returns: no wait of the loop's
\* own, no later call and no continuation holds it up.
CancelEnds == <>cancel => <>(pc = "ended") \/ <>[]InTool

\* Once its active time is over a task returns, whatever the provider does, unless
\* its confirmations go unanswered or the tool in hand never returns.
TimeLimitEnds == <>expired => []<>(pc = "confirm") \/ <>[]InTool \/ <>(pc = "ended")
=============================================================================
