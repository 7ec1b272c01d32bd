------------------------------ MODULE Approval ------------------------------
(***************************************************************************)
(* The approval boundary between a tool call and its execution, for the    *)
(* tasks of one session: the shell loop of the agent runner, the           *)
(* structured-operation boundary (tools/runtime.rs), confirm_assessed, the *)
(* confirmer of the front end and the privilege broker.  The front end is  *)
(* a Web session, the terminal UI, or a protocol server, whose requests a  *)
(* person answers in another terminal (protocol approve).                  *)
(*                                                                         *)
(* The task, the owner (whose dialogs may be stale) and the cancellation   *)
(* interleave at every await of the code.  The grants a command matches    *)
(* are the counted `uses` of one grant: Grants and GrantBudget show why    *)
(* that bookkeeping is atomic.  A command stands for its effects, a dialog *)
(* shows the command.                                                      *)
(***************************************************************************)
EXTENDS Naturals, Sequences

CONSTANTS
  Commands,       \* shell commands and prepared operations
  Effects,        \* what shell analysis, the rules or the tool declare of each
  Granted,        \* the commands in the scope of the configured grant
  Configs,        \* the configurations the session may start under
  FullAccess,     \* the process was started with full access
  MaxUses,        \* uses of the grant
  MaxRequests,    \* bound on the dialogs opened
  None,           \* no command, dialog, override or answer
  Open            \* an answer channel nothing was sent on

ReadOnly == 0
Mutating == 1
Dangerous == 2
Critical == 3

Policies == {"always", "risk_only", "never", "full_access"}
Kinds == {"shell", "background", "tool"}
Effect == [risk : ReadOnly .. Critical, root : BOOLEAN, elevates : BOOLEAN]
Fronts == {"web", "protocol", "tui"}
Config == [policy : Policies, strict : BOOLEAN, mode : {"root", "normal", "auto"},
           front : Fronts, auto : BOOLEAN]
Call == [kind : Kinds, command : Commands]
Dialog == [id : 1 .. MaxRequests, armed : BOOLEAN]
Answer == [choice : {"approve", "remember", "run", "reject", "set_policy", "edit"},
           to : Commands \union Policies \union {None}, id : 0 .. MaxRequests]
Authorities ==
  {"nobody", "person", "task", "run", "auto", "grant", "session", "full_access"}
Consent == [by : Authorities, shown : Commands \union {None}, twice : BOOLEAN]

ASSUME ApprovalAssumption ==
  /\ Effects \in [Commands -> Effect]
  /\ Granted \subseteq Commands
  /\ Configs \subseteq Config
  /\ FullAccess \in BOOLEAN
  /\ MaxUses \in Nat /\ MaxRequests \in Nat
  /\ None \notin Commands \union Policies
  /\ None \notin Call /\ None \notin Dialog /\ None \notin Answer
  /\ Open \notin Answer /\ Open # None

VARIABLES
  config,      \* the task's configuration snapshot
  saved,       \* the confirmation policy in the configuration file
  override,    \* the session's live policy (SessionConfirmationPolicy)
  cancelled,   \* the session's cancel signal
  runWide,     \* run_wide_approval of the terminal UI
  pc,          \* where the task is
  call,        \* the call it is processing
  approved,    \* approved_command
  remembered,  \* task_approvals
  uses,        \* uses left of the grant
  pending,     \* the dialog the server accepts an answer for
  reply,       \* the answer channel: None, Open, or the answer sent
  asked,       \* history: the command shown by each request id
  armed,       \* history: the request ids that were armed
  taught,      \* history: commands a person allowed for this whole task
  consent      \* history: what released the call

task == <<config, remembered, taught>>
owner == <<saved, override, cancelled, runWide>>
dialog == <<pending, reply, asked, armed>>
current == <<call, approved, consent>>
vars == <<task, owner, dialog, current, pc, uses>>

PC == {"idle", "model", "assess", "decide", "release", "released", "ask", "install",
       "waiting", "authorize", "execute"}
Nobody == [by |-> "nobody", shown |-> None, twice |-> FALSE]

TypeOK ==
  /\ config \in Config
  /\ saved \in Policies
  /\ override \in Policies \union {None}
  /\ cancelled \in BOOLEAN
  /\ runWide \in BOOLEAN
  /\ pc \in PC
  /\ call \in Call \union {None}
  /\ call = None <=> pc \in {"idle", "model"}
  /\ approved \in Commands \union {None}
  /\ remembered \subseteq Commands
  /\ uses \in 0 .. MaxUses
  /\ pending \in Dialog \union {None}
  /\ reply \in Answer \union {None, Open}
  /\ asked \in Seq(Commands) /\ Len(asked) <= MaxRequests
  /\ armed \subseteq 1 .. MaxRequests
  /\ taught \subseteq Commands
  /\ consent \in Consent

Init ==
  /\ config \in Configs
  /\ saved = config.policy
  /\ override = None
  /\ cancelled = FALSE
  /\ runWide = FALSE
  /\ pc = "idle"
  /\ call = None
  /\ approved = None
  /\ remembered = {}
  /\ uses = MaxUses
  /\ pending = None
  /\ reply = None
  /\ asked = <<>>
  /\ armed = {}
  /\ taught = {}
  /\ consent = Nobody

----------------------------------------------------------------------------
(* Assessment: assess for shell source, ToolMetadata::assessment_for for a  *)
(* prepared operation, which never asks for root or for reads.              *)

Risk(x) == Effects[x.command].risk
IsShell(x) == x.kind # "tool"

RequiresRoot(x) ==
  /\ IsShell(x)
  /\ \/ config.mode = "root"
     \/ config.mode = "auto" /\ Effects[x.command].root

RequiresDouble(x) == Risk(x) >= Dangerous

RequiresConfirmation(x) ==
  \/ Risk(x) >= Mutating
  \/ RequiresRoot(x)
  \/ IsShell(x) /\ (config.strict \/ config.policy = "always")

\* can_remember_approval; its negation is also GrantRequest::blocked.
Ordinary(x) == ~ RequiresRoot(x) /\ ~ RequiresDouble(x)

LivePolicy == IF override = None THEN config.policy ELSE override

\* confirmation_required: a shell command also obeys the live policy.
ConfirmationRequired(x) ==
  \/ RequiresConfirmation(x)
  \/ IsShell(x) /\ LivePolicy = "always"

----------------------------------------------------------------------------
(* The task *)

\* The policy a new task reads: the terminal UI keeps its configuration, a
\* protocol server does not accept `never`.
LoadedPolicy ==
  CASE config.front = "web" -> saved
    [] config.front = "tui" -> config.policy
    [] config.front = "protocol" -> IF saved = "never" THEN "risk_only" ELSE saved

\* start_message and its like: the cancel signal and the memory are new.
StartTask ==
  /\ pc = "idle"
  /\ pc' = "model"
  /\ cancelled' = FALSE
  /\ config' = [config EXCEPT !.policy = LoadedPolicy]
  /\ remembered' = {}
  /\ taught' = {}
  /\ UNCHANGED <<saved, override, runWide, dialog, current, uses>>

\* approval_cancelled: the terminal UI's confirmer does not implement it.
ApprovalCancelled == cancelled /\ config.front # "tui"

\* The model requests a call; the cancel signal is read before each.
BeginCall(x) ==
  /\ pc = "model"
  /\ ~ cancelled
  /\ Len(asked) < MaxRequests
  /\ call' = x
  /\ pc' = "assess"
  /\ UNCHANGED <<task, owner, dialog, approved, consent, uses>>

\* The call is over, refused, failed or executed.
Leave(label) ==
  /\ pc' = label
  /\ call' = None
  /\ approved' = None
  /\ consent' = Nobody

\* The model is done, or the runner stops because of a limit or a cancellation.
EndTask ==
  /\ pc = "model"
  /\ Leave("idle")
  /\ UNCHANGED <<task, owner, dialog, uses>>

Goto(label) == pc' = label /\ UNCHANGED current

\* The decision releases the call: the command becomes approved_command.
Proceed(who, shown, twice) ==
  /\ pc' = IF IsShell(call) THEN "authorize" ELSE "execute"
  /\ approved' = call.command
  /\ consent' = [by |-> who, shown |-> shown, twice |-> twice]
  /\ UNCHANGED call

\* A command and its replacement after an edit are assessed alike.  Only a
\* foreground command may be released by what the task remembers.
Assess ==
  /\ pc = "assess"
  /\ \/ ~ ConfirmationRequired(call) /\ Goto(IF IsShell(call) THEN "authorize" ELSE "execute")
     \/ /\ ConfirmationRequired(call)
        /\ IF call.kind = "shell" /\ Ordinary(call) /\ call.command \in remembered
             THEN Proceed("task", None, FALSE)
             ELSE Goto("decide")
  /\ UNCHANGED <<task, owner, dialog, uses>>

\* confirm_assessed up to its first await.
Decide ==
  /\ pc = "decide"
  /\ LET full    == FullAccess \/ LivePolicy = "full_access"
         session == /\ override # None /\ override # "always"
                    /\ ~ config.strict
                    /\ Risk(call) = ReadOnly /\ Ordinary(call)
     IN  IF ApprovalCancelled THEN Leave("model")
         ELSE IF full THEN Proceed("full_access", None, FALSE)
         ELSE IF session THEN Proceed("session", None, FALSE)
         ELSE Goto("release")
  /\ UNCHANGED <<task, owner, dialog, uses>>

\* An error of a confirmation fails the task, except inside a structured tool,
\* where it is the result of the call.
ConfirmationFails == Leave(IF IsShell(call) THEN "idle" ELSE "model")

\* try_release: a matching grant is charged, or there is none, or it fails.
TryRelease ==
  /\ pc = "release"
  /\ LET matches == call.command \in Granted /\ Ordinary(call) /\ uses > 0
     IN  \/ matches /\ uses' = uses - 1 /\ Goto("released")
         \/ ~ matches /\ UNCHANGED uses /\ Goto("ask")
         \/ ConfirmationFails /\ UNCHANGED uses
  /\ UNCHANGED <<task, owner, dialog>>

\* Mutant: the cancel signal is not read again after the grant store's await.
Released_NotRechecked ==
  /\ pc = "released"
  /\ Proceed("grant", None, FALSE)
  /\ UNCHANGED <<task, owner, dialog, uses>>

\* The cancel signal is read again after the grant store's await; the use that
\* was charged stays charged.
Released ==
  /\ pc = "released"
  /\ IF ApprovalCancelled THEN Leave("model") ELSE Proceed("grant", None, FALSE)
  /\ UNCHANGED <<task, owner, dialog, uses>>

\* protocol_auto_approve: the server was told to approve everything.
AutoApproved == config.front = "protocol" /\ config.auto

\* The terminal UI permits the ordinary operations of the whole run.
RunAllowed == runWide /\ Ordinary(call)

\* The confirmers before they ask; WebConfirmer and ProtocolConfirmer read the
\* cancel signal once more.
Ask ==
  /\ pc = "ask"
  /\ IF ApprovalCancelled THEN Leave("model")
     ELSE IF AutoApproved THEN Proceed("auto", None, FALSE)
     ELSE IF RunAllowed THEN Proceed("run", None, FALSE)
     ELSE Goto("install")
  /\ UNCHANGED <<task, owner, dialog, uses>>

\* Mutant: the new dialog starts with the review of the one before it done.
Install_KeepsArmed ==
  /\ pc = "install"
  /\ Len(asked) < MaxRequests
  /\ pending' = [id |-> Len(asked) + 1, armed |-> armed # {}]
  /\ reply' = Open
  /\ asked' = Append(asked, call.command)
  /\ Goto("waiting")
  /\ UNCHANGED <<task, owner, armed, uses>>

\* The request is shown under a new id: the Web dialog, the terminal UI taking
\* it from its channel, the private directory of a protocol request.
Install ==
  /\ pc = "install"
  /\ Len(asked) < MaxRequests
  /\ pending' = [id |-> Len(asked) + 1, armed |-> FALSE]
  /\ reply' = Open
  /\ asked' = Append(asked, call.command)
  /\ Goto("waiting")
  /\ UNCHANGED <<task, owner, armed, uses>>

\* A protocol request is not published: the lock is busy for three seconds,
\* eight are pending, or the directory or the socket cannot be made.
InstallFails ==
  /\ pc = "install"
  /\ config.front = "protocol"
  /\ ConfirmationFails
  /\ UNCHANGED <<task, owner, dialog, uses>>

\* The wait for the lock is given up when the task is cancelled.
InstallCancelled ==
  /\ pc = "install"
  /\ config.front = "protocol" /\ cancelled
  /\ Leave("model")
  /\ UNCHANGED <<task, owner, dialog, uses>>

\* The replacement of a shell command goes through assessment again; a
\* prepared operation cannot be edited.
Edited(command) ==
  IF IsShell(call)
    THEN /\ call' = [call EXCEPT !.command = command]
         /\ pc' = "assess"
         /\ UNCHANGED <<approved, consent>>
    ELSE Leave("model")

\* The dialog's answer arrives; ProtocolConfirmer looks at the cancellation first.
TakeAnswer ==
  /\ pc = "waiting"
  /\ reply \in Answer
  /\ config.front = "protocol" => ~ cancelled
  /\ CASE reply.choice \in {"approve", "remember", "run"} ->
            Proceed("person", asked[reply.id], reply.id \in armed)
       [] reply.choice = "edit" -> Edited(reply.to)
       [] reply.choice = "reject" -> Leave("model")
       [] reply.choice = "set_policy" ->
            IF override = reply.to THEN Goto("decide") ELSE ConfirmationFails
  /\ IF reply.choice = "remember" /\ IsShell(call) /\ Ordinary(call)
       THEN /\ remembered' = remembered \union {call.command}
            /\ taught' = taught \union {asked[reply.id]}
       ELSE UNCHANGED <<remembered, taught>>
  /\ runWide' = (runWide \/ (reply.choice = "run" /\ Ordinary(call)))
  /\ reply' = None
  /\ UNCHANGED <<config, saved, override, cancelled, pending, asked, armed, uses>>

\* Mutant: the wait is only woken by the answer channel.
TakeCancel_Never ==
  /\ pc = "waiting" /\ reply = None
  /\ Leave("model")
  /\ UNCHANGED <<task, owner, dialog, uses>>

\* The wait is woken by the cancel signal, also when an answer is there; the
\* terminal UI's is not.
TakeCancel ==
  /\ pc = "waiting"
  /\ ApprovalCancelled
  /\ pending' = None
  /\ reply' = None
  /\ Leave("model")
  /\ UNCHANGED <<task, owner, asked, armed, uses>>

\* The 120 seconds of a protocol request are over: it is rejected, and with it
\* an answer whose connection was not accepted yet.
Expire ==
  /\ pc = "waiting"
  /\ config.front = "protocol"
  /\ pending' = None
  /\ reply' = None
  /\ Leave("model")
  /\ UNCHANGED <<task, owner, asked, armed, uses>>

\* PrivilegeBroker::authorize; the assessment is bound to the configuration
\* snapshot, so it is the same when it is made again.
Authorize ==
  /\ pc = "authorize"
  /\ IF \/ config.mode = "normal" /\ Effects[call.command].elevates
        \/ RequiresConfirmation(call) /\ approved # call.command
       THEN Leave("idle")
       ELSE Goto("execute")
  /\ UNCHANGED <<task, owner, dialog, uses>>

Execute ==
  /\ pc = "execute"
  /\ Leave("model")
  /\ UNCHANGED <<task, owner, dialog, uses>>

----------------------------------------------------------------------------
(* The owner: a browser whose post names the request id of the dialog it was *)
(* made in, which may be one that is over; the terminal UI's keyboard; or     *)
(* `protocol approve` with the id of a request.                               *)

\* Mutant: a post is taken for whatever request is pending.
IsPending_Any(id) == pending # None

\* The request id is compared under the session lock.
IsPending(id) == pending # None /\ pending.id = id

\* A strong confirmation takes two steps: a separate post, the choice before
\* YES is typed, or the `yes` before the phrase with the id.
Arm(id) ==
  /\ IsPending(id)
  /\ RequiresDouble(call)
  /\ pending' = [pending EXCEPT !.armed = TRUE]
  /\ armed' = armed \union {id}
  /\ UNCHANGED <<task, owner, current, pc, uses, reply, asked>>

\* The terminal UI's policy page leads back to the first choice.
Disarm(id) ==
  /\ config.front = "tui"
  /\ IsPending(id)
  /\ pending.armed
  /\ pending' = [pending EXCEPT !.armed = FALSE]
  /\ UNCHANGED <<task, owner, current, pc, uses, reply, asked, armed>>

\* What a person may answer: in the browser, ...
WebChoices == {"approve", "remember", "reject", "edit"}

\* ... with the keys of the terminal UI's dialog, ...
TuiChoices == WebChoices \union {"run"}

\* ... and to `protocol approve`, where whatever is not the approval rejects.
LocalChoices == {"approve", "reject"}

Choices ==
  CASE config.front = "web" -> WebChoices
    [] config.front = "tui" -> TuiChoices
    [] config.front = "protocol" -> LocalChoices

Send(answer) ==
  /\ pending' = None
  /\ reply' = answer

\* An answer other than a policy: the cancel signal is not read.
Decision(id, choice, to) ==
  /\ IsPending(id)
  /\ reply = Open
  /\ choice \in Choices
  /\ choice = "approve" /\ RequiresDouble(call) => pending.armed
  /\ choice \in {"remember", "run"} => Ordinary(call)
  /\ choice = "edit" => Len(asked) < MaxRequests
  /\ Send([choice |-> choice, to |-> to, id |-> id])
  /\ UNCHANGED <<task, owner, current, pc, uses, asked, armed>>

\* The file is saved and the live policy set, under the session lock or by the
\* only event loop, then the waiting confirmation is told to decide again.
SetPolicy(id, policy) ==
  /\ config.front # "protocol"
  /\ IsPending(id)
  /\ reply = Open
  /\ ~ ApprovalCancelled
  /\ Len(asked) < MaxRequests
  /\ saved' = policy
  /\ override' = policy
  /\ Send([choice |-> "set_policy", to |-> policy, id |-> id])
  /\ UNCHANGED <<task, current, pc, uses, cancelled, runWide, asked, armed>>

\* /permission allow and ask, typed between tasks; without effect while every
\* operation is allowed anyway.
Permission(allow) ==
  /\ config.front = "tui"
  /\ pc = "idle"
  /\ ~ FullAccess /\ LivePolicy # "full_access"
  /\ runWide' = allow
  /\ UNCHANGED <<task, saved, override, cancelled, dialog, current, pc, uses>>

\* The cancel button, Ctrl-C and Ctrl-Q also reject the dialog that is open; a
\* protocol client's cancellation is a signal only.
CancelRejects == reply = Open /\ config.front # "protocol"

\* The flag first, then the dialog.
Cancel ==
  /\ pc # "idle"
  /\ cancelled' = TRUE
  /\ IF CancelRejects
       THEN Send([choice |-> "reject", to |-> None, id |-> 0])
       ELSE UNCHANGED <<pending, reply>>
  /\ UNCHANGED <<task, saved, override, runWide, current, pc, uses, asked, armed>>

TaskStep ==
  \/ EndTask \/ Assess \/ Decide \/ TryRelease \/ Released
  \/ Ask \/ Install \/ InstallFails \/ InstallCancelled
  \/ TakeAnswer \/ TakeCancel \/ Expire \/ Authorize \/ Execute

Next ==
  \/ TaskStep
  \/ StartTask
  \/ \E x \in Call : BeginCall(x)
  \/ \E id \in 1 .. Len(asked) :
       \/ Arm(id) \/ Disarm(id)
       \/ \E choice \in {"approve", "remember", "run", "reject"} : Decision(id, choice, None)
       \/ \E command \in Commands : Decision(id, "edit", command)
       \/ \E policy \in Policies : SetPolicy(id, policy)
  \/ \E allow \in BOOLEAN : Permission(allow)
  \/ Cancel

Spec == Init /\ [][Next]_vars

\* The runner's future keeps being polled; nobody has to answer, start a task
\* or request a call.
FairSpec == Spec /\ WF_vars(TaskStep)

----------------------------------------------------------------------------
(* Properties *)

\* Whatever is about to run was released for exactly this command: by a person
\* whose dialog showed it, by an earlier dialog of the same task that showed
\* it, by a grant, the live policy or the permission for the run within their
\* limits, by full access, by a server told to approve everything, or by nobody
\* when its bound assessment, and for shell source the live policy, let it run
\* (confirm_assessed, the shell loop, authorize and the three confirmers).
ReleasedForThis ==
  pc = "execute" =>
    /\ consent.by = "nobody" => ~ ConfirmationRequired(call)
    /\ consent.by = "person" => consent.shown = call.command
    /\ consent.by = "task" => Ordinary(call) /\ call.command \in taught
    /\ consent.by = "run" => Ordinary(call) /\ runWide /\ config.front = "tui"
    /\ consent.by = "auto" => config.auto /\ config.front = "protocol"
    /\ consent.by = "grant" => Ordinary(call) /\ call.command \in Granted
    /\ consent.by = "session" => Ordinary(call) /\ Risk(call) = ReadOnly
    /\ consent.by = "full_access" => FullAccess \/ LivePolicy = "full_access"

\* A Dangerous or Critical operation runs only under full access, on a server
\* told to approve everything, or after both steps of the approval were made for
\* one and the same request id.
StrongIsConfirmedTwice ==
  pc = "execute" /\ RequiresDouble(call) =>
    \/ consent.by = "full_access"
    \/ consent.by = "auto" /\ config.auto
    \/ consent.by = "person" /\ consent.twice

\* Root and strong operations are never released by a grant, the live policy, the
\* memory of the task or the permission for the run, even when they are charged, or being charged, to one.
OnlyOrdinaryIsAutomatic ==
  pc = "released" \/ consent.by \in {"task", "run", "grant", "session"} => Ordinary(call)

\* A dialog is open only while one is needed: changing the policy settles the
\* operation that was waiting (confirm_assessed's loop), and nobody is asked for
\* what the run is allowed.
DialogIsNeeded ==
  pending # None =>
    /\ ~ RunAllowed
    /\ ~ FullAccess /\ LivePolicy # "full_access"
    /\ Risk(call) = ReadOnly /\ Ordinary(call) /\ ~ config.strict =>
         override \in {None, "always"}

\* Once the task is cancelled nothing is released automatically: no grant, live
\* policy, full access or server option (Confirmer::approval_cancelled, which
\* only the terminal UI leaves out).
NoAutomaticReleaseAfterCancel ==
  [][ApprovalCancelled /\ consent' # consent =>
       consent'.by \notin {"grant", "session", "full_access", "auto"}]_vars

\* A cancelled task of a Web session or a protocol server stops without anybody
\* answering (WebConfirmer::wait, ProtocolConfirmer's select).
CancelStopsTask == ApprovalCancelled ~> pc = "idle"
=============================================================================
