--------------------------- MODULE ApprovalProofs ---------------------------
(***************************************************************************)
(* The approval boundary, for every set of commands, configuration, grant  *)
(* and number of dialogs.                                                  *)
(*                                                                         *)
(* ReleasedForThis is not inductive: a person's approval is right because  *)
(* the answer waiting in the channel was posted for the pending dialog,    *)
(* the pending dialog shows the current command, and only one of dialog    *)
(* and answer exists, while the task waits.  Bound is that strengthening.  *)
(***************************************************************************)
EXTENDS Approval, SequenceTheorems, TLAPS

\* A dialog is open exactly while the channel is, shows the current command
\* and is the newest one; it is in review only if it was armed.
DialogBound ==
  /\ pending # None <=> reply = Open
  /\ reply # None => pc = "waiting"
  /\ pending # None =>
       /\ pending.id = Len(asked)
       /\ asked[pending.id] = call.command
       /\ pending.armed => pending.id \in armed

\* An approval in the channel answers the dialog that showed the command.
AnswerBound ==
  reply \in Answer =>
    /\ reply.choice = "run" => config.front = "tui"
    /\ reply.choice \in {"approve", "remember", "run"} =>
         /\ reply.id \in 1 .. Len(asked)
         /\ asked[reply.id] = call.command
         /\ RequiresDouble(call) => reply.id \in armed
    /\ reply.choice = "edit" => reply.to \in Commands

\* What released the call that is about to be authorized or executed.
ConsentBound ==
  IF pc \in {"authorize", "execute"}
    THEN /\ consent.by = "nobody" => ~ ConfirmationRequired(call)
         /\ consent.by = "person" =>
              /\ consent.shown = call.command
              /\ RequiresDouble(call) => consent.twice
         /\ consent.by = "task" => Ordinary(call) /\ call.command \in taught
         /\ consent.by = "run" => Ordinary(call) /\ runWide
         /\ consent.by = "auto" => config.auto /\ config.front = "protocol"
         /\ consent.by = "grant" => Ordinary(call) /\ call.command \in Granted
         /\ consent.by = "session" => Ordinary(call) /\ Risk(call) = ReadOnly
         /\ consent.by = "full_access" => FullAccess \/ LivePolicy = "full_access"
    ELSE consent = Nobody

\* From confirm_assessed's decision until the dialog closes, one is needed.
NeedsDialog ==
  /\ ~ FullAccess /\ LivePolicy # "full_access"
  /\ Risk(call) = ReadOnly /\ Ordinary(call) /\ ~ config.strict =>
       override \in {None, "always"}

NeedBound ==
  /\ pc \in {"release", "released", "ask", "install"} \/ pending # None => NeedsDialog
  /\ pc = "install" \/ pending # None => ~ (runWide /\ Ordinary(call))
  /\ pc = "released" => Ordinary(call) /\ call.command \in Granted

\* Only the terminal UI permits a whole run.
RunBound == runWide => config.front = "tui"

Bound ==
  /\ TypeOK
  /\ DialogBound
  /\ AnswerBound
  /\ remembered \subseteq taught
  /\ ConsentBound
  /\ NeedBound
  /\ RunBound

\* What is assumed of the constants, in the form the proofs cite.
LEMMA Constants ==
  /\ Effects \in [Commands -> Effect] /\ Configs \subseteq Config
  /\ MaxUses \in Nat /\ MaxRequests \in Nat
  /\ None \notin Commands /\ None \notin Policies /\ None \notin Call
  /\ None \notin Dialog /\ None \notin Answer /\ Open \notin Answer /\ Open # None
BY ApprovalAssumption

\* The initial states satisfy the invariant.
LEMMA InitBound == Init => Bound
<1> SUFFICES ASSUME Init PROVE Bound
  OBVIOUS
<1>1. TypeOK
  <2>1. config \in Config /\ saved \in Policies
    BY Constants DEF Init, Config
  <2>2. asked \in Seq(Commands) /\ Len(asked) <= MaxRequests
    BY Constants DEF Init
  <2>3. uses \in 0 .. MaxUses
    BY Constants DEF Init
  <2>4. consent \in Consent
    BY DEF Init, Nobody, Consent, Authorities
  <2>5. QED
    BY <2>1, <2>2, <2>3, <2>4 DEF Init, TypeOK, PC
<1>2. DialogBound /\ AnswerBound
  BY Constants DEF Init, DialogBound, AnswerBound
<1>3. ConsentBound /\ NeedBound /\ RunBound /\ remembered \subseteq taught
  BY DEF Init, ConsentBound, NeedBound, RunBound
<1>4. QED
  BY <1>1, <1>2, <1>3 DEF Bound

\* The types of what Leave, Goto and Proceed set.
CallOK ==
  /\ pc \in PC
  /\ call \in Call \union {None}
  /\ call = None <=> pc \in {"idle", "model"}
  /\ approved \in Commands \union {None}
  /\ consent \in Consent

RestOK ==
  /\ config \in Config
  /\ saved \in Policies
  /\ override \in Policies \union {None}
  /\ cancelled \in BOOLEAN
  /\ runWide \in BOOLEAN
  /\ remembered \subseteq Commands
  /\ uses \in 0 .. MaxUses
  /\ pending \in Dialog \union {None}
  /\ reply \in Answer \union {None, Open}
  /\ asked \in Seq(Commands) /\ Len(asked) <= MaxRequests
  /\ armed \subseteq 1 .. MaxRequests
  /\ taught \subseteq Commands

LEMMA TypeParts == TypeOK <=> CallOK /\ RestOK
BY DEF TypeOK, CallOK, RestOK

\* When a call is over, nothing about it is left.
LEMMA LeaveCall ==
  ASSUME NEW label \in {"idle", "model"}, Leave(label)
  PROVE  CallOK' /\ ConsentBound' /\ pc' = label
BY DEF Leave, CallOK, ConsentBound, PC, Nobody, Consent, Authorities

\* A call that moves on without a decision stays unreleased.
LEMMA GotoCall ==
  ASSUME CallOK, call # None, consent = Nobody,
         NEW label \in PC \ {"idle", "model", "authorize", "execute"}, Goto(label)
  PROVE  CallOK' /\ ConsentBound' /\ pc' = label /\ call' = call
BY DEF Goto, CallOK, ConsentBound, PC, current

\* A decision releases the call it was made for.
LEMMA ProceedCall ==
  ASSUME CallOK, call # None, NEW twice \in BOOLEAN,
         NEW who \in Authorities \ {"nobody"},
         NEW shown \in Commands \union {None}, Proceed(who, shown, twice)
  PROVE  /\ CallOK'
         /\ pc' \in {"authorize", "execute"} /\ call' = call
         /\ consent'.by = who /\ consent'.shown = shown /\ consent'.twice = twice
<1>1. call \in Call /\ call.command \in Commands
  BY DEF CallOK, Call
<1>2. call' = call /\ pc' \in {"authorize", "execute"} /\ approved' \in Commands
  BY <1>1 DEF Proceed
<1>3. consent' = [by |-> who, shown |-> shown, twice |-> twice]
  BY DEF Proceed
<1>4. consent' \in Consent
  BY <1>3 DEF Consent, Authorities
<1>5. CallOK'
  BY <1>1, <1>2, <1>4, Constants DEF CallOK, PC
<1>6. QED
  BY <1>2, <1>3, <1>5

\* The assessment operators read the call, its effects and the snapshot only.
LEMMA SameAssessment ==
  ASSUME UNCHANGED <<config, override, call>>
  PROVE  /\ Ordinary(call)' <=> Ordinary(call)
         /\ RequiresDouble(call)' <=> RequiresDouble(call)
         /\ ConfirmationRequired(call)' <=> ConfirmationRequired(call)
         /\ Risk(call)' = Risk(call)
         /\ LivePolicy' = LivePolicy
         /\ NeedsDialog' <=> NeedsDialog
BY DEF Ordinary, RequiresDouble, ConfirmationRequired, RequiresConfirmation, RequiresRoot,
       Risk, LivePolicy, IsShell, NeedsDialog

\* While the task is not waiting there is no dialog and no answer, so a step
\* that leaves them alone leaves nothing to show about them.
LEMMA NoDialog ==
  ASSUME Bound, pc # "waiting"
  PROVE  pending = None /\ reply = None
BY Constants DEF Bound, DialogBound

LEMMA QuietStep ==
  ASSUME Bound, pc # "waiting", UNCHANGED <<task, dialog>>
  PROVE  DialogBound' /\ AnswerBound' /\ (remembered \subseteq taught)'
<1>1. pending' = None /\ reply' = None
  BY NoDialog DEF dialog
<1>2. DialogBound' /\ AnswerBound'
  BY <1>1, Constants DEF DialogBound, AnswerBound
<1>3. QED
  BY <1>2 DEF Bound, task

\* The steps of the task outside its wait for a dialog.
LEMMA TaskPreserves ==
  ASSUME Bound,
         \/ EndTask \/ Assess \/ Decide \/ TryRelease \/ Released \/ Ask \/ Authorize \/ Execute
         \/ InstallFails \/ InstallCancelled
         \/ \E x \in Call : BeginCall(x)
  PROVE  Bound'
<1>1. pc # "waiting" /\ UNCHANGED <<task, owner, dialog>>
  BY DEF EndTask, Assess, Decide, TryRelease, Released, Ask, Authorize, Execute, BeginCall,
         InstallFails, InstallCancelled
<1>2. DialogBound' /\ AnswerBound' /\ (remembered \subseteq taught)' /\ pending' = None
  BY <1>1, QuietStep, NoDialog DEF dialog
<1>3. UNCHANGED <<config, override, runWide>> /\ RunBound'
  BY <1>1 DEF task, owner, Bound, RunBound
<1>4. CallOK /\ RestOK /\ ConsentBound /\ NeedBound
  BY TypeParts DEF Bound
<1>5. uses' \in 0 .. MaxUses
  <2>1. CASE TryRelease
    BY <2>1, <1>4, Constants DEF TryRelease, RestOK, Goto, current
  <2>2. CASE ~ TryRelease
    BY <2>2, <1>4 DEF EndTask, Assess, Decide, Released, Ask, Authorize, Execute, BeginCall,
         InstallFails, InstallCancelled, RestOK
  <2>3. QED
    BY <2>1, <2>2
<1>6. RestOK'
  BY <1>1, <1>4, <1>5 DEF RestOK, task, owner, dialog
<1>7. CallOK' /\ ConsentBound' /\ NeedBound'
  <2>1. ASSUME NEW label \in {"idle", "model"}, Leave(label)
        PROVE  CallOK' /\ ConsentBound' /\ NeedBound'
    BY <2>1, <1>2, LeaveCall DEF NeedBound
  <2>2. CASE EndTask \/ Execute
    BY <2>1, <2>2 DEF EndTask, Execute
  <2>3. CASE \E x \in Call : BeginCall(x)
    <3>1. PICK x \in Call : BeginCall(x)
      BY <2>3
    <3>2. /\ call' = x /\ pc' = "assess" /\ approved' = approved
          /\ consent' = consent /\ consent = Nobody
      BY <3>1, <1>4 DEF BeginCall, ConsentBound
    <3>3. QED
      BY <3>2, <1>2, <1>4, Constants DEF CallOK, ConsentBound, NeedBound, PC
  <2>4. CASE Ask
    <3>1. pc = "ask" /\ consent = Nobody /\ call # None /\ NeedsDialog
      BY <2>4, <1>4 DEF Ask, ConsentBound, CallOK, NeedBound
    <3>2. CASE Leave("model")
      BY <3>2, <2>1
    <3>3. CASE Proceed("auto", None, FALSE) /\ config.front = "protocol" /\ config.auto
      <4>1. /\ CallOK' /\ pc' \in {"authorize", "execute"} /\ call' = call
            /\ consent'.by = "auto"
        BY <3>1, <3>3, <1>4, ProceedCall DEF Authorities
      <4>2. QED
        BY <4>1, <3>3, <1>2, <1>3 DEF ConsentBound, NeedBound
    <3>4. CASE Proceed("run", None, FALSE) /\ runWide /\ Ordinary(call)
      <4>1. /\ CallOK' /\ pc' \in {"authorize", "execute"} /\ call' = call
            /\ consent'.by = "run"
        BY <3>1, <3>4, <1>4, ProceedCall DEF Authorities
      <4>2. QED
        BY <4>1, <3>4, <1>2, <1>3, SameAssessment DEF ConsentBound, NeedBound
    <3>5. CASE Goto("install") /\ ~ (runWide /\ Ordinary(call))
      <4>1. CallOK' /\ ConsentBound' /\ pc' = "install" /\ call' = call
        BY <3>1, <3>5, <1>4, GotoCall DEF PC
      <4>2. QED
        BY <4>1, <3>1, <3>5, <1>2, <1>3, SameAssessment DEF NeedBound
    <3>6. QED
      BY <2>4, <3>2, <3>3, <3>4, <3>5 DEF Ask, AutoApproved, RunAllowed
  <2>5. CASE Assess
    <3>1. pc = "assess" /\ call # None /\ consent = Nobody
      BY <2>5, <1>4 DEF Assess, CallOK, ConsentBound
    <3>2. CASE ~ ConfirmationRequired(call)
      <4>1. pc' \in {"authorize", "execute"} /\ UNCHANGED current
        BY <3>2, <2>5 DEF Assess, Goto
      <4>2. CallOK'
        BY <4>1, <3>1, <1>4 DEF CallOK, PC, current
      <4>3. ConsentBound'
        BY <4>1, <3>1, <3>2, <1>3, SameAssessment DEF ConsentBound, Nobody, current
      <4>4. QED
        BY <4>1, <4>2, <4>3, <1>2 DEF NeedBound
    <3>3. CASE ConfirmationRequired(call) /\ Goto("decide")
      BY <3>1, <3>3, <1>2, <1>4, GotoCall DEF PC, NeedBound
    <3>4. CASE /\ Proceed("task", None, FALSE)
               /\ Ordinary(call) /\ call.command \in remembered
      <4>1. /\ CallOK' /\ pc' \in {"authorize", "execute"} /\ call' = call
            /\ consent'.by = "task"
        BY <3>1, <3>4, <1>4, ProceedCall DEF Authorities
      <4>2. ConsentBound'
        BY <4>1, <3>4, <1>1, <1>3, SameAssessment DEF ConsentBound, Bound, task
      <4>3. QED
        BY <4>1, <4>2, <1>2 DEF NeedBound
    <3>5. QED
      BY <2>5, <3>2, <3>3, <3>4 DEF Assess
  <2>6. CASE Decide
    <3>1. pc = "decide" /\ call # None /\ consent = Nobody
      BY <2>6, <1>4 DEF Decide, CallOK, ConsentBound
    <3>2. CASE Leave("model")
      BY <3>2, <2>1
    <3>3. CASE /\ Proceed("full_access", None, FALSE)
               /\ FullAccess \/ LivePolicy = "full_access"
      <4>1. /\ CallOK' /\ pc' \in {"authorize", "execute"} /\ call' = call
            /\ consent'.by = "full_access"
        BY <3>1, <3>3, <1>4, ProceedCall DEF Authorities
      <4>2. QED
        BY <4>1, <3>3, <1>2, <1>3, SameAssessment DEF ConsentBound, NeedBound
    <3>4. CASE /\ Proceed("session", None, FALSE)
               /\ Risk(call) = ReadOnly /\ Ordinary(call)
      <4>1. /\ CallOK' /\ pc' \in {"authorize", "execute"} /\ call' = call
            /\ consent'.by = "session"
        BY <3>1, <3>4, <1>4, ProceedCall DEF Authorities
      <4>2. QED
        BY <4>1, <3>4, <1>2, <1>3, SameAssessment DEF ConsentBound, NeedBound
    <3>5. CASE Goto("release") /\ NeedsDialog
      <4>1. CallOK' /\ ConsentBound' /\ pc' = "release" /\ call' = call
        BY <3>1, <3>5, <1>4, GotoCall DEF PC
      <4>2. QED
        BY <4>1, <3>5, <1>2, <1>3, SameAssessment DEF NeedBound
    <3>6. QED
      BY <2>6, <3>2, <3>3, <3>4, <3>5 DEF Decide, NeedsDialog
  <2>7. CASE TryRelease
    <3>1. pc = "release" /\ call # None /\ consent = Nobody /\ NeedsDialog
      BY <2>7, <1>4 DEF TryRelease, CallOK, ConsentBound, NeedBound
    <3>2. CASE Goto("released") /\ Ordinary(call) /\ call.command \in Granted
      <4>1. CallOK' /\ ConsentBound' /\ pc' = "released" /\ call' = call
        BY <3>1, <3>2, <1>4, GotoCall DEF PC
      <4>2. QED
        BY <4>1, <3>1, <3>2, <1>2, <1>3, SameAssessment DEF NeedBound
    <3>3. CASE Goto("ask")
      <4>1. CallOK' /\ ConsentBound' /\ pc' = "ask" /\ call' = call
        BY <3>1, <3>3, <1>4, GotoCall DEF PC
      <4>2. QED
        BY <4>1, <3>1, <1>2, <1>3, SameAssessment DEF NeedBound
    <3>4. CASE ConfirmationFails
      BY <3>4, <2>1 DEF ConfirmationFails
    <3>5. QED
      BY <2>7, <3>2, <3>3, <3>4 DEF TryRelease
  <2>8. CASE Released
    <3>1. /\ pc = "released" /\ call # None /\ consent = Nobody
          /\ Ordinary(call) /\ call.command \in Granted
      BY <2>8, <1>4 DEF Released, CallOK, ConsentBound, NeedBound
    <3>2. CASE Leave("model")
      BY <3>2, <2>1
    <3>3. CASE Proceed("grant", None, FALSE)
      <4>1. /\ CallOK' /\ pc' \in {"authorize", "execute"} /\ call' = call
            /\ consent'.by = "grant"
        BY <3>1, <3>3, <1>4, ProceedCall DEF Authorities
      <4>2. QED
        BY <4>1, <3>1, <1>2, <1>3, SameAssessment DEF ConsentBound, NeedBound
    <3>4. QED
      BY <2>8, <3>2, <3>3 DEF Released
  <2>9. CASE Authorize
    <3>1. CASE Leave("idle")
      BY <3>1, <2>1
    <3>2. CASE Goto("execute")
      <4>1. pc = "authorize" /\ pc' = "execute" /\ UNCHANGED current
        BY <3>2, <2>9 DEF Authorize, Goto
      <4>2. CallOK'
        BY <4>1, <1>4 DEF CallOK, PC, current
      <4>3. ConsentBound'
        BY <4>1, <1>1, <1>3, <1>4, SameAssessment DEF ConsentBound, current, task
      <4>4. QED
        BY <4>1, <4>2, <4>3, <1>2 DEF NeedBound
    <3>3. QED
      BY <2>9, <3>1, <3>2 DEF Authorize
  <2>10. CASE InstallFails \/ InstallCancelled
    BY <2>1, <2>10 DEF InstallFails, InstallCancelled, ConfirmationFails
  <2>11. QED
    BY <2>2, <2>3, <2>4, <2>5, <2>6, <2>7, <2>8, <2>9, <2>10
<1>8. QED
  BY <1>2, <1>3, <1>6, <1>7, TypeParts DEF Bound, TypeOK, CallOK, RestOK

\* A new task starts with no call, no dialog and nothing remembered.
LEMMA StartPreserves == Bound /\ StartTask => Bound'
<1> SUFFICES ASSUME Bound, StartTask PROVE Bound'
  OBVIOUS
<1>1. CallOK /\ RestOK /\ ConsentBound /\ pending = None /\ reply = None
  BY NoDialog, TypeParts DEF Bound, StartTask
<1>2. /\ pc = "idle" /\ pc' = "model" /\ UNCHANGED <<dialog, current, uses>>
      /\ remembered' = {} /\ taught' = {} /\ config' = [config EXCEPT !.policy = LoadedPolicy]
      /\ cancelled' = FALSE /\ saved' = saved /\ override' = override /\ runWide' = runWide
  BY DEF StartTask
<1>3. config' \in Config /\ config'.front = config.front
  <2>1. LoadedPolicy \in Policies
    BY <1>1 DEF LoadedPolicy, RestOK, Config, Fronts, Policies
  <2>2. QED
    BY <2>1, <1>1, <1>2 DEF RestOK, Config
<1>4. RestOK'
  BY <1>1, <1>2, <1>3 DEF RestOK, dialog
<1>5. CallOK'
  BY <1>1, <1>2 DEF CallOK, PC, current
<1>6. DialogBound' /\ AnswerBound' /\ ConsentBound' /\ NeedBound' /\ RunBound'
  BY <1>1, <1>2, <1>3, Constants
  DEF Bound, RunBound, DialogBound, AnswerBound, ConsentBound, NeedBound, dialog, current
<1>7. QED
  BY <1>2, <1>4, <1>5, <1>6, TypeParts DEF Bound, TypeOK, CallOK, RestOK

\* A dialog opens on the current command.
LEMMA InstallPreserves == Bound /\ Install => Bound'
<1> SUFFICES ASSUME Bound, Install PROVE Bound'
  OBVIOUS
<1>1. /\ CallOK /\ RestOK /\ ConsentBound /\ NeedBound /\ pending = None /\ reply = None
      /\ remembered \subseteq taught
  BY NoDialog, TypeParts DEF Bound, Install
<1>2. /\ pc = "install" /\ UNCHANGED <<task, owner, armed, uses>> /\ Goto("waiting")
      /\ asked' = Append(asked, call.command) /\ Len(asked) < MaxRequests
      /\ pending' = [id |-> Len(asked) + 1, armed |-> FALSE] /\ reply' = Open
  BY DEF Install
<1>3. call \in Call /\ call.command \in Commands /\ consent = Nobody /\ NeedsDialog
      /\ ~ (runWide /\ Ordinary(call))
  BY <1>1, <1>2 DEF CallOK, Call, ConsentBound, NeedBound
<1>4. CallOK' /\ ConsentBound' /\ pc' = "waiting" /\ call' = call
  BY <1>1, <1>2, <1>3, GotoCall, Constants DEF PC
<1>5. /\ asked' \in Seq(Commands) /\ Len(asked') = Len(asked) + 1
      /\ asked'[Len(asked')] = call.command
  <2>1. asked \in Seq(Commands)
    BY <1>1 DEF RestOK
  <2>2. /\ Append(asked, call.command) \in Seq(Commands)
        /\ Len(Append(asked, call.command)) = Len(asked) + 1
        /\ Append(asked, call.command)[Len(asked) + 1] = call.command
    BY <1>3, <2>1, AppendProperties
  <2>3. QED
    BY <1>2, <2>2
<1>6. pending' \in Dialog /\ pending' # None
  <2>1. Len(asked) \in Nat
    BY <1>1 DEF RestOK
  <2>2. Len(asked) + 1 \in 1 .. MaxRequests
    BY <2>1, <1>2, Constants
  <2>3. pending' \in Dialog
    BY <2>2, <1>2 DEF Dialog
  <2>4. QED
    BY <2>3, Constants
<1>7. RestOK'
  BY <1>1, <1>2, <1>5, <1>6, Constants DEF RestOK, task, owner
<1>8. DialogBound' /\ AnswerBound'
  BY <1>2, <1>4, <1>5, <1>6, Constants DEF DialogBound, AnswerBound
<1>9. NeedBound' /\ RunBound'
  BY <1>2, <1>3, <1>4, SameAssessment DEF Bound, RunBound, NeedBound, task, owner
<1>10. QED
  BY <1>1, <1>2, <1>4, <1>7, <1>8, <1>9, TypeParts DEF Bound, TypeOK, CallOK, RestOK, task

\* The task leaves its wait with the answer, or because of the cancel signal or
\* the time limit.
LEMMA WaitPreserves == Bound /\ (TakeAnswer \/ TakeCancel \/ Expire) => Bound'
<1> SUFFICES ASSUME Bound, TakeAnswer \/ TakeCancel \/ Expire PROVE Bound'
  OBVIOUS
<1>1. /\ CallOK /\ RestOK /\ ConsentBound /\ NeedBound /\ DialogBound /\ AnswerBound
      /\ remembered \subseteq taught
  BY TypeParts DEF Bound
<1>2. /\ pc = "waiting" /\ reply' = None /\ UNCHANGED <<config, asked, armed, uses>>
      /\ pending' = None /\ UNCHANGED <<saved, override, cancelled>>
  <2>1. CASE TakeAnswer
    <3>1. reply \in Answer /\ reply # Open
      BY <2>1, Constants DEF TakeAnswer
    <3>2. pending = None
      BY <3>1, <1>1 DEF DialogBound
    <3>3. QED
      BY <2>1, <3>2 DEF TakeAnswer
  <2>2. CASE TakeCancel \/ Expire
    BY <2>2 DEF TakeCancel, Expire, task, owner
  <2>3. QED
    BY <2>1, <2>2
<1>3. call \in Call /\ call.command \in Commands /\ consent = Nobody
  BY <1>1, <1>2 DEF CallOK, Call, ConsentBound
<1>4. UNCHANGED <<config, override>>
  BY <1>2
<1>5. /\ remembered' \subseteq taught' /\ remembered' \subseteq Commands
      /\ taught' \subseteq Commands
  <2>1. CASE TakeCancel \/ Expire
    BY <2>1, <1>1 DEF TakeCancel, Expire, task, RestOK
  <2>2. CASE TakeAnswer /\ UNCHANGED <<remembered, taught>>
    BY <2>2, <1>1 DEF RestOK
  <2>3. CASE /\ TakeAnswer /\ reply.choice = "remember"
             /\ remembered' = remembered \union {call.command}
             /\ taught' = taught \union {asked[reply.id]}
    <3>1. asked[reply.id] = call.command
      BY <2>3, <1>1 DEF TakeAnswer, AnswerBound
    <3>2. QED
      BY <2>3, <3>1, <1>1, <1>3 DEF RestOK
  <2>4. QED
    BY <2>1, <2>2, <2>3 DEF TakeAnswer, TakeCancel, Expire
<1>6. RestOK' /\ RunBound'
  <2>1. CASE TakeCancel \/ Expire
    <3>1. runWide' = runWide
      BY <2>1 DEF TakeCancel, Expire, owner
    <3>2. QED
      BY <3>1, <1>1, <1>2, <1>5 DEF RestOK, Bound, RunBound
  <2>2. CASE TakeAnswer
    <3>1. /\ runWide' = (runWide \/ (reply.choice = "run" /\ Ordinary(call)))
          /\ reply.choice = "run" => config.front = "tui"
      BY <2>2, <1>1 DEF TakeAnswer, AnswerBound
    <3>2. runWide' \in BOOLEAN
      BY <3>1
    <3>3. RunBound'
      BY <3>1, <1>2 DEF Bound, RunBound
    <3>4. QED
      BY <3>2, <3>3, <1>1, <1>2, <1>5 DEF RestOK
  <2>3. QED
    BY <2>1, <2>2
<1>7. DialogBound' /\ AnswerBound'
  BY <1>2, Constants DEF DialogBound, AnswerBound
<1>8. CallOK' /\ ConsentBound' /\ NeedBound'
  <2>1. ASSUME NEW label \in {"idle", "model"}, Leave(label)
        PROVE  CallOK' /\ ConsentBound' /\ NeedBound'
    BY <2>1, <1>2, LeaveCall DEF NeedBound
  <2>2. CASE TakeCancel \/ Expire
    BY <2>1, <2>2 DEF TakeCancel, Expire
  <2>3. CASE TakeAnswer /\ reply.choice \in {"approve", "remember", "run"}
    <3>1. Proceed("person", asked[reply.id], reply.id \in armed)
      BY <2>3 DEF TakeAnswer
    <3>2. asked[reply.id] = call.command /\ (RequiresDouble(call) => reply.id \in armed)
      BY <2>3, <1>1 DEF TakeAnswer, AnswerBound
    <3> DEFINE twice == reply.id \in armed
    <3>3. Proceed("person", call.command, twice) /\ twice \in BOOLEAN
      BY <3>1, <3>2
    <3>4. twice \/ ~ RequiresDouble(call)
      BY <3>2
    <3> HIDE DEF twice
    <3>5. /\ CallOK' /\ pc' \in {"authorize", "execute"} /\ call' = call
          /\ consent'.by = "person" /\ consent'.shown = call.command /\ consent'.twice = twice
      BY <3>3, <1>1, <1>3, ProceedCall, Constants DEF Authorities
    <3>6. QED
      BY <3>4, <3>5, <1>2, <1>4, SameAssessment DEF ConsentBound, NeedBound
  <2>4. CASE TakeAnswer /\ reply.choice = "edit"
    <3>1. Edited(reply.to)
      BY <2>4 DEF TakeAnswer
    <3>2. CASE Leave("model")
      BY <3>2, <2>1
    <3>3. CASE /\ call' = [call EXCEPT !.command = reply.to] /\ pc' = "assess"
               /\ UNCHANGED <<approved, consent>> /\ reply.to \in Commands
      <4>1. call' \in Call /\ call' # None
        BY <3>3, <1>3, Constants DEF Call
      <4>2. CallOK'
        BY <4>1, <3>3, <1>1 DEF CallOK, PC
      <4>3. QED
        BY <4>2, <3>3, <1>2, <1>3 DEF ConsentBound, NeedBound
    <3>4. QED
      BY <3>1, <3>2, <3>3, <1>1, <2>4 DEF Edited, AnswerBound, TakeAnswer
  <2>5. CASE TakeAnswer /\ reply.choice = "reject"
    BY <2>1, <2>5 DEF TakeAnswer
  <2>6. CASE TakeAnswer /\ reply.choice = "set_policy"
    <3>1. CASE Goto("decide")
      BY <3>1, <1>1, <1>2, <1>3, GotoCall, Constants DEF PC, NeedBound
    <3>2. CASE ConfirmationFails
      BY <3>2, <2>1 DEF ConfirmationFails
    <3>3. QED
      BY <2>6, <3>1, <3>2 DEF TakeAnswer
  <2>7. QED
    BY <2>2, <2>3, <2>4, <2>5, <2>6 DEF TakeAnswer, Answer
<1>9. QED
  BY <1>5, <1>6, <1>7, <1>8, TypeParts DEF Bound, TypeOK, CallOK, RestOK

\* The owner changes the dialog, the answer, the live policy and the permission
\* for the run, never the call.
LEMMA OwnerPreserves ==
  ASSUME Bound,
         \/ Cancel
         \/ \E allow \in BOOLEAN : Permission(allow)
         \/ \E id \in 1 .. Len(asked) :
              \/ Arm(id) \/ Disarm(id)
              \/ \E choice \in {"approve", "remember", "run", "reject"} : Decision(id, choice, None)
              \/ \E command \in Commands : Decision(id, "edit", command)
              \/ \E policy \in Policies : SetPolicy(id, policy)
  PROVE  Bound'
<1>1. /\ CallOK /\ RestOK /\ ConsentBound /\ NeedBound /\ DialogBound /\ AnswerBound
      /\ remembered \subseteq taught
  BY TypeParts DEF Bound
<1>2. UNCHANGED <<task, current, pc, uses, asked>>
  <2>1. CASE Cancel
    BY <2>1 DEF Cancel
  <2>2. CASE \E allow \in BOOLEAN : Permission(allow)
    BY <2>2 DEF Permission, dialog
  <2>3. ASSUME NEW id, Arm(id) \/ Disarm(id) PROVE UNCHANGED <<task, current, pc, uses, asked>>
    BY <2>3 DEF Arm, Disarm
  <2>4. ASSUME NEW id, NEW choice, NEW to, Decision(id, choice, to)
        PROVE  UNCHANGED <<task, current, pc, uses, asked>>
    BY <2>4 DEF Decision
  <2>5. ASSUME NEW id, NEW policy, SetPolicy(id, policy)
        PROVE  UNCHANGED <<task, current, pc, uses, asked>>
    BY <2>5 DEF SetPolicy
  <2>6. QED
    BY <2>1, <2>2, <2>3, <2>4, <2>5
<1>3. CallOK' /\ (remembered \subseteq taught)'
  BY <1>1, <1>2 DEF CallOK, task, current
<1>4. ASSUME UNCHANGED <<override, runWide, armed>>, reply = Open, NEW answer \in Answer, Send(answer),
             answer.choice \in {"approve", "remember", "run"} =>
               /\ answer.id \in 1 .. Len(asked) /\ asked[answer.id] = call.command
               /\ RequiresDouble(call) => answer.id \in armed,
             answer.choice = "edit" => answer.to \in Commands,
             answer.choice = "run" => config.front = "tui"
      PROVE  DialogBound' /\ AnswerBound' /\ ConsentBound' /\ NeedBound' /\ RunBound'
  <2>1. /\ pc = "waiting" /\ pending' = None /\ reply' = answer /\ answer # Open
        /\ UNCHANGED <<config, override, call>>
    BY <1>1, <1>2, <1>4, Constants DEF Send, DialogBound, task, current
  <2>2. DialogBound' /\ AnswerBound'
    BY <2>1, <1>2, <1>4, SameAssessment, Constants DEF DialogBound, AnswerBound
  <2>3. ConsentBound' /\ NeedBound' /\ RunBound'
    BY <2>1, <1>1, <1>2, <1>4 DEF ConsentBound, NeedBound, RunBound, Bound, current
  <2>4. QED
    BY <2>2, <2>3
<1>5. ASSUME NEW id \in 1 .. Len(asked), NEW to \in Commands \union {None},
             NEW choice \in {"approve", "remember", "run", "reject", "edit"}, Decision(id, choice, to),
             choice = "edit" => to \in Commands
      PROVE  Bound'
  <2>1. /\ pending # None /\ pending.id = id /\ reply = Open /\ UNCHANGED <<owner, armed>>
        /\ choice = "approve" /\ RequiresDouble(call) => pending.armed
        /\ choice \in {"remember", "run"} => Ordinary(call)
        /\ choice = "run" => config.front = "tui"
    <3>1. choice = "run" /\ choice \in Choices => config.front = "tui"
      BY <1>1 DEF Choices, WebChoices, LocalChoices, RestOK, Config, Fronts
    <3>2. QED
      BY <3>1, <1>5 DEF Decision, IsPending
  <2> DEFINE answer == [choice |-> choice, to |-> to, id |-> id]
  <2>2. answer \in Answer /\ Send(answer)
    BY <1>5, <1>1, Constants DEF Decision, Answer, RestOK
  <2>3. choice \in {"approve", "remember", "run"} =>
          /\ id \in 1 .. Len(asked) /\ asked[id] = call.command
          /\ RequiresDouble(call) => id \in armed
    BY <2>1, <1>1 DEF DialogBound, Ordinary
  <2>4. DialogBound' /\ AnswerBound' /\ ConsentBound' /\ NeedBound' /\ RunBound'
    <3>1. UNCHANGED <<override, runWide, armed>>
      BY <2>1 DEF owner
    <3> HIDE DEF answer
    <3>2. /\ answer.choice \in {"approve", "remember", "run"} =>
               /\ answer.id \in 1 .. Len(asked) /\ asked[answer.id] = call.command
               /\ RequiresDouble(call) => answer.id \in armed
          /\ answer.choice = "edit" => answer.to \in Commands
          /\ answer.choice = "run" => config.front = "tui"
      BY <2>1, <2>3, <1>5 DEF answer
    <3>3. QED
      BY <3>1, <3>2, <2>1, <2>2, <1>4
  <2>5. RestOK'
    BY <2>1, <2>2, <1>1, <1>2 DEF RestOK, Send, owner, task
  <2>6. QED
    BY <2>4, <2>5, <1>3, TypeParts DEF Bound, TypeOK, CallOK, RestOK
<1>6. ASSUME NEW id \in 1 .. Len(asked), Arm(id) \/ Disarm(id) PROVE Bound'
  <2>1. /\ pending # None /\ pending.id = id /\ UNCHANGED <<owner, reply>> /\ pending \in Dialog
        /\ \/ pending' = [pending EXCEPT !.armed = TRUE] /\ id \in armed'
           \/ pending' = [pending EXCEPT !.armed = FALSE]
        /\ armed \subseteq armed' /\ armed' \subseteq armed \union {id}
    <3>1. pending # None /\ pending.id = id /\ UNCHANGED <<owner, reply>> /\ pending \in Dialog
      BY <1>6, <1>1 DEF Arm, Disarm, IsPending, RestOK
    <3>2. CASE Arm(id)
      BY <3>1, <3>2 DEF Arm
    <3>3. CASE Disarm(id)
      BY <3>1, <3>3 DEF Disarm
    <3>4. QED
      BY <1>6, <3>1, <3>2, <3>3
  <2>2. /\ pending' \in Dialog /\ pending' # None /\ pending'.id = id
        /\ pending'.armed => id \in armed'
    <3>1. pending' \in Dialog /\ pending'.id = id /\ (pending'.armed => id \in armed')
      BY <2>1 DEF Dialog
    <3>2. QED
      BY <3>1, Constants
  <2>3. RestOK'
    BY <2>1, <2>2, <1>1, <1>2 DEF RestOK, owner, task, Dialog
  <2>4. UNCHANGED <<config, override, call, runWide>> /\ reply = Open
    BY <2>1, <1>1, <1>2 DEF owner, task, current, DialogBound
  <2>5. DialogBound' /\ AnswerBound' /\ RunBound'
    <3>1. reply' = Open /\ reply' \notin Answer /\ pc' = pc /\ asked' = asked
      BY <2>1, <2>4, <1>2, Constants
    <3>2. DialogBound'
      BY <3>1, <2>1, <2>2, <2>4, <1>1 DEF DialogBound
    <3>3. QED
      BY <3>1, <3>2, <2>4 DEF AnswerBound, Bound, RunBound
  <2>6. ConsentBound' /\ NeedBound'
    <3>1. /\ NeedsDialog /\ pc = "waiting" /\ pc' = pc /\ consent' = consent
          /\ ~ (runWide /\ Ordinary(call))
      BY <2>1, <2>4, <1>1, <1>2, Constants DEF NeedBound, DialogBound, current
    <3>2. ConsentBound'
      BY <3>1, <1>1 DEF ConsentBound
    <3>3. QED
      BY <3>1, <3>2, <2>4, SameAssessment DEF NeedBound
  <2>7. QED
    BY <2>3, <2>5, <2>6, <1>3, TypeParts DEF Bound, TypeOK, CallOK, RestOK
<1>7. ASSUME NEW id \in 1 .. Len(asked), NEW policy \in Policies, SetPolicy(id, policy)
      PROVE  Bound'
  <2>1. /\ reply = Open /\ override' = policy /\ saved' = policy
        /\ UNCHANGED <<cancelled, runWide, armed>> /\ pending' = None
        /\ reply' = [choice |-> "set_policy", to |-> policy, id |-> id]
    BY <1>7 DEF SetPolicy, Send
  <2>2. reply' \in Answer
    <3>1. Len(asked) \in Nat /\ Len(asked) <= MaxRequests
      BY <1>1 DEF RestOK
    <3>2. id \in 0 .. MaxRequests
      BY <3>1, Constants
    <3>3. QED
      BY <2>1, <3>2 DEF Answer
  <2>3. RestOK'
    BY <2>1, <2>2, <1>1, <1>2 DEF RestOK, task
  <2>4. pc = "waiting"
    BY <2>1, <1>1, Constants DEF DialogBound
  <2>5. DialogBound' /\ AnswerBound' /\ ConsentBound' /\ NeedBound' /\ RunBound'
    BY <2>1, <2>2, <2>4, <1>1, <1>2, Constants
    DEF DialogBound, AnswerBound, ConsentBound, NeedBound, Bound, RunBound, current, task
  <2>6. QED
    BY <2>3, <2>5, <1>3, TypeParts DEF Bound, TypeOK, CallOK, RestOK
<1>8. CASE Cancel
  <2>1. UNCHANGED <<saved, override, runWide, armed>> /\ cancelled' = TRUE
    BY <1>8 DEF Cancel
  <2>2. CASE CancelRejects
    <3> DEFINE answer == [choice |-> "reject", to |-> None, id |-> 0]
    <3>1. answer \in Answer /\ Send(answer) /\ answer.choice = "reject" /\ reply = Open
      BY <1>8, <2>2, Constants DEF Cancel, CancelRejects, Answer
    <3>2. DialogBound' /\ AnswerBound' /\ ConsentBound' /\ NeedBound' /\ RunBound'
      <4> HIDE DEF answer
      <4>1. QED
        BY <3>1, <2>1, <2>2, <1>4
    <3>3. RestOK'
      BY <3>1, <2>1, <1>1, <1>2 DEF RestOK, Send, task
    <3>4. QED
      BY <3>2, <3>3, <1>3, TypeParts DEF Bound, TypeOK, CallOK, RestOK
  <2>3. CASE ~ CancelRejects
    <3>1. UNCHANGED <<pending, reply, config, override, call, runWide>>
      BY <1>8, <2>1, <2>3, <1>2 DEF Cancel, task, current
    <3>2. RestOK'
      BY <3>1, <2>1, <1>1, <1>2 DEF RestOK, task
    <3>3. DialogBound' /\ AnswerBound' /\ ConsentBound' /\ NeedBound' /\ RunBound'
      BY <3>1, <2>1, <1>1, <1>2, SameAssessment
      DEF Bound, RunBound, DialogBound, AnswerBound, ConsentBound, NeedBound, current, task
    <3>4. QED
      BY <3>2, <3>3, <1>3, TypeParts DEF Bound, TypeOK, CallOK, RestOK
  <2>4. QED
    BY <2>2, <2>3
<1>9. ASSUME NEW allow \in BOOLEAN, Permission(allow) PROVE Bound'
  <2>1. /\ pc = "idle" /\ config.front = "tui" /\ runWide' = allow
        /\ UNCHANGED <<saved, override, cancelled, dialog>>
    BY <1>9 DEF Permission
  <2>2. pending = None /\ reply = None
    BY <2>1, NoDialog
  <2>3. RestOK'
    BY <2>1, <1>1, <1>2 DEF RestOK, task, dialog
  <2>4. DialogBound' /\ AnswerBound' /\ ConsentBound' /\ NeedBound' /\ RunBound'
    BY <2>1, <2>2, <1>1, <1>2, Constants
    DEF DialogBound, AnswerBound, ConsentBound, NeedBound, RunBound, dialog, current, task
  <2>5. QED
    BY <2>3, <2>4, <1>3, TypeParts DEF Bound, TypeOK, CallOK, RestOK
<1>10. QED
  BY <1>5, <1>6, <1>7, <1>8, <1>9

LEMMA StutterPreserves == Bound /\ UNCHANGED vars => Bound'
<1> SUFFICES ASSUME Bound, UNCHANGED vars PROVE Bound'
  OBVIOUS
<1> USE DEF vars, task, owner, dialog, current
<1>1. TypeOK'
  BY DEF Bound, TypeOK
<1>2. DialogBound' /\ AnswerBound' /\ (remembered \subseteq taught)'
  BY SameAssessment DEF Bound, DialogBound, AnswerBound
<1>3. ConsentBound' /\ NeedBound' /\ RunBound'
  BY SameAssessment DEF Bound, ConsentBound, NeedBound, RunBound
<1>4. QED
  BY <1>1, <1>2, <1>3 DEF Bound

\* The strengthening is inductive.
LEMMA Inductive == Bound /\ [Next]_vars => Bound'
BY TaskPreserves, StartPreserves, InstallPreserves, WaitPreserves, OwnerPreserves, StutterPreserves
DEF Next, TaskStep

\* Strong confirmation is confirmation.
LEMMA DoubleIsConfirmed ==
  ASSUME TypeOK, pc = "execute"
  PROVE  RequiresDouble(call) => ConfirmationRequired(call)
<1>1. call \in Call
  BY Constants DEF TypeOK
<1>2. Effects[call.command] \in Effect
  BY <1>1, Constants DEF Call
<1>3. Risk(call) \in 0 .. 3
  BY <1>2 DEF Risk, Effect, ReadOnly, Critical
<1>4. QED
  BY <1>3 DEF RequiresDouble, ConfirmationRequired, RequiresConfirmation, Mutating, Dangerous

\* The invariants follow from the strengthening.
LEMMA Consequences ==
  Bound => ReleasedForThis /\ StrongIsConfirmedTwice /\ OnlyOrdinaryIsAutomatic /\ DialogIsNeeded
<1> SUFFICES ASSUME Bound
             PROVE  ReleasedForThis /\ StrongIsConfirmedTwice /\ OnlyOrdinaryIsAutomatic
                    /\ DialogIsNeeded
  OBVIOUS
<1>1. consent.by \in Authorities
  BY DEF Bound, TypeOK, Consent
<1>2. ReleasedForThis
  BY <1>1 DEF Bound, ConsentBound, RunBound, ReleasedForThis
<1>3. StrongIsConfirmedTwice
  <2>1. pc = "execute" /\ RequiresDouble(call) => ConfirmationRequired(call)
    BY DoubleIsConfirmed DEF Bound
  <2>2. QED
    BY <1>1, <2>1 DEF Bound, ConsentBound, StrongIsConfirmedTwice, Ordinary, Authorities
<1>4. OnlyOrdinaryIsAutomatic
  BY <1>1 DEF Bound, ConsentBound, NeedBound, OnlyOrdinaryIsAutomatic, Nobody
<1>5. DialogIsNeeded
  BY DEF Bound, NeedBound, NeedsDialog, RunAllowed, DialogIsNeeded
<1>6. QED
  BY <1>2, <1>3, <1>4, <1>5

\* Every variable keeps its type, for any number of dialogs and commands.
THEOREM TypeCorrect == Spec => []TypeOK
<1>1. Bound => TypeOK
  BY DEF Bound
<1>2. QED
  BY <1>1, InitBound, Inductive, PTL DEF Spec

\* Whatever runs was released for exactly this command (ReleasedForThis).
THEOREM NothingElseRuns == Spec => []ReleasedForThis
BY InitBound, Inductive, Consequences, PTL DEF Spec

\* A strong operation has full access or two posts for one request id.
THEOREM StrongReview == Spec => []StrongIsConfirmedTwice
BY InitBound, Inductive, Consequences, PTL DEF Spec

\* Root and strong operations are never released automatically.
THEOREM AutomaticIsOrdinary == Spec => []OnlyOrdinaryIsAutomatic
BY InitBound, Inductive, Consequences, PTL DEF Spec

\* A policy change settles the operation that was waiting for approval.
THEOREM DialogsAreNeeded == Spec => []DialogIsNeeded
BY InitBound, Inductive, Consequences, PTL DEF Spec

\* Who a step of the task may name.  Every step that releases a call reads the
\* cancel signal in the same step, or was told by a person, by what the task
\* remembers or by the permission for the run.
LEMMA ReleaseReadsCancel ==
  ASSUME ApprovalCancelled, [Next]_vars, consent' # consent
  PROVE  consent'.by \in {"nobody", "person", "task", "run"}
<1> DEFINE Allowed == consent'.by \in {"nobody", "person", "task", "run"}
<1>1. ASSUME NEW who, NEW shown, NEW twice, Proceed(who, shown, twice) PROVE consent'.by = who
  BY <1>1 DEF Proceed
<1>2. ASSUME NEW label, Leave(label) PROVE Allowed
  BY <1>2 DEF Leave, Nobody
<1>3. CASE Assess
  BY <1>1, <1>3 DEF Assess, Goto, current
<1>4. CASE Decide \/ Released
  BY <1>2, <1>4 DEF Decide, Released
<1>5. CASE Ask
  BY <1>2, <1>5 DEF Ask
<1>6. CASE TakeAnswer
  <2>1. CASE reply.choice \in {"approve", "remember", "run"}
    BY <1>1, <1>6, <2>1 DEF TakeAnswer
  <2>2. CASE reply.choice = "edit"
    <3>1. Edited(reply.to)
      BY <1>6, <2>2 DEF TakeAnswer
    <3>2. QED
      BY <1>2, <3>1 DEF Edited
  <2>3. CASE reply.choice = "reject"
    BY <1>2, <1>6, <2>3 DEF TakeAnswer
  <2>4. CASE reply.choice = "set_policy"
    <3>1. Goto("decide") \/ ConfirmationFails
      BY <1>6, <2>4 DEF TakeAnswer
    <3>2. QED
      BY <1>2, <3>1 DEF Goto, current, ConfirmationFails
  <2>5. reply.choice \in {"approve", "remember", "run", "reject", "set_policy", "edit"}
    BY <1>6 DEF TakeAnswer, Answer
  <2>6. QED
    BY <2>1, <2>2, <2>3, <2>4, <2>5
<1>7. CASE EndTask \/ TryRelease \/ InstallFails \/ InstallCancelled \/ TakeCancel \/ Expire
           \/ Authorize \/ Execute
  BY <1>2, <1>7 DEF EndTask, TryRelease, InstallFails, InstallCancelled, ConfirmationFails,
     TakeCancel, Expire, Authorize, Execute, Goto, current
<1>8. CASE Install \/ StartTask \/ \E x \in Call : BeginCall(x)
  BY <1>8 DEF Install, StartTask, BeginCall, Goto, current
<1>9. ASSUME NEW id, NEW choice, NEW to,
             \/ Arm(id)
             \/ Disarm(id)
             \/ Decision(id, choice, to)
             \/ SetPolicy(id, to)
             \/ Cancel
      PROVE  FALSE
  BY <1>9 DEF Arm, Disarm, Decision, SetPolicy, Cancel, current
<1>10. CASE \E allow \in BOOLEAN : Permission(allow)
  BY <1>10 DEF Permission, current
<1>11. CASE UNCHANGED vars
  BY <1>11 DEF vars, current
<1>12. QED
  BY <1>3, <1>4, <1>5, <1>6, <1>7, <1>8, <1>9, <1>10, <1>11 DEF Next, TaskStep

\* Once the task is cancelled no step releases a call by a grant, the live policy,
\* full access or the server's option (confirm_assessed and the confirmers).
THEOREM CancelStopsRelease == Spec => NoAutomaticReleaseAfterCancel
<1>1. [Next]_vars =>
        [ApprovalCancelled /\ consent' # consent =>
           consent'.by \notin {"grant", "session", "full_access", "auto"}]_vars
  BY ReleaseReadsCancel
<1>2. QED
  BY <1>1, PTL DEF Spec, NoAutomaticReleaseAfterCancel
=============================================================================
