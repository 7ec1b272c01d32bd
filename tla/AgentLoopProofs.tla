-------------------------- MODULE AgentLoopProofs --------------------------
(***************************************************************************)
(* Proofs about one task of the agent (AgentLoop), for any budgets, any    *)
(* commands and any responses.                                             *)
(***************************************************************************)
EXTENDS AgentLoop, SequenceTheorems, TLAPS

LEMMA Numbers ==
  /\ EffectiveSteps \in Nat \ {0} /\ MaxToolCalls \in Nat \ {0} /\ SameRetries \in Nat \ {0}
  /\ ReplanAfter \in Nat \ {0} /\ AbortAfter \in Nat /\ ReplanAfter < AbortAfter
  /\ QueueLimit \in Nat
  BY AgentLoopAssumption DEF EffectiveSteps

\* The largest of some sizes that include 0 and are at most MaxBatch.
LEMMA LargestIsOne ==
  ASSUME NEW sizes \in SUBSET (0 .. MaxBatch), 0 \in sizes
  PROVE  Largest(sizes) \in sizes
<1>1. ASSUME NEW n \in sizes, \A m \in sizes : m <= n
      PROVE  Largest(sizes) \in sizes
  BY <1>1 DEF Largest
<1>2. CASE 4 \in sizes
  BY <1>1, <1>2 DEF MaxBatch
<1>3. CASE 4 \notin sizes /\ 3 \in sizes
  BY <1>1, <1>3 DEF MaxBatch
<1>4. CASE 4 \notin sizes /\ 3 \notin sizes /\ 2 \in sizes
  BY <1>1, <1>4 DEF MaxBatch
<1>5. CASE 4 \notin sizes /\ 3 \notin sizes /\ 2 \notin sizes /\ 1 \in sizes
  BY <1>1, <1>5 DEF MaxBatch
<1>6. CASE 4 \notin sizes /\ 3 \notin sizes /\ 2 \notin sizes /\ 1 \notin sizes
  BY <1>1, <1>6 DEF MaxBatch
<1>. QED  BY <1>2, <1>3, <1>4, <1>5, <1>6

\* A batch stays within the response, the batch limit and the call budget.
LEMMA BatchFits ==
  ASSUME TypeOK, at >= 1, at <= Len(calls), stats.used < MaxToolCalls
  PROVE  /\ BatchSize \in 0 .. MaxBatch
         /\ BatchSize <= MaxToolCalls - stats.used
         /\ at + BatchSize - 1 <= Len(calls)
<1>. DEFINE left == MaxToolCalls - stats.used
            capacity == IF left < MaxBatch THEN left ELSE MaxBatch
<1>0. MaxToolCalls \in Nat /\ stats.used \in 0 .. MaxToolCalls /\ at \in Nat
  BY AgentLoopAssumption DEF TypeOK, Stats
<1>7. left \in Nat /\ left >= 1
  BY <1>0
<1>1. capacity \in 0 .. MaxBatch /\ capacity <= left
  BY <1>7 DEF MaxBatch
<1>2. Len(calls) \in Nat
  BY DEF TypeOK
<1>3. 0 \in BatchSizes(capacity) /\ BatchSizes(capacity) \in SUBSET (0 .. MaxBatch)
  BY <1>0, <1>1 DEF BatchSizes, MaxBatch
<1>4. BatchSize \in BatchSizes(capacity)
  BY <1>3, LargestIsOne DEF BatchSize
<1>5. BatchSize = 0 \/ at + BatchSize - 1 <= Len(calls)
  BY <1>0, <1>1, <1>4 DEF BatchSizes, MaxBatch
<1>6. BatchSize \in 0 .. capacity
  BY <1>4 DEF BatchSizes
<1>. HIDE DEF left, capacity
<1>8. BatchSize \in 0 .. MaxBatch /\ BatchSize <= left
  BY <1>1, <1>6, <1>7 DEF MaxBatch
<1>. QED  BY <1>0, <1>2, <1>5, <1>8 DEF left, MaxBatch

----------------------------------------------------------------------------
(* Typing *)

\* Where the loop is agrees with the call in hand, a shell call in hand has a
\* command that is still allowed to run, and a task that goes on has not used
\* up what would have ended it.
InHand ==
  /\ (pc = "ended" <=> outcome # "running")
  /\ at = 0 => pc \notin {"next", "settle", "batch", "prepare", "assess"}
  /\ at # 0 => pc \notin {"step", "drain", "sleep", "resume", "ask"}
  /\ at # 0 /\ pc \in {"prepare", "assess", "confirm", "execute", "batch"} => at <= Len(calls)
  /\ pc = "assess" => IsShell
  /\ pc \in {"assess", "confirm", "execute"} /\ IsShell => command \in Commands
  /\ pc = "execute" /\ IsShell => history[command].repeats < SameRetries
  /\ pc = "sleep" => stats.used < MaxToolCalls
  /\ pc # "ended" => stats.stalled < AbortAfter /\ stats.invalid <= MaxInvalidRepairs

Typed == TypeOK /\ InHand

LEMMA TypedInit == Init => Typed
<1>. SUFFICES ASSUME Init PROVE Typed
  OBVIOUS
<1>1. stats \in Stats /\ round \in Round /\ transcript \in Transcript
  BY AgentLoopAssumption
     DEF Init, Stats, Round, Transcript, NoRound, MaxInvalidRepairs, EffectiveSteps
<1>2. history \in [Commands -> Repetition]
  BY AgentLoopAssumption DEF Init, Repetition
<1>3. TypeOK
  <2>1. log \in [Commands -> Seq(Outcomes)] /\ calls \in Seq(Commands \union Kinds)
    BY DEF Init
  <2>2. step \in 0 .. EffectiveSteps /\ pending \in 0 .. QueueLimit
    BY Numbers DEF Init
  <2>. QED  BY <1>1, <1>2, <2>1, <2>2 DEF Init, TypeOK, PC
<1>4. InHand
  BY AgentLoopAssumption DEF Init, InHand, MaxInvalidRepairs
<1>. QED  BY <1>3, <1>4 DEF Typed

\* The records after a step.
LEMMA StatsFields ==
  ASSUME NEW s \in Stats
  PROVE  /\ s.used \in 0 .. MaxToolCalls /\ s.steps \in 0 .. EffectiveSteps
         /\ s.stalled \in 0 .. AbortAfter /\ s.replans \in Nat
         /\ s.invalid \in 0 .. MaxInvalidRepairs + 1
  BY DEF Stats

LEMMA StatsUsed ==
  ASSUME NEW s \in Stats, NEW u \in 0 .. MaxToolCalls
  PROVE  /\ [s EXCEPT !.used = u] \in Stats
         /\ [s EXCEPT !.used = u].stalled = s.stalled
         /\ [s EXCEPT !.used = u].invalid = s.invalid
  BY DEF Stats

LEMMA RoundFields ==
  ASSUME NEW r \in Round
  PROVE  /\ r.calls \in Seq(Nat) /\ r.results \in Seq(Nat)
         /\ r.progress \in BOOLEAN /\ r.invalid \in BOOLEAN
  BY DEF Round

LEMMA Called ==
  ASSUME NEW r \in Round, NEW s \in Seq(Nat)
  PROVE  [r EXCEPT !.calls = s] \in Round
  BY DEF Round

LEMMA Refused ==
  ASSUME NEW r \in Round, NEW s \in Seq(Nat), NEW t \in Seq(Nat), NEW p \in BOOLEAN
  PROVE  [r EXCEPT !.calls = s, !.results = t, !.invalid = p] \in Round
  BY DEF Round

LEMMA Counted ==
  ASSUME NEW s \in Stats, NEW n \in 0 .. EffectiveSteps, NEW i \in 0 .. MaxInvalidRepairs + 1
  PROVE  [s EXCEPT !.steps = n, !.invalid = i] \in Stats
  BY DEF Stats

LEMMA Pushed ==
  ASSUME NEW r \in Round, NEW s \in Seq(Nat), NEW p \in BOOLEAN
  PROVE  [r EXCEPT !.results = s, !.progress = p] \in Round
  BY DEF Round

LEMMA Resumed ==
  ASSUME NEW t \in Transcript
  PROVE  [t EXCEPT !.resumed = @ + 1] \in Transcript
  BY DEF Transcript

\* A result is pushed at the position of the call in hand.
LEMMA ResultTyped ==
  ASSUME TypeOK, NEW progress \in BOOLEAN, Result(progress)
  PROVE  /\ round' \in Round /\ at' \in Nat /\ transcript' \in Transcript
         /\ (at' = 0 <=> at = 0)
<1>1. at \in Nat /\ round \in Round /\ transcript \in Transcript
  BY DEF TypeOK
<1>2. CASE at = 0
  BY <1>1, <1>2, Resumed DEF Result
<1>3. CASE at # 0
  <2>1. at' = at + 1 /\ transcript' = transcript
    BY <1>3 DEF Result
  <2>2. Append(round.results, at) \in Seq(Nat)
    BY <1>1 DEF Round
  <2>3. round' = [round EXCEPT !.results = Append(round.results, at),
                               !.progress = round.progress \/ progress]
    BY <1>3 DEF Result
  <2>4. round' \in Round
    BY <1>1, <2>2, <2>3, Pushed
  <2>. QED  BY <1>1, <1>3, <2>1, <2>4
<1>. QED  BY <1>2, <1>3

LEMMA TypedStep == Typed /\ [Next]_vars => Typed'
<1>. SUFFICES ASSUME Typed, [Next]_vars
             PROVE  Typed'
  OBVIOUS
<1>fields. /\ stats.used \in 0 .. MaxToolCalls /\ stats.stalled \in 0 .. AbortAfter
       /\ stats.invalid \in 0 .. MaxInvalidRepairs + 1 /\ stats.replans \in Nat
       /\ round.progress \in BOOLEAN /\ round.invalid \in BOOLEAN
       /\ stats \in Stats /\ round \in Round /\ step \in 0 .. EffectiveSteps
  BY StatsFields, RoundFields DEF Typed, TypeOK
<1>goesOn. pc # "ended" => stats.stalled < AbortAfter /\ stats.invalid <= MaxInvalidRepairs
  BY DEF Typed, InHand
<1>. USE DEF Typed, TypeOK, InHand, PC, Limits, Goto, End, frame, counters, response, ghosts
<1>1. CASE StepsUsedUp
  BY <1>1 DEF StepsUsedUp, StepLimit
<1>2. CASE BeginStep
  BY <1>2, Numbers DEF BeginStep
<1>3. CASE QueueDrained
  BY <1>3 DEF QueueDrained
<1>4. CASE PopContinuation
  <2>1. stats.used \in Nat /\ MaxToolCalls \in Nat
    BY Numbers DEF Stats
  <2>. QED  BY <1>4, <2>1, Numbers DEF PopContinuation
<1>5. CASE SleepTimedOut
  BY <1>5 DEF SleepTimedOut
<1>6. CASE Wake
  <2>1. CASE ~ cancel /\ ~ expired
    <3>1. stats' = [stats EXCEPT !.used = @ + 1] /\ stats.used < MaxToolCalls
      BY <1>6, <2>1 DEF Wake
    <3>2. stats' \in Stats /\ stats'.stalled = stats.stalled /\ stats'.invalid = stats.invalid
      <4>1. stats.used + 1 \in 0 .. MaxToolCalls
        <5>. HIDE DEF Typed
        <5>. QED  BY <1>fields, <3>1, Numbers
      <4>. QED  BY <3>1, <4>1, StatsUsed
    <3>. QED  BY <1>6, <2>1, <3>2 DEF Wake
  <2>2. CASE cancel \/ expired
    BY <1>6, <2>2 DEF Wake
  <2>. QED  BY <2>1, <2>2
<1>7. CASE ResumeRefused
  <2>1. round' \in Round /\ at' \in Nat /\ transcript' \in Transcript /\ (at' = 0 <=> at = 0)
    BY <1>7, ResultTyped DEF ResumeRefused
  <2>. QED  BY <1>7, <2>1 DEF ResumeRefused, Onward
<1>8. CASE ResumeOperation
  <2>1. at = 0 /\ ~ IsShell /\ ~ IsShell'
    BY <1>8, AgentLoopAssumption DEF ResumeOperation, IsShell, Call, AllKinds
  <2>. QED  BY <1>8, <2>1 DEF ResumeOperation, StartExecution
<1>9. CASE ModelInterrupted
  BY <1>9 DEF ModelInterrupted
<1>10. CASE LeaveCalls
  BY <1>10 DEF LeaveCalls, HasCall
<1>11. CASE StartBatch
  <2>0. at \in Nat \ {0} /\ at <= Len(calls) /\ stats.used < MaxToolCalls
    BY <1>11 DEF StartBatch, CanStartCall, HasCall
  <2>. DEFINE n == BatchSize
  <2>1. n \in Nat /\ n <= MaxToolCalls - stats.used
    BY <2>0, BatchFits DEF MaxBatch
  <2>2. stats' = [stats EXCEPT !.used = @ + n] /\ batch' = n
        /\ round' = [round EXCEPT !.calls = @ \o Positions(n)]
    BY <1>11 DEF StartBatch
  <2>3. Positions(n) \in Seq(Nat)
    BY <2>0, <2>1 DEF Positions
  <2>. HIDE DEF n
  <2>4. stats' \in Stats /\ stats'.stalled = stats.stalled /\ stats'.invalid = stats.invalid
    <3>1. stats.used + n \in 0 .. MaxToolCalls
      BY <2>1, StatsFields, Numbers
    <3>. QED  BY <2>2, <3>1, StatsUsed
  <2>5. round' \in Round
    <3>1. round.calls \o Positions(n) \in Seq(Nat)
      BY <2>3, RoundFields
    <3>. QED  BY <2>2, <3>1, Called
  <2>6. pc' = "batch" /\ outcome' = outcome /\ pc = "next" /\ late' \in Nat
    BY <1>11 DEF StartBatch, CanStartCall, HasCall
  <2>. QED  BY <1>11, <2>0, <2>1, <2>2, <2>4, <2>5, <2>6 DEF StartBatch
<1>12. CASE StartCall
  <2>0. at \in Nat \ {0} /\ at <= Len(calls) /\ stats.used < MaxToolCalls
    BY <1>12 DEF StartCall, CanStartCall, HasCall
  <2>1. stats' \in Stats /\ stats'.stalled = stats.stalled /\ stats'.invalid = stats.invalid
    <3>1. stats.used + 1 \in 0 .. MaxToolCalls /\ stats' = [stats EXCEPT !.used = stats.used + 1]
      <4>. HIDE DEF Typed, TypeOK
      <4>1. stats' = [stats EXCEPT !.used = stats.used + 1]
        BY <1>12 DEF StartCall
      <4>2. stats.used + 1 \in 0 .. MaxToolCalls
        BY <1>fields, <2>0, Numbers
      <4>. QED  BY <4>1, <4>2
    <3>. QED  BY <3>1, StatsUsed
  <2>2. CASE Call \in {"invalid", "unknown"}
    <3>1. /\ round' = [round EXCEPT !.calls = Append(@, at), !.results = Append(@, at),
                                    !.invalid = @ \/ Call = "invalid"]
          /\ at' = at + 1 /\ Goto("next")
      BY <1>12, <2>2 DEF StartCall
    <3>2. /\ Append(round.calls, at) \in Seq(Nat) /\ Append(round.results, at) \in Seq(Nat)
          /\ (round.invalid \/ Call = "invalid") \in BOOLEAN
      BY <2>0, RoundFields
    <3>3. round' \in Round
      BY <3>1, <3>2, Refused
    <3>4. pc = "next"
      BY <1>12 DEF StartCall, CanStartCall, HasCall
    <3>. QED  BY <1>12, <2>0, <2>1, <3>1, <3>3, <3>4 DEF StartCall
  <2>3. CASE Call \notin {"invalid", "unknown"}
    <3>1. round' = [round EXCEPT !.calls = Append(@, at)] /\ at' = at /\ Goto("prepare")
      BY <1>12, <2>3 DEF StartCall
    <3>2. Append(round.calls, at) \in Seq(Nat)
      BY <2>0, RoundFields
    <3>3. round' \in Round
      BY <3>1, <3>2, Called
    <3>4. pc = "next"
      BY <1>12 DEF StartCall, CanStartCall, HasCall
    <3>. QED  BY <1>12, <2>0, <2>1, <3>1, <3>3, <3>4 DEF StartCall
  <2>. QED  BY <2>2, <2>3
<1>13. CASE BatchTimedOut
  <2>1. Positions(batch) \in Seq(Nat) /\ at + batch \in Nat
    BY DEF Positions
  <2>2. round' \in Round
    <3>1. round.results \o Positions(batch) \in Seq(Nat)
      BY <2>1 DEF Round
    <3>. QED  BY <1>13, <3>1 DEF BatchTimedOut, Round
  <2>. QED  BY <1>13, <2>1, <2>2 DEF BatchTimedOut
<1>14. CASE BatchCancelled
  BY <1>14 DEF BatchCancelled
<1>15. ASSUME NEW progress \in BOOLEAN, BatchDone(progress)
      PROVE  Typed'
  <2>1. Positions(batch) \in Seq(Nat) /\ at + batch \in Nat
    BY DEF Positions
  <2>2. round' \in Round
    <3>1. round.results \o Positions(batch) \in Seq(Nat)
      BY <2>1 DEF Round
    <3>2. round' = [round EXCEPT !.results = @ \o Positions(batch), !.progress = @ \/ progress]
      BY <1>15 DEF BatchDone
    <3>3. (round.progress \/ progress) \in BOOLEAN
      OBVIOUS
    <3>. DEFINE s == round.results \o Positions(batch)
                p == round.progress \/ progress
    <3>4. s \in Seq(Nat) /\ p \in BOOLEAN /\ round \in Round
      BY <1>fields, <3>1, <3>3
    <3>5. round' = [round EXCEPT !.results = s, !.progress = p]
      BY <3>2
    <3>. HIDE DEF s, p, Typed, TypeOK, InHand
    <3>6. [round EXCEPT !.results = s, !.progress = p] \in Round
      BY <3>4 DEF Round
    <3>. QED  BY <3>5, <3>6
  <2>3. /\ at' = at + batch /\ pc' \in {"next", "settle"} /\ pc = "batch"
        /\ stopped' \in {stopped, "ExecutionTime"}
        /\ UNCHANGED <<cancel, expired, counters, calls, batch, outcome, command, history,
                       transcript, ghosts>>
    BY <1>15 DEF BatchDone
  <2>4. TypeOK'
    BY <2>1, <2>2, <2>3
  <2>5. InHand'
    BY <2>1, <2>3
  <2>. QED  BY <2>4, <2>5
<1>16. CASE PrepareCancelled
  BY <1>16 DEF PrepareCancelled
<1>17. CASE PrepareFails
  <2>1. round' \in Round /\ at' \in Nat /\ transcript' \in Transcript /\ (at' = 0 <=> at = 0)
    BY <1>17, ResultTyped DEF PrepareFails
  <2>. QED  BY <1>17, <2>1 DEF PrepareFails, Onward
<1>18. CASE PrepareOperation
  <2>1. ~ IsShell /\ ~ IsShell'
    BY <1>18, AgentLoopAssumption DEF PrepareOperation, IsShell, Call, AllKinds, Parallel
  <2>. QED  BY <1>18, <2>1 DEF PrepareOperation, StartExecution
<1>19. CASE PrepareShell
  <2>1. IsShell /\ IsShell'
    BY <1>19 DEF PrepareShell, IsShell, Call
  <2>. QED  BY <1>19, <2>1 DEF PrepareShell
<1>20. CASE AskToConfirm
  <2>1. IsShell <=> IsShell'
    BY <1>20 DEF AskToConfirm, IsShell, Call
  <2>. QED  BY <1>20, <2>1 DEF AskToConfirm
<1>21. CASE NoConfirmation
  <2>1. at # 0 /\ IsShell
    BY <1>21 DEF NoConfirmation
  <2>2. CASE IsBlocked /\ Result(FALSE) /\ Onward /\ UNCHANGED <<stopped, late>>
    <3>1. round' \in Round /\ at' \in Nat /\ transcript' \in Transcript /\ (at' = 0 <=> at = 0)
      BY <2>2, ResultTyped
    <3>. QED  BY <1>21, <2>2, <3>1 DEF NoConfirmation, Onward
  <2>3. CASE /\ Result(FALSE) /\ stopped' = "ExecutionTime"
             /\ Goto("settle") /\ UNCHANGED late
    <3>1. round' \in Round /\ at' \in Nat /\ transcript' \in Transcript /\ (at' = 0 <=> at = 0)
      BY <2>3, ResultTyped
    <3>. QED  BY <1>21, <2>1, <2>3, <3>1 DEF NoConfirmation
  <2>4. CASE ~ IsBlocked /\ StartExecution /\ UNCHANGED <<at, round, stopped, transcript>>
    BY <1>21, <2>1, <2>4, Numbers DEF NoConfirmation, StartExecution, IsBlocked, IsShell,
         Call, Repetition
  <2>5. CASE End("error") /\ UNCHANGED <<late, at, round, stopped, transcript>>
    BY <1>21, <2>5 DEF NoConfirmation
  <2>. QED  BY <1>21, <2>2, <2>3, <2>4, <2>5 DEF NoConfirmation, AfterConfirmation
<1>22. ASSUME NEW ok \in BOOLEAN, OperationDone(ok)
      PROVE  Typed'
  <2>1. round' \in Round /\ at' \in Nat /\ transcript' \in Transcript /\ (at' = 0 <=> at = 0)
    BY <1>22, ResultTyped DEF OperationDone
  <2>2. pending' \in 0 .. QueueLimit
    BY <1>22, Numbers DEF OperationDone
  <2>. QED  BY <1>22, <2>1, <2>2 DEF OperationDone, Onward
<1>23. ASSUME NEW ok \in BOOLEAN, BackgroundStarted(ok)
      PROVE  Typed'
  <2>1. round' \in Round /\ at' \in Nat /\ transcript' \in Transcript /\ (at' = 0 <=> at = 0)
    BY <1>23, ResultTyped DEF BackgroundStarted
  <2>. QED  BY <1>23, <2>1 DEF BackgroundStarted, Onward
<1>24. CASE CommandFails
  <2>1. IsShell /\ at # 0 /\ command \in Commands /\ history[command].repeats < SameRetries
    BY <1>24, AgentLoopAssumption DEF CommandFails, IsShell, Call, AllKinds
  <2>2. round' \in Round /\ at' \in Nat /\ transcript' \in Transcript /\ (at' = 0 <=> at = 0)
    BY <1>24, ResultTyped DEF CommandFails
  <2>. QED  BY <1>24, <2>1, <2>2 DEF CommandFails, ThenTime
<1>25. ASSUME NEW result \in Outcomes, CommandDone(result)
      PROVE  Typed'
  <2>1. IsShell /\ at # 0 /\ command \in Commands /\ history[command].repeats < SameRetries
    BY <1>25, AgentLoopAssumption DEF CommandDone, IsShell, Call, AllKinds
  <2>2. Repeats(result) \in 1 .. SameRetries
    BY <2>1, Numbers DEF Repeats, Repetition
  <2>3. history' \in [Commands -> Repetition] /\ log' \in [Commands -> Seq(Outcomes)]
    BY <1>25, <2>1, <2>2 DEF CommandDone, Repetition
  <2>4. round' \in Round /\ at' \in Nat /\ transcript' \in Transcript /\ (at' = 0 <=> at = 0)
    BY <1>25, ResultTyped DEF CommandDone
  <2>. QED  BY <1>25, <2>1, <2>3, <2>4 DEF CommandDone, ThenTime
<1>26. ASSUME NEW result \in Outcomes, CommandInterrupted(result)
      PROVE  Typed'
  <2>1. IsShell /\ at # 0 /\ command \in Commands /\ history[command].repeats < SameRetries
    BY <1>26, AgentLoopAssumption DEF CommandInterrupted, IsShell, Call, AllKinds
  <2>2. Repeats(result) \in 1 .. SameRetries
    BY <2>1, Numbers DEF Repeats, Repetition
  <2>3. history' \in [Commands -> Repetition] /\ log' \in [Commands -> Seq(Outcomes)]
    BY <1>26, <2>1, <2>2 DEF CommandInterrupted, Repetition
  <2>4. CASE cancel
    <3>1. round' \in Round /\ at' \in Nat /\ transcript' \in Transcript /\ (at' = 0 <=> at = 0)
      BY <1>26, <2>4, ResultTyped DEF CommandInterrupted
    <3>. QED  BY <1>26, <2>1, <2>3, <2>4, <3>1 DEF CommandInterrupted
  <2>5. CASE ~ cancel
    BY <1>26, <2>3, <2>5 DEF CommandInterrupted
  <2>. QED  BY <2>4, <2>5
<1>27. CASE EmptyRound
  BY <1>27 DEF EmptyRound, Limit, StepLimit
<1>28. CASE RecordRound
  <2>. DEFINE i == InvalidRounds
              d == Stalled
  <2>1. transcript' \in Transcript
    <3>1. transcript.rounds + 1 \in Nat /\ transcript.calls + Len(round.calls) \in Nat
      BY RoundFields DEF Transcript
    <3>. QED  BY <1>28, <3>1 DEF RecordRound, Transcript
  <2>2. round' \in Round
    BY <1>28 DEF RecordRound, Round, NoRound
  <2>3. i \in 0 .. MaxInvalidRepairs + 1 /\ d \in 0 .. AbortAfter
    <3>1. pc # "ended"
      BY <1>28 DEF RecordRound
    <3>. HIDE DEF Typed
    <3>. QED  BY <1>fields, <1>goesOn, <3>1, Numbers DEF InvalidRounds, Stalled, MaxInvalidRepairs
  <2>4. round.progress => d = 0
    BY DEF Stalled
  <2>5. CASE i > MaxInvalidRepairs \/ stopped # None
    <3>1. /\ stats' = [stats EXCEPT !.steps = step, !.invalid = i]
          /\ End(IF i > MaxInvalidRepairs THEN "failed" ELSE stopped)
          /\ UNCHANGED <<stopped, warned>>
      BY <1>28, <2>5 DEF RecordRound
    <3>2. stats' \in Stats
      BY <2>3, <3>1, Counted
    <3>. QED  BY <1>28, <2>1, <2>2, <2>5, <3>1, <3>2 DEF RecordRound
  <2>6. CASE ~ (i > MaxInvalidRepairs \/ stopped # None)
    <3>. DEFINE r == IF MustReplan THEN stats.replans + 1 ELSE stats.replans
    <3>1. CountRound
      BY <1>28, <2>6 DEF RecordRound
    <3>2. stats' = [stats EXCEPT !.steps = step, !.invalid = i, !.stalled = d, !.replans = r]
      BY <3>1 DEF CountRound
    <3>3. r \in Nat
      BY StatsFields
    <3>4. stats' \in Stats /\ stats'.stalled = d /\ stats'.invalid = i
      <4>. HIDE DEF r, d, i, Typed
      <4>. QED  BY <1>fields, <2>3, <3>2, <3>3 DEF Stats
    <3>5. i <= MaxInvalidRepairs
      BY <2>3, <2>6 DEF MaxInvalidRepairs
    <3>6. IF d >= AbortAfter /\ ~ round.progress
            THEN stopped' = "Stalled" /\ End("Stalled")
            ELSE UNCHANGED stopped /\ Goto("step")
      BY <3>1 DEF CountRound
    <3>7. warned' \in BOOLEAN
      BY <3>1 DEF CountRound
    <3>8. pc' # "ended" => d < AbortAfter
      BY <2>3, <2>4, <3>6, Numbers
    <3>. HIDE DEF r, d, i
    <3>. QED  BY <1>28, <2>1, <2>2, <3>4, <3>5, <3>6, <3>7, <3>8 DEF RecordRound
  <2>. QED  BY <2>5, <2>6
<1>29. CASE ModelAnswers
  <2>1. stats' \in Stats
    BY <1>29, Numbers DEF ModelAnswers, Stats
  <2>2. stats'.stalled = stats.stalled /\ stats'.invalid = stats.invalid
    BY <1>29 DEF ModelAnswers, Stats
  <2>. QED  BY <1>29, <2>1, <2>2, Numbers DEF ModelAnswers
<1>30. CASE ModelFails
  BY <1>30 DEF ModelFails
<1>31. ASSUME NEW asked \in Responses, ModelCalls(asked)
      PROVE  Typed'
  <2>1. calls' \in Seq(Commands \union Kinds)
    <3>1. PICK n \in 1 .. MaxCalls : asked \in [1 .. n -> Commands \union Kinds]
      BY DEF Responses
    <3>2. asked \in Seq(Commands \union Kinds)
      BY <3>1
    <3>. QED  BY <1>31, <3>2 DEF ModelCalls
  <2>2. round' \in Round
    BY <1>31 DEF ModelCalls, NoRound, Round
  <2>. QED  BY <1>31, <2>1, <2>2 DEF ModelCalls
<1>32. CASE CancelTask
  BY <1>32 DEF CancelTask, IsShell, Call
<1>33. CASE Approve
  <2>0. CASE ~ IsShell
    <3>1. StartExecution /\ ~ IsShell'
      BY <1>33, <2>0 DEF Approve, IsShell, Call
    <3>. QED  BY <1>33, <2>0, <3>1 DEF Approve, StartExecution
  <2>. SUFFICES ASSUME IsShell PROVE Typed'
    BY <2>0
  <2>1. at # 0 /\ IsShell
    BY AgentLoopAssumption DEF IsShell, Call, AllKinds
  <2>2. CASE IsBlocked /\ Result(FALSE) /\ Onward /\ UNCHANGED <<stopped, late>>
    <3>1. round' \in Round /\ at' \in Nat /\ transcript' \in Transcript /\ (at' = 0 <=> at = 0)
      BY <2>2, ResultTyped
    <3>. QED  BY <1>33, <2>2, <3>1 DEF Approve, Onward
  <2>3. CASE /\ Result(FALSE) /\ stopped' = "ExecutionTime"
             /\ Goto("settle") /\ UNCHANGED late
    <3>1. round' \in Round /\ at' \in Nat /\ transcript' \in Transcript /\ (at' = 0 <=> at = 0)
      BY <2>3, ResultTyped
    <3>. QED  BY <1>33, <2>1, <2>3, <3>1 DEF Approve
  <2>4. CASE ~ IsBlocked /\ StartExecution /\ UNCHANGED <<at, round, stopped, transcript>>
    BY <1>33, <2>1, <2>4, Numbers DEF Approve, StartExecution, IsBlocked, IsShell, Call, Repetition
  <2>5. CASE End("error") /\ UNCHANGED <<late, at, round, stopped, transcript>>
    BY <1>33, <2>5 DEF Approve
  <2>. QED  BY <1>33, <2>2, <2>3, <2>4, <2>5 DEF Approve, AfterConfirmation
<1>34. CASE Reject
  <2>1. round' \in Round /\ at' \in Nat /\ transcript' \in Transcript /\ (at' = 0 <=> at = 0)
    BY <1>34, ResultTyped DEF Reject
  <2>. QED  BY <1>34, <2>1 DEF Reject, Onward
<1>35. CASE ConfirmFails
  BY <1>35 DEF ConfirmFails
<1>36. ASSUME NEW edited \in Commands, Edit(edited)
      PROVE  Typed'
  <2>1. IsShell /\ IsShell'
    BY <1>36 DEF Edit, IsShell, Call
  <2>2. at # 0
    BY AgentLoopAssumption, <2>1 DEF IsShell, Call, AllKinds
  <2>. QED  BY <1>36, <2>1, <2>2 DEF Edit
<1>37. CASE Expire
  BY <1>37 DEF Expire, IsShell, Call
<1>38. CASE UNCHANGED vars
  BY <1>38 DEF vars, IsShell, Call
<1>. QED
  BY <1>1, <1>2, <1>3, <1>4, <1>5, <1>6, <1>7, <1>8, <1>9, <1>10, <1>11, <1>12, <1>13, <1>14,
       <1>15, <1>16, <1>17, <1>18, <1>19, <1>20, <1>21, <1>22, <1>23, <1>24, <1>25, <1>26,
       <1>27, <1>28, <1>29, <1>30, <1>31, <1>32, <1>33, <1>34, <1>35, <1>36, <1>37, <1>38 DEF
       Next, Loop, Tool, Provider, Person

THEOREM TypeCorrect == Spec => []TypeOK
<1>1. Typed => TypeOK
  BY DEF Typed
<1>. QED  BY TypedInit, TypedStep, <1>1, PTL DEF Spec

----------------------------------------------------------------------------
(* Rounds *)

Ordered(s) == \A i \in 1 .. Len(s) : s[i] = i

\* The calls recorded so far are the first ones of the response and so are the
\* results; while a call or a batch is in hand it is recorded but has none.
Paired ==
  /\ Ordered(round.calls) /\ Ordered(round.results)
  /\ Len(round.calls) <= Len(calls)
  /\ at = 0 => round.calls = <<>> /\ round.results = <<>>
  /\ at # 0 /\ pc \in {"next", "settle"} =>
       Len(round.calls) = at - 1 /\ Len(round.results) = at - 1
  /\ at # 0 /\ pc \in {"prepare", "assess", "confirm", "execute"} =>
       Len(round.calls) = at /\ Len(round.results) = at - 1
  /\ pc = "batch" => Len(round.calls) = at - 1 + batch /\ Len(round.results) = at - 1

LEMMA PositionsFollow ==
  ASSUME at \in Nat \ {0}, NEW n \in Nat, NEW s \in Seq(Nat), Ordered(s), Len(s) = at - 1
  PROVE  Ordered(s \o Positions(n)) /\ Len(s \o Positions(n)) = at - 1 + n
<1>1. Positions(n) \in Seq(Nat) /\ Len(Positions(n)) = n
      /\ \A i \in 1 .. n : Positions(n)[i] = at + i - 1
  BY DEF Positions
<1> HIDE DEF Positions
<1>2. Len(s \o Positions(n)) = at - 1 + n
  <2>1. Len(s \o Positions(n)) = Len(s) + Len(Positions(n))
    BY <1>1, ConcatProperties
  <2>. QED  BY <1>1, <2>1
<1>3. ASSUME NEW i \in 1 .. at - 1 + n
      PROVE  (s \o Positions(n))[i] = i
  <2>1. CASE i <= at - 1
    BY <1>1, <2>1 DEF Ordered
  <2>2. CASE i > at - 1
    <3>1. i - (at - 1) \in 1 .. n
      BY <2>2
    <3>. QED  BY <1>1, <2>2, <3>1
  <2>3. i <= at - 1 \/ i > at - 1
    BY <1>3
  <2>. QED  BY <2>1, <2>2, <2>3
<1>. QED  BY <1>2, <1>3 DEF Ordered

LEMMA AppendOrdered ==
  ASSUME at \in Nat \ {0}, NEW s \in Seq(Nat), Ordered(s), Len(s) = at - 1
  PROVE  Ordered(Append(s, at)) /\ Len(Append(s, at)) = at
  BY DEF Ordered

\* What a result does to a round in which the call in hand was the last one.
LEMMA ResultPaired ==
  ASSUME Typed, Paired, NEW progress \in BOOLEAN, Result(progress),
         pc \in {"resume", "prepare", "assess", "confirm", "execute"}
  PROVE  /\ Ordered(round'.calls) /\ Ordered(round'.results)
         /\ at = 0 => at' = 0 /\ round' = round
         /\ at # 0 => /\ at' = at + 1
                      /\ Len(round'.calls) = at /\ Len(round'.results) = at
<1>1. round \in Round /\ at \in Nat
  BY DEF Typed, TypeOK
<1>2. CASE at = 0
  BY <1>2 DEF Result, Paired
<1>3. CASE at # 0
  <2>1. Len(round.calls) = at /\ Len(round.results) = at - 1
    BY <1>3 DEF Typed, InHand, Paired
  <2>2. Ordered(Append(round.results, at)) /\ Len(Append(round.results, at)) = at
    BY <1>1, <2>1, RoundFields DEF Ordered, Paired
  <2>3. round'.results = Append(round.results, at) /\ round'.calls = round.calls /\ at' = at + 1
    BY <1>1, <1>3 DEF Result, Round
  <2>. QED  BY <1>3, <2>1, <2>2, <2>3 DEF Paired
<1>. QED  BY <1>2, <1>3

\* A result leaves the round between two calls, or the loop in the queue.
LEMMA ResultKeepsPaired ==
  ASSUME Typed, Paired, NEW progress \in BOOLEAN, Result(progress),
         pc \in {"resume", "prepare", "assess", "confirm", "execute"},
         pc' \in {"next", "settle", "drain"}, at = 0 => pc' = "drain",
         calls' = calls, batch' = batch
  PROVE  Paired'
<1>1. at \in Nat /\ Len(calls) \in Nat
  BY DEF Typed, TypeOK
<1>2. CASE at = 0
  BY <1>2, ResultPaired DEF Paired
<1>3. CASE at # 0
  <2>1. /\ Ordered(round'.calls) /\ Ordered(round'.results) /\ at' = at + 1
        /\ Len(round'.calls) = at /\ Len(round'.results) = at
    BY <1>3, ResultPaired
  <2>2. at <= Len(calls)
    BY <1>3 DEF Typed, InHand, Paired
  <2>3. at' # 0 /\ at' - 1 = at
    BY <1>1, <2>1
  <2>. QED  BY <1>1, <2>1, <2>2, <2>3 DEF Paired
<1>. QED  BY <1>2, <1>3

LEMMA AfterKeepsPaired ==
  ASSUME Typed, Paired, AfterConfirmation, pc \in {"assess", "confirm"}, at # 0,
         calls' = calls, batch' = batch
  PROVE  Paired'
<1>1. CASE Result(FALSE) /\ Onward
  BY <1>1, ResultKeepsPaired DEF Onward, Goto
<1>2. CASE Result(FALSE) /\ Goto("settle")
  BY <1>2, ResultKeepsPaired DEF Goto
<1>3. CASE StartExecution /\ UNCHANGED <<at, round>>
  BY <1>3 DEF StartExecution, Goto, Paired
<1>4. CASE End("error") /\ UNCHANGED <<at, round>>
  BY <1>4 DEF End, Paired
<1>. QED  BY <1>1, <1>2, <1>3, <1>4 DEF AfterConfirmation

LEMMA PairedStep == Typed /\ Paired /\ [Next]_vars => Paired'
<1>. SUFFICES ASSUME Typed, Paired, [Next]_vars
             PROVE  Paired'
  OBVIOUS
<1>fields. /\ round \in Round /\ at \in Nat /\ batch \in Nat
           /\ calls \in Seq(Commands \union Kinds)
           /\ round.calls \in Seq(Nat) /\ round.results \in Seq(Nat)
  BY RoundFields DEF Typed, TypeOK
<1>. USE <1>fields DEF Paired, InHand, Goto, End, frame, counters, response, ghosts
<1>. USE DEF Typed
<1>. HIDE DEF TypeOK
<1>1. CASE StepsUsedUp
  BY <1>1 DEF StepsUsedUp, StepLimit
<1>2. CASE BeginStep
  BY <1>2 DEF BeginStep
<1>3. CASE QueueDrained
  BY <1>3 DEF QueueDrained
<1>4. CASE PopContinuation
  BY <1>4 DEF PopContinuation
<1>5. CASE SleepTimedOut
  BY <1>5 DEF SleepTimedOut
<1>6. CASE Wake
  BY <1>6 DEF Wake
<1>7. CASE ResumeRefused
  BY <1>7, ResultKeepsPaired DEF ResumeRefused, Onward
<1>8. CASE ResumeOperation
  BY <1>8 DEF ResumeOperation, StartExecution
<1>9. CASE ModelInterrupted
  BY <1>9 DEF ModelInterrupted
<1>10. CASE LeaveCalls
  BY <1>10 DEF LeaveCalls, HasCall
<1>11. CASE StartBatch
  <2>1. at \in Nat \ {0} /\ at <= Len(calls) /\ stats.used < MaxToolCalls
    BY <1>11 DEF StartBatch, CanStartCall, HasCall
  <2>2. BatchSize \in Nat /\ at + BatchSize - 1 <= Len(calls)
    BY <2>1, BatchFits DEF MaxBatch
  <2>3. round' = [round EXCEPT !.calls = @ \o Positions(BatchSize)] /\ batch' = BatchSize
    BY <1>11 DEF StartBatch
  <2>. DEFINE n == BatchSize
  <2>4. Ordered(round.calls \o Positions(n)) /\ Len(round.calls \o Positions(n)) = at - 1 + n
    BY <1>11, <2>1, <2>2, PositionsFollow DEF StartBatch, CanStartCall, HasCall
  <2>5. round'.calls = round.calls \o Positions(n) /\ round'.results = round.results
    BY <2>3 DEF Round
  <2>. HIDE DEF n
  <2>. QED  BY <1>11, <2>1, <2>2, <2>3, <2>4, <2>5 DEF StartBatch, CanStartCall, HasCall, n
<1>12. CASE StartCall
  <2>1. at \in Nat \ {0} /\ at <= Len(calls) /\ pc = "next"
    BY <1>12 DEF StartCall, CanStartCall, HasCall
  <2>5. Len(round.calls) = at - 1 /\ Len(round.results) = at - 1
    BY <2>1
  <2>2. /\ Ordered(Append(round.calls, at)) /\ Len(Append(round.calls, at)) = at
        /\ Ordered(Append(round.results, at)) /\ Len(Append(round.results, at)) = at
    BY <2>1, <2>5, AppendOrdered
  <2>3. CASE Call \in {"invalid", "unknown"}
    <3>1. /\ round'.calls = Append(round.calls, at) /\ round'.results = Append(round.results, at)
          /\ at' = at + 1 /\ Goto("next") /\ calls' = calls /\ batch' = batch
      BY <1>12, <2>3 DEF StartCall, Round
    <3>. QED  BY <2>1, <2>2, <3>1
  <2>4. CASE Call \notin {"invalid", "unknown"}
    <3>1. /\ round'.calls = Append(round.calls, at) /\ round'.results = round.results
          /\ at' = at /\ Goto("prepare") /\ calls' = calls /\ batch' = batch
      BY <1>12, <2>4 DEF StartCall, Round
    <3>. QED  BY <2>1, <2>2, <3>1
  <2>. QED  BY <2>3, <2>4
<1>13. CASE BatchTimedOut
  <2>. DEFINE results == round.results \o Positions(batch)
  <2>1. pc = "batch" /\ at \in Nat \ {0} /\ batch \in Nat
    BY <1>13 DEF BatchTimedOut
  <2>2. Ordered(results) /\ Len(results) = at - 1 + batch
    BY <2>1, PositionsFollow
  <2>3. round'.results = results /\ round'.calls = round.calls
    BY <1>13 DEF BatchTimedOut, Round
  <2>4. at' = at + batch /\ pc' \in {"settle", "next"} /\ calls' = calls
    BY <1>13 DEF BatchTimedOut
  <2>. HIDE DEF results
  <2>. QED  BY <2>1, <2>2, <2>3, <2>4
<1>14. CASE BatchCancelled
  BY <1>14 DEF BatchCancelled
<1>15. ASSUME NEW progress \in BOOLEAN, BatchDone(progress)
      PROVE  Paired'
  <2>. DEFINE results == round.results \o Positions(batch)
  <2>1. pc = "batch" /\ at \in Nat \ {0} /\ batch \in Nat
    BY <1>15 DEF BatchDone
  <2>2. Ordered(results) /\ Len(results) = at - 1 + batch
    BY <2>1, PositionsFollow
  <2>3. round'.results = results /\ round'.calls = round.calls
    BY <1>15 DEF BatchDone, Round
  <2>4. at' = at + batch /\ pc' \in {"settle", "next"} /\ calls' = calls
    BY <1>15 DEF BatchDone
  <2>. HIDE DEF results
  <2>. QED  BY <2>1, <2>2, <2>3, <2>4
<1>16. CASE PrepareCancelled
  BY <1>16 DEF PrepareCancelled
<1>17. CASE PrepareFails
  BY <1>17, ResultKeepsPaired DEF PrepareFails, Onward
<1>18. CASE PrepareOperation
  BY <1>18 DEF PrepareOperation, StartExecution, Call
<1>19. CASE PrepareShell
  BY <1>19 DEF PrepareShell, Call
<1>20. CASE AskToConfirm
  BY <1>20 DEF AskToConfirm
<1>21. CASE NoConfirmation
  BY <1>21, AfterKeepsPaired DEF NoConfirmation
<1>22. ASSUME NEW ok \in BOOLEAN, OperationDone(ok)
      PROVE  Paired'
  BY <1>22, ResultKeepsPaired DEF OperationDone, Onward
<1>23. ASSUME NEW ok \in BOOLEAN, BackgroundStarted(ok)
      PROVE  Paired'
  BY <1>23, ResultKeepsPaired DEF BackgroundStarted, Onward
<1>24. CASE CommandFails
  <2>1. at # 0
    BY <1>24, AgentLoopAssumption DEF CommandFails, Call, AllKinds
  <2>. QED  BY <1>24, <2>1, ResultKeepsPaired DEF CommandFails, ThenTime
<1>25. ASSUME NEW result \in Outcomes, CommandDone(result)
      PROVE  Paired'
  <2>1. at # 0
    BY <1>25, AgentLoopAssumption DEF CommandDone, Call, AllKinds
  <2>. QED  BY <1>25, <2>1, ResultKeepsPaired DEF CommandDone, ThenTime
<1>26. ASSUME NEW result \in Outcomes, CommandInterrupted(result)
      PROVE  Paired'
  <2>1. at # 0
    BY <1>26, AgentLoopAssumption DEF CommandInterrupted, Call, AllKinds
  <2>2. CASE cancel
    BY <1>26, <2>1, <2>2, ResultKeepsPaired DEF CommandInterrupted
  <2>3. CASE ~ cancel
    BY <1>26, <2>3 DEF CommandInterrupted
  <2>. QED  BY <2>2, <2>3
<1>27. CASE EmptyRound
  BY <1>27 DEF EmptyRound, Limit, StepLimit
<1>28. CASE RecordRound
  BY <1>28 DEF RecordRound, CountRound, NoRound, Ordered
<1>29. CASE ModelAnswers
  BY <1>29 DEF ModelAnswers
<1>30. CASE ModelFails
  BY <1>30 DEF ModelFails
<1>31. ASSUME NEW asked \in Responses, ModelCalls(asked)
      PROVE  Paired'
  <2>1. calls' \in Seq(Commands \union Kinds)
    BY <1>31 DEF ModelCalls, Responses
  <2>. QED  BY <1>31, <2>1 DEF ModelCalls, NoRound, Ordered
<1>32. CASE CancelTask
  BY <1>32 DEF CancelTask
<1>33. CASE Approve
  <2>1. CASE IsShell
    <3>1. at # 0
      BY <2>1, AgentLoopAssumption DEF IsShell, Call, AllKinds
    <3>. QED  BY <1>33, <2>1, <3>1, AfterKeepsPaired DEF Approve
  <2>2. CASE ~ IsShell
    BY <1>33, <2>2 DEF Approve, StartExecution
  <2>. QED  BY <2>1, <2>2
<1>34. CASE Reject
  BY <1>34, ResultKeepsPaired DEF Reject, Onward
<1>35. CASE ConfirmFails
  BY <1>35 DEF ConfirmFails
<1>36. ASSUME NEW edited \in Commands, Edit(edited)
      PROVE  Paired'
  BY <1>36 DEF Edit
<1>37. CASE Expire
  BY <1>37 DEF Expire
<1>38. CASE UNCHANGED vars
  BY <1>38 DEF vars
<1>. QED
  BY <1>1, <1>2, <1>3, <1>4, <1>5, <1>6, <1>7, <1>8, <1>9, <1>10, <1>11, <1>12, <1>13, <1>14,
       <1>15, <1>16, <1>17, <1>18, <1>19, <1>20, <1>21, <1>22, <1>23, <1>24, <1>25, <1>26,
       <1>27, <1>28, <1>29, <1>30, <1>31, <1>32, <1>33, <1>34, <1>35, <1>36, <1>37, <1>38 DEF
       Next, Loop, Tool, Provider, Person

\* Every recorded round has one result for each of its calls, in the order of
\* the response, whichever way its calls were left.
THEOREM RoundsPaired == Spec => []RoundsArePaired
<1>1. Init => Paired
  BY DEF Init, Paired, Ordered, NoRound
<1>2. Typed /\ Paired => RoundsArePaired
  <2>. SUFFICES ASSUME Typed, Paired, pc = "settle"
               PROVE  /\ round.results = round.calls
                      /\ Len(round.calls) <= Len(calls)
                      /\ \A i \in 1 .. Len(round.calls) : round.calls[i] = i
    BY DEF RoundsArePaired
  <2>1. round.calls \in Seq(Nat) /\ round.results \in Seq(Nat) /\ at # 0
    BY RoundFields DEF Typed, TypeOK, InHand
  <2>2. Len(round.calls) = Len(round.results) /\ Ordered(round.calls) /\ Ordered(round.results)
    BY <2>1 DEF Paired
  <2>3. round.results = round.calls
    <3>1. \A i \in 1 .. Len(round.results) : round.results[i] = round.calls[i]
      BY <2>1, <2>2 DEF Ordered
    <3>. QED  BY <2>1, <2>2, <3>1, SeqEqual
  <2>4. Len(round.calls) <= Len(calls)
    BY DEF Paired
  <2>5. \A i \in 1 .. Len(round.calls) : round.calls[i] = i
    BY <2>2 DEF Ordered
  <2>. QED  BY <2>3, <2>4, <2>5
<1>. QED  BY TypedInit, TypedStep, PairedStep, <1>1, <1>2, PTL DEF Spec

----------------------------------------------------------------------------
(* Cancellation *)

\* Nothing starts late before the cancellation; the one thing that may start
\* after it leads back to a place where the cancellation is looked at.
LateOnce ==
  /\ late \in 0 .. 1
  /\ ~ cancel => late = 0
  /\ late = 1 => pc \in {"execute", "next", "settle", "step", "drain", "sleep", "ask", "ended"}

\* Where a confirmed shell command may lead.
LEMMA AfterLeads ==
  ASSUME AfterConfirmation
  PROVE  \/ /\ late' = late
            /\ pc' \in {"next", "drain", "settle", "ended"}
            /\ outcome' = outcome \/ outcome' = "error"
            /\ stopped' = stopped \/ stopped' = "ExecutionTime"
         \/ StartExecution /\ stopped' = stopped
<1>1. CASE Onward /\ UNCHANGED <<stopped, late>>
  BY <1>1 DEF Onward, Goto
<1>2. CASE stopped' = "ExecutionTime" /\ Goto("settle") /\ UNCHANGED late
  BY <1>2 DEF Goto
<1>3. CASE StartExecution /\ UNCHANGED stopped
  BY <1>3
<1>4. CASE End("error") /\ UNCHANGED <<late, stopped>>
  BY <1>4 DEF End
<1>. QED  BY <1>1, <1>2, <1>3, <1>4 DEF AfterConfirmation

LEMMA LateOnceStep == LateOnce /\ [Next]_vars => LateOnce'
<1>. SUFFICES ASSUME LateOnce, [Next]_vars
             PROVE  LateOnce'
  OBVIOUS
<1>. USE DEF LateOnce, Goto, End, frame, counters, response, ghosts
<1>1. CASE StepsUsedUp
  BY <1>1 DEF StepsUsedUp, StepLimit
<1>2. CASE BeginStep
  BY <1>2 DEF BeginStep
<1>3. CASE QueueDrained
  BY <1>3 DEF QueueDrained
<1>4. CASE PopContinuation
  BY <1>4 DEF PopContinuation
<1>5. CASE SleepTimedOut
  BY <1>5 DEF SleepTimedOut
<1>6. CASE Wake
  BY <1>6 DEF Wake
<1>7. CASE ResumeRefused
  BY <1>7 DEF ResumeRefused, Onward
<1>8. CASE ResumeOperation
  BY <1>8 DEF ResumeOperation, StartExecution
<1>9. CASE ModelInterrupted
  BY <1>9 DEF ModelInterrupted
<1>10. CASE LeaveCalls
  BY <1>10 DEF LeaveCalls, HasCall
<1>11. CASE StartBatch
  BY <1>11 DEF StartBatch, CanStartCall
<1>12. CASE StartCall
  BY <1>12 DEF StartCall, CanStartCall
<1>13. CASE BatchTimedOut
  BY <1>13 DEF BatchTimedOut
<1>14. CASE BatchCancelled
  BY <1>14 DEF BatchCancelled
<1>15. ASSUME NEW progress \in BOOLEAN, BatchDone(progress)
      PROVE  LateOnce'
  BY <1>15 DEF BatchDone
<1>16. CASE PrepareCancelled
  BY <1>16 DEF PrepareCancelled
<1>17. CASE PrepareFails
  BY <1>17 DEF PrepareFails, Onward
<1>18. CASE PrepareOperation
  BY <1>18 DEF PrepareOperation, StartExecution
<1>19. CASE PrepareShell
  BY <1>19 DEF PrepareShell
<1>20. CASE AskToConfirm
  BY <1>20 DEF AskToConfirm
<1>21. CASE NoConfirmation
  BY <1>21, AfterLeads DEF NoConfirmation, StartExecution
<1>22. ASSUME NEW ok \in BOOLEAN, OperationDone(ok)
      PROVE  LateOnce'
  BY <1>22 DEF OperationDone, Onward
<1>23. ASSUME NEW ok \in BOOLEAN, BackgroundStarted(ok)
      PROVE  LateOnce'
  BY <1>23 DEF BackgroundStarted, Onward
<1>24. CASE CommandFails
  BY <1>24 DEF CommandFails, ThenTime
<1>25. ASSUME NEW result \in Outcomes, CommandDone(result)
      PROVE  LateOnce'
  BY <1>25 DEF CommandDone, ThenTime
<1>26. ASSUME NEW result \in Outcomes, CommandInterrupted(result)
      PROVE  LateOnce'
  BY <1>26 DEF CommandInterrupted
<1>27. CASE EmptyRound
  BY <1>27 DEF EmptyRound, Limit, StepLimit
<1>28. CASE RecordRound
  BY <1>28 DEF RecordRound, CountRound
<1>29. CASE ModelAnswers
  BY <1>29 DEF ModelAnswers
<1>30. CASE ModelFails
  BY <1>30 DEF ModelFails
<1>31. ASSUME NEW asked \in Responses, ModelCalls(asked)
      PROVE  LateOnce'
  BY <1>31 DEF ModelCalls
<1>32. CASE CancelTask
  BY <1>32 DEF CancelTask
<1>33. CASE Approve
  <2>1. CASE IsShell
    BY <1>33, <2>1, AfterLeads DEF Approve, StartExecution
  <2>2. CASE ~ IsShell
    BY <1>33, <2>2 DEF Approve, StartExecution
  <2>. QED  BY <2>1, <2>2
<1>34. CASE Reject
  BY <1>34 DEF Reject, Onward
<1>35. CASE ConfirmFails
  BY <1>35 DEF ConfirmFails
<1>36. ASSUME NEW edited \in Commands, Edit(edited)
      PROVE  LateOnce'
  BY <1>36 DEF Edit
<1>37. CASE Expire
  BY <1>37 DEF Expire
<1>38. CASE UNCHANGED vars
  BY <1>38 DEF vars
<1>. QED
  BY <1>1, <1>2, <1>3, <1>4, <1>5, <1>6, <1>7, <1>8, <1>9, <1>10, <1>11, <1>12, <1>13, <1>14,
       <1>15, <1>16, <1>17, <1>18, <1>19, <1>20, <1>21, <1>22, <1>23, <1>24, <1>25, <1>26,
       <1>27, <1>28, <1>29, <1>30, <1>31, <1>32, <1>33, <1>34, <1>35, <1>36, <1>37, <1>38 DEF
       Next, Loop, Tool, Provider, Person

\* A cancelled task starts at most what it already had in hand.
THEOREM CancellationHolds == Spec => []CancelStops
<1>1. Init => LateOnce
  BY DEF Init, LateOnce
<1>2. LateOnce => CancelStops
  BY DEF LateOnce, CancelStops
<1>. QED  BY LateOnceStep, <1>1, <1>2, PTL DEF Spec

----------------------------------------------------------------------------
(* Giving up *)

\* Rounds without progress are counted one by one, so their number does not
\* pass the one at which the model is told to replan.
Announced ==
  /\ stats.stalled >= ReplanAfter => warned
  /\ outcome = "Stalled" => warned
  /\ stopped # "Stalled" \/ outcome = "Stalled"

LEMMA AnnouncedStep == Typed /\ Announced /\ [Next]_vars => Announced'
<1>. SUFFICES ASSUME Typed, Announced, [Next]_vars
             PROVE  Announced'
  OBVIOUS
<1>fields. stats \in Stats /\ stats.stalled \in Nat /\ round.progress \in BOOLEAN
  BY StatsFields, RoundFields, Numbers DEF Typed, TypeOK
<1>run. pc # "ended" => outcome = "running"
  BY DEF Typed, InHand
<1>. USE <1>fields, <1>run DEF Announced, Goto, End, frame, counters, response, ghosts
<1>1. CASE StepsUsedUp
  BY <1>1 DEF StepsUsedUp, StepLimit
<1>2. CASE BeginStep
  BY <1>2 DEF BeginStep
<1>3. CASE QueueDrained
  BY <1>3 DEF QueueDrained
<1>4. CASE PopContinuation
  BY <1>4 DEF PopContinuation
<1>5. CASE SleepTimedOut
  BY <1>5 DEF SleepTimedOut
<1>6. CASE Wake
  <2>1. stats'.stalled = stats.stalled
    BY <1>6 DEF Wake, Stats
  <2>. QED  BY <1>6, <2>1 DEF Wake
<1>7. CASE ResumeRefused
  BY <1>7 DEF ResumeRefused, Onward
<1>8. CASE ResumeOperation
  BY <1>8 DEF ResumeOperation, StartExecution
<1>9. CASE ModelInterrupted
  BY <1>9 DEF ModelInterrupted
<1>10. CASE LeaveCalls
  BY <1>10 DEF LeaveCalls, HasCall
<1>11. CASE StartBatch
  <2>1. stats'.stalled = stats.stalled
    BY <1>11 DEF StartBatch, Stats
  <2>. QED  BY <1>11, <2>1 DEF StartBatch
<1>12. CASE StartCall
  <2>1. stats'.stalled = stats.stalled
    BY <1>12 DEF StartCall, Stats
  <2>. QED  BY <1>12, <2>1 DEF StartCall
<1>13. CASE BatchTimedOut
  BY <1>13 DEF BatchTimedOut
<1>14. CASE BatchCancelled
  BY <1>14 DEF BatchCancelled
<1>15. ASSUME NEW progress \in BOOLEAN, BatchDone(progress)
      PROVE  Announced'
  BY <1>15 DEF BatchDone
<1>16. CASE PrepareCancelled
  BY <1>16 DEF PrepareCancelled
<1>17. CASE PrepareFails
  BY <1>17 DEF PrepareFails, Onward
<1>18. CASE PrepareOperation
  BY <1>18 DEF PrepareOperation, StartExecution
<1>19. CASE PrepareShell
  BY <1>19 DEF PrepareShell
<1>20. CASE AskToConfirm
  BY <1>20 DEF AskToConfirm
<1>21. CASE NoConfirmation
  BY <1>21, AfterLeads DEF NoConfirmation, StartExecution
<1>22. ASSUME NEW ok \in BOOLEAN, OperationDone(ok)
      PROVE  Announced'
  BY <1>22 DEF OperationDone, Onward
<1>23. ASSUME NEW ok \in BOOLEAN, BackgroundStarted(ok)
      PROVE  Announced'
  BY <1>23 DEF BackgroundStarted, Onward
<1>24. CASE CommandFails
  BY <1>24 DEF CommandFails, ThenTime
<1>25. ASSUME NEW result \in Outcomes, CommandDone(result)
      PROVE  Announced'
  BY <1>25 DEF CommandDone, ThenTime
<1>26. ASSUME NEW result \in Outcomes, CommandInterrupted(result)
      PROVE  Announced'
  BY <1>26 DEF CommandInterrupted
<1>27. CASE EmptyRound
  BY <1>27 DEF EmptyRound, Limit, StepLimit
<1>28. CASE RecordRound
  <2>1. CASE ~ CountRound
    <3>1. stats' = [stats EXCEPT !.steps = step, !.invalid = InvalidRounds] /\ UNCHANGED warned
      BY <1>28, <2>1 DEF RecordRound
    <3>2. stats'.stalled = stats.stalled
      BY <3>1 DEF Stats
    <3>. QED  BY <1>28, <2>1, <3>1, <3>2 DEF RecordRound
  <2>2. CASE CountRound
    <3>1. stats'.stalled = Stalled
      BY <2>2 DEF CountRound, Stats
    <3>2. warned' = (~ round.progress /\ (warned \/ MustReplan))
      BY <2>2 DEF CountRound
    <3>3. CASE round.progress
      <4>1. Stalled = 0 /\ ~ (Stalled >= ReplanAfter)
        BY <3>3, Numbers DEF Stalled
      <4>. QED  BY <1>28, <2>2, <3>1, <3>3, <4>1 DEF CountRound, RecordRound
    <3>4. CASE ~ round.progress
      <4>1. Stalled = stats.stalled + 1 /\ (MustReplan <=> Stalled = ReplanAfter)
        BY <3>4 DEF Stalled, MustReplan
      <4>2. Stalled >= ReplanAfter => warned \/ MustReplan
        BY <4>1, Numbers
      <4>3. warned' <=> warned \/ MustReplan
        BY <3>2, <3>4
      <4>4. Stalled >= AbortAfter => Stalled >= ReplanAfter
        BY <4>1, Numbers
      <4>. QED  BY <1>28, <2>2, <3>1, <4>2, <4>3, <4>4 DEF CountRound, RecordRound
    <3>. QED  BY <3>3, <3>4
  <2>. QED  BY <2>1, <2>2
<1>29. CASE ModelAnswers
  <2>1. stats'.stalled = stats.stalled
    BY <1>29 DEF ModelAnswers, Stats
  <2>. QED  BY <1>29, <2>1 DEF ModelAnswers
<1>30. CASE ModelFails
  BY <1>30 DEF ModelFails
<1>31. ASSUME NEW asked \in Responses, ModelCalls(asked)
      PROVE  Announced'
  BY <1>31 DEF ModelCalls
<1>32. CASE CancelTask
  BY <1>32 DEF CancelTask
<1>33. CASE Approve
  <2>1. CASE IsShell
    BY <1>33, <2>1, AfterLeads DEF Approve, StartExecution
  <2>2. CASE ~ IsShell
    BY <1>33, <2>2 DEF Approve, StartExecution
  <2>. QED  BY <2>1, <2>2
<1>34. CASE Reject
  BY <1>34 DEF Reject, Onward
<1>35. CASE ConfirmFails
  BY <1>35 DEF ConfirmFails
<1>36. ASSUME NEW edited \in Commands, Edit(edited)
      PROVE  Announced'
  BY <1>36 DEF Edit
<1>37. CASE Expire
  BY <1>37 DEF Expire
<1>38. CASE UNCHANGED vars
  BY <1>38 DEF vars
<1>. QED
  BY <1>1, <1>2, <1>3, <1>4, <1>5, <1>6, <1>7, <1>8, <1>9, <1>10, <1>11, <1>12, <1>13, <1>14,
       <1>15, <1>16, <1>17, <1>18, <1>19, <1>20, <1>21, <1>22, <1>23, <1>24, <1>25, <1>26,
       <1>27, <1>28, <1>29, <1>30, <1>31, <1>32, <1>33, <1>34, <1>35, <1>36, <1>37, <1>38 DEF
       Next, Loop, Tool, Provider, Person

\* No task is given up as stalled without the request to replan.
THEOREM StallsAreAnnounced == Spec => []StallIsAnnounced
<1>1. Init => Announced
  BY Numbers, AgentLoopAssumption DEF Init, Announced, Limits
<1>2. Announced => StallIsAnnounced
  BY DEF Announced, StallIsAnnounced
<1>. QED  BY TypedInit, TypedStep, AnnouncedStep, <1>1, <1>2, PTL DEF Spec

----------------------------------------------------------------------------
(* Repetitions *)

Bounded(w) ==
  \A i \in 1 .. Len(w) - SameRetries :
    \E j \in i + 1 .. i + SameRetries : w[j] # w[i]

\* A command's history entry is its last result and the length of the run of
\* equal results its executions end in.
Tracks(h, w) ==
  /\ h.repeats \in 0 .. Len(w)
  /\ Len(w) = 0 => h.last = None
  /\ Len(w) > 0 => h.repeats >= 1 /\ h.last = w[Len(w)]
  /\ h.repeats < Len(w) => w[Len(w) - h.repeats] # h.last

Tracked == \A c \in Commands : Tracks(history[c], log[c]) /\ Bounded(log[c])

\* One more execution that was allowed to start.
LEMMA OneMore ==
  ASSUME NEW w \in Seq(Outcomes), NEW last, NEW repeats \in Nat,
         NEW result \in Outcomes, NEW again \in Nat,
         again = IF last = result THEN repeats + 1 ELSE 1,
         Tracks([last |-> last, repeats |-> repeats], w), Bounded(w), repeats < SameRetries
  PROVE  /\ Tracks([last |-> result, repeats |-> again], Append(w, result))
         /\ Bounded(Append(w, result))
<1>. DEFINE n == Len(w)
            v == Append(w, result)
<1>0. n \in Nat /\ SameRetries \in Nat \ {0} /\ None \notin Outcomes
  BY AgentLoopAssumption
<1>1. /\ Len(v) = n + 1 /\ v[n + 1] = result
      /\ \A i \in 1 .. n : v[i] = w[i]
  OBVIOUS
<1>2. /\ repeats <= n
      /\ n = 0 => last = None
      /\ n > 0 => repeats >= 1 /\ last = w[n]
      /\ repeats < n => w[n - repeats] # last
  BY <1>0 DEF Tracks
<1>w. \A i \in 1 .. n - SameRetries : \E j \in i + 1 .. i + SameRetries : w[j] # w[i]
  BY DEF Bounded
<1>. HIDE DEF n, v
<1>3. again \in 1 .. n + 1
  BY <1>0, <1>2
<1>4. again < n + 1 => v[n + 1 - again] # result
  <2>. SUFFICES ASSUME again < n + 1 PROVE v[n + 1 - again] # result
    OBVIOUS
  <2>1. CASE last = result
    <3>1. n + 1 - again = n - repeats /\ n - repeats \in 1 .. n
      BY <1>0, <1>2, <2>1
    <3>. QED  BY <1>0, <1>1, <1>2, <2>1, <3>1
  <2>2. CASE last # result
    <3>1. n + 1 - again = n /\ n > 0
      BY <1>0, <2>2
    <3>. QED  BY <1>0, <1>1, <1>2, <2>2, <3>1
  <2>. QED  BY <2>1, <2>2
<1>5. Tracks([last |-> result, repeats |-> again], v)
  BY <1>0, <1>1, <1>3, <1>4 DEF Tracks
<1>6. ASSUME NEW i \in 1 .. n + 1 - SameRetries
      PROVE  \E j \in i + 1 .. i + SameRetries : v[j] # v[i]
  <2>1. CASE i <= n - SameRetries
    <3>1. PICK j \in i + 1 .. i + SameRetries : w[j] # w[i]
      BY <1>0, <1>w, <2>1
    <3>2. j \in 1 .. n /\ i \in 1 .. n
      BY <1>0, <2>1
    <3>. QED  BY <1>1, <3>1, <3>2
  <2>2. CASE i = n + 1 - SameRetries
    <3>0. i \in 1 .. n /\ n + 1 \in i + 1 .. i + SameRetries /\ n > 0
      BY <1>0, <2>2
    <3>1. CASE w[i] # result
      BY <1>1, <3>0, <3>1
    <3>2. CASE w[i] = result /\ last = result
      <4>1. repeats < n /\ n - repeats \in i .. n
        BY <1>0, <1>2, <2>2, <3>0
      <4>2. w[n - repeats] # w[i]
        BY <1>2, <3>2, <4>1
      <4>3. n - repeats \in i + 1 .. n /\ n - repeats \in i + 1 .. i + SameRetries
        BY <1>0, <2>2, <3>0, <4>1, <4>2
      <4>. QED  BY <1>0, <1>1, <3>0, <4>2, <4>3
    <3>3. CASE w[i] = result /\ last # result
      <4>1. w[n] # w[i] /\ n \in i + 1 .. n /\ n \in i + 1 .. i + SameRetries
        BY <1>0, <1>2, <2>2, <3>0, <3>3
      <4>. QED  BY <1>0, <1>1, <3>0, <4>1
    <3>. QED  BY <3>1, <3>2, <3>3
  <2>. QED  BY <1>0, <2>1, <2>2
<1>7. Bounded(v)
  <2>. SUFFICES ASSUME NEW i \in 1 .. Len(v) - SameRetries
               PROVE  \E j \in i + 1 .. i + SameRetries : v[j] # v[i]
    BY DEF Bounded
  <2>1. i \in 1 .. n + 1 - SameRetries
    BY <1>0, <1>1
  <2>. QED  BY <1>6, <2>1
<1>. QED  BY <1>5, <1>7 DEF v

LEMMA TrackedStep == Typed /\ Tracked /\ [Next]_vars => Tracked'
<1>. SUFFICES ASSUME Typed, Tracked, [Next]_vars
             PROVE  Tracked'
  OBVIOUS
<1>types. /\ history \in [Commands -> Repetition] /\ log \in [Commands -> Seq(Outcomes)]
          /\ pc = "execute" /\ IsShell =>
               command \in Commands /\ history[command].repeats < SameRetries
          /\ \A c \in Commands : Tracks(history[c], log[c]) /\ Bounded(log[c])
  BY DEF Typed, TypeOK, InHand, Tracked
<1>. USE DEF Tracked, frame, counters, response, ghosts
<1>1. CASE StepsUsedUp
  BY <1>1 DEF StepsUsedUp
<1>2. CASE BeginStep
  BY <1>2 DEF BeginStep
<1>3. CASE QueueDrained
  BY <1>3 DEF QueueDrained
<1>4. CASE PopContinuation
  BY <1>4 DEF PopContinuation
<1>5. CASE SleepTimedOut
  BY <1>5 DEF SleepTimedOut
<1>6. CASE Wake
  BY <1>6 DEF Wake
<1>7. CASE ResumeRefused
  BY <1>7 DEF ResumeRefused
<1>8. CASE ResumeOperation
  BY <1>8 DEF ResumeOperation
<1>9. CASE ModelInterrupted
  BY <1>9 DEF ModelInterrupted
<1>10. CASE LeaveCalls
  BY <1>10 DEF LeaveCalls
<1>11. CASE StartBatch
  BY <1>11 DEF StartBatch
<1>12. CASE StartCall
  BY <1>12 DEF StartCall
<1>13. CASE BatchTimedOut
  BY <1>13 DEF BatchTimedOut
<1>14. CASE BatchCancelled
  BY <1>14 DEF BatchCancelled
<1>15. ASSUME NEW progress \in BOOLEAN, BatchDone(progress)
      PROVE  Tracked'
  BY <1>15 DEF BatchDone
<1>16. CASE PrepareCancelled
  BY <1>16 DEF PrepareCancelled
<1>17. CASE PrepareFails
  BY <1>17 DEF PrepareFails
<1>18. CASE PrepareOperation
  BY <1>18 DEF PrepareOperation
<1>19. CASE PrepareShell
  BY <1>19 DEF PrepareShell
<1>20. CASE AskToConfirm
  BY <1>20 DEF AskToConfirm
<1>21. CASE NoConfirmation
  BY <1>21 DEF NoConfirmation
<1>22. ASSUME NEW ok \in BOOLEAN, OperationDone(ok)
      PROVE  Tracked'
  BY <1>22 DEF OperationDone
<1>23. ASSUME NEW ok \in BOOLEAN, BackgroundStarted(ok)
      PROVE  Tracked'
  BY <1>23 DEF BackgroundStarted
<1>24. CASE CommandFails
  BY <1>24 DEF CommandFails
<1>25. ASSUME NEW result \in Outcomes, CommandDone(result)
      PROVE  Tracked'
  <2>. DEFINE again == Repeats(result)
  <2>1. command \in Commands /\ history[command].repeats < SameRetries
    BY <1>25, <1>types DEF CommandDone, IsShell
  <2>2. /\ history' = [history EXCEPT ![command] = [last |-> result, repeats |-> again]]
        /\ log' = [log EXCEPT ![command] = Append(@, result)]
    BY <1>25 DEF CommandDone
  <2>3. /\ log[command] \in Seq(Outcomes) /\ history[command] \in Repetition
        /\ Tracks(history[command], log[command]) /\ Bounded(log[command])
    BY <1>types, <2>1
  <2>4. history[command].repeats \in Nat
        /\ history[command] = [last |-> history[command].last, repeats |-> history[command].repeats]
    BY <2>3, Numbers DEF Repetition
  <2>5. again \in Nat /\ again = IF history[command].last = result
                                   THEN history[command].repeats + 1 ELSE 1
    BY <2>4 DEF Repeats
  <2>. HIDE DEF again, Tracked
  <2>6. /\ Tracks([last |-> result, repeats |-> again], Append(log[command], result))
        /\ Bounded(Append(log[command], result))
    <3>1. Tracks([last |-> history[command].last, repeats |-> history[command].repeats],
                 log[command])
      BY <2>3, <2>4
    <3>. QED  BY <2>1, <2>3, <2>4, <2>5, <3>1, OneMore
  <2>7. ASSUME NEW c \in Commands
        PROVE  Tracks(history'[c], log'[c]) /\ Bounded(log'[c])
    <3>1. CASE c = command
      BY <1>types, <2>1, <2>2, <2>6, <3>1
    <3>2. CASE c # command
      BY <1>types, <2>2, <3>2 DEF Tracked
    <3>. QED  BY <3>1, <3>2
  <2>. QED  BY <2>7 DEF Tracked
<1>26. ASSUME NEW result \in Outcomes, CommandInterrupted(result)
      PROVE  Tracked'
  <2>. DEFINE again == Repeats(result)
  <2>1. command \in Commands /\ history[command].repeats < SameRetries
    BY <1>26, <1>types DEF CommandInterrupted, IsShell
  <2>2. /\ history' = [history EXCEPT ![command] = [last |-> result, repeats |-> again]]
        /\ log' = [log EXCEPT ![command] = Append(@, result)]
    BY <1>26 DEF CommandInterrupted
  <2>3. /\ log[command] \in Seq(Outcomes) /\ history[command] \in Repetition
        /\ Tracks(history[command], log[command]) /\ Bounded(log[command])
    BY <1>types, <2>1
  <2>4. history[command].repeats \in Nat
        /\ history[command] = [last |-> history[command].last, repeats |-> history[command].repeats]
    BY <2>3, Numbers DEF Repetition
  <2>5. again \in Nat /\ again = IF history[command].last = result
                                   THEN history[command].repeats + 1 ELSE 1
    BY <2>4 DEF Repeats
  <2>. HIDE DEF again, Tracked
  <2>6. /\ Tracks([last |-> result, repeats |-> again], Append(log[command], result))
        /\ Bounded(Append(log[command], result))
    <3>1. Tracks([last |-> history[command].last, repeats |-> history[command].repeats],
                 log[command])
      BY <2>3, <2>4
    <3>. QED  BY <2>1, <2>3, <2>4, <2>5, <3>1, OneMore
  <2>7. ASSUME NEW c \in Commands
        PROVE  Tracks(history'[c], log'[c]) /\ Bounded(log'[c])
    <3>1. CASE c = command
      BY <1>types, <2>1, <2>2, <2>6, <3>1
    <3>2. CASE c # command
      BY <1>types, <2>2, <3>2 DEF Tracked
    <3>. QED  BY <3>1, <3>2
  <2>. QED  BY <2>7 DEF Tracked
<1>27. CASE EmptyRound
  BY <1>27 DEF EmptyRound
<1>28. CASE RecordRound
  BY <1>28 DEF RecordRound, CountRound
<1>29. CASE ModelAnswers
  BY <1>29 DEF ModelAnswers
<1>30. CASE ModelFails
  BY <1>30 DEF ModelFails
<1>31. ASSUME NEW asked \in Responses, ModelCalls(asked)
      PROVE  Tracked'
  BY <1>31 DEF ModelCalls
<1>32. CASE CancelTask
  BY <1>32 DEF CancelTask
<1>33. CASE Approve
  BY <1>33 DEF Approve
<1>34. CASE Reject
  BY <1>34 DEF Reject
<1>35. CASE ConfirmFails
  BY <1>35 DEF ConfirmFails
<1>36. ASSUME NEW edited \in Commands, Edit(edited)
      PROVE  Tracked'
  BY <1>36 DEF Edit
<1>37. CASE Expire
  BY <1>37 DEF Expire
<1>38. CASE UNCHANGED vars
  BY <1>38 DEF vars
<1>. QED
  BY <1>1, <1>2, <1>3, <1>4, <1>5, <1>6, <1>7, <1>8, <1>9, <1>10, <1>11, <1>12, <1>13, <1>14,
       <1>15, <1>16, <1>17, <1>18, <1>19, <1>20, <1>21, <1>22, <1>23, <1>24, <1>25, <1>26,
       <1>27, <1>28, <1>29, <1>30, <1>31, <1>32, <1>33, <1>34, <1>35, <1>36, <1>37, <1>38 DEF
       Next, Loop, Tool, Provider, Person

\* In no task does a command give the same result more than
\* max_same_action_retries times in a row.
THEOREM RepetitionsEnd == Spec => []RepeatsAreBounded
<1>1. Init => Tracked
  <2>. SUFFICES ASSUME Init, NEW c \in Commands
               PROVE  Tracks(history[c], log[c]) /\ Bounded(log[c])
    BY DEF Tracked
  <2>1. history[c] = [last |-> None, repeats |-> 0] /\ log[c] = <<>>
    BY DEF Init
  <2>2. Len(log[c]) = 0
    BY <2>1
  <2>. QED  BY <2>1, <2>2, Numbers DEF Tracks, Bounded
<1>2. Tracked => RepeatsAreBounded
  BY DEF Tracked, Bounded, RepeatsAreBounded
<1>. QED  BY TypedInit, TypedStep, TrackedStep, <1>1, <1>2, PTL DEF Spec

----------------------------------------------------------------------------
(* Accounts *)

Resuming == at = 0 /\ pc \in {"resume", "confirm", "execute"}

\* What was counted is recorded, or is in the round or the continuation in hand.
Used ==
  stats.used = transcript.calls + transcript.resumed + Len(round.calls)
                 + (IF Resuming THEN 1 ELSE 0)

\* The counted steps are the recorded rounds; the loop is one ahead of them.
Steps ==
  /\ outcome = "running" =>
       /\ stats.steps = transcript.rounds
       /\ step = transcript.rounds + (IF pc = "step" THEN 0 ELSE 1)
  /\ outcome \in Limits => stats.steps = transcript.rounds
  /\ outcome = "answered" => stats.steps = transcript.rounds + 1
  /\ outcome \in Limits \union {"answered"} => round.calls = <<>>
  /\ pc = "ask" => pending = 0

LEMMA TranscriptFields ==
  ASSUME NEW t \in Transcript
  PROVE  t.rounds \in Nat /\ t.calls \in Nat /\ t.resumed \in Nat
  BY DEF Transcript

\* A result is counted already: it moves from the continuation in hand to the
\* transcript, or stays with its call.
LEMMA ResultKeepsUsed ==
  ASSUME Typed, Used, NEW progress \in BOOLEAN, Result(progress),
         pc \in {"resume", "prepare", "assess", "confirm", "execute"},
         pc' \in {"next", "settle", "drain"}, stats' = stats
  PROVE  Used' /\ transcript'.rounds = transcript.rounds
<1>1. /\ at \in Nat /\ round \in Round /\ transcript \in Transcript
      /\ transcript.calls \in Nat /\ transcript.resumed \in Nat
      /\ Len(round.calls) \in Nat
  BY TranscriptFields, RoundFields DEF Typed, TypeOK
<1>2. CASE at = 0
  <2>1. Resuming /\ at' = 0 /\ round' = round
    BY <1>2 DEF Resuming, Result, Typed, InHand
  <2>2. /\ transcript'.calls = transcript.calls /\ transcript'.rounds = transcript.rounds
        /\ transcript'.resumed = transcript.resumed + 1
    BY <1>1, <1>2 DEF Result, Transcript
  <2>3. ~ Resuming'
    BY DEF Resuming
  <2>. QED  BY <1>1, <2>1, <2>2, <2>3 DEF Used
<1>3. CASE at # 0
  <2>3. at' = at + 1 /\ round'.calls = round.calls
    BY <1>1, <1>3 DEF Result, Round
  <2>1. at' # 0 /\ round'.calls = round.calls /\ transcript' = transcript
    BY <1>1, <1>3, <2>3 DEF Result
  <2>2. ~ Resuming /\ ~ Resuming'
    BY <1>3, <2>1 DEF Resuming
  <2>. QED  BY <1>1, <2>1, <2>2 DEF Used
<1>. QED  BY <1>2, <1>3

LEMMA AfterKeepsUsed ==
  ASSUME Typed, Used, AfterConfirmation, pc \in {"assess", "confirm"}, at # 0, stats' = stats
  PROVE  Used' /\ transcript'.rounds = transcript.rounds
<1>1. CASE Result(FALSE) /\ Onward
  BY <1>1, ResultKeepsUsed DEF Onward, Goto
<1>2. CASE Result(FALSE) /\ Goto("settle")
  BY <1>2, ResultKeepsUsed DEF Goto
<1>3. CASE UNCHANGED <<at, round, transcript>>
  BY <1>3 DEF Used, Resuming
<1>. QED  BY <1>1, <1>2, <1>3 DEF AfterConfirmation

LEMMA UsedStep == Typed /\ Paired /\ Used /\ [Next]_vars => Used'
<1>. SUFFICES ASSUME Typed, Paired, Used, [Next]_vars
             PROVE  Used'
  OBVIOUS
<1>fields. /\ stats \in Stats /\ round \in Round /\ transcript \in Transcript /\ at \in Nat
           /\ transcript.calls \in Nat /\ transcript.resumed \in Nat
           /\ stats.used \in Nat /\ round.calls \in Seq(Nat) /\ Len(round.calls) \in Nat
  BY TranscriptFields, RoundFields, StatsFields, Numbers DEF Typed, TypeOK
<1>in. /\ at = 0 => pc \notin {"next", "settle", "batch", "prepare", "assess"} /\ round.calls = <<>>
       /\ at # 0 => pc \notin {"step", "drain", "sleep", "resume", "ask"}
  BY DEF Typed, InHand, Paired
<1>shell. IsShell => at # 0
  BY AgentLoopAssumption DEF IsShell, Call, AllKinds
<1>. USE <1>fields DEF Used, Resuming, Goto, End, frame, counters, response
<1>1. CASE StepsUsedUp
  BY <1>1 DEF StepsUsedUp
<1>2. CASE BeginStep
  BY <1>2 DEF BeginStep
<1>3. CASE QueueDrained
  BY <1>3 DEF QueueDrained
<1>4. CASE PopContinuation
  BY <1>4 DEF PopContinuation
<1>5. CASE SleepTimedOut
  BY <1>5 DEF SleepTimedOut
<1>6. CASE Wake
  <2>1. CASE UNCHANGED stats /\ pc' = "ended"
    BY <1>6, <2>1 DEF Wake
  <2>2. CASE stats' = [stats EXCEPT !.used = @ + 1] /\ pc' = "resume"
    <3>1. stats'.used = stats.used + 1 /\ at = 0
      BY <1>6, <2>2, <1>in DEF Wake, Stats
    <3>. QED  BY <1>6, <2>2, <3>1 DEF Wake
  <2>. QED  BY <1>6, <2>1, <2>2 DEF Wake
<1>7. CASE ResumeRefused
  BY <1>7, ResultKeepsUsed DEF ResumeRefused, Onward
<1>8. CASE ResumeOperation
  BY <1>8 DEF ResumeOperation, StartExecution
<1>9. CASE ModelInterrupted
  BY <1>9 DEF ModelInterrupted
<1>10. CASE LeaveCalls
  BY <1>10, <1>in DEF LeaveCalls
<1>11. CASE StartBatch
  <2>1. BatchSize \in Nat
    BY <1>11, BatchFits DEF StartBatch, CanStartCall, HasCall, MaxBatch, Typed, TypeOK, InHand
  <2>2. stats'.used = stats.used + BatchSize /\ round'.calls = round.calls \o Positions(BatchSize)
    BY <1>11 DEF StartBatch, Stats, Round
  <2>3. Positions(BatchSize) \in Seq(Nat) /\ Len(Positions(BatchSize)) = BatchSize
    <3>1. at # 0 /\ at \in Nat
      BY <1>11, <1>in DEF StartBatch, CanStartCall, HasCall
    <3>. QED  BY <2>1, <3>1 DEF Positions
  <2>. DEFINE more == Positions(BatchSize)
  <2>4. Len(round.calls \o more) = Len(round.calls) + BatchSize
    <3>1. ASSUME NEW s \in Seq(Nat), NEW t \in Seq(Nat)
          PROVE  Len(s \o t) = Len(s) + Len(t)
      OBVIOUS
    <3>. QED  BY <1>fields, <2>3, <3>1
  <2>. HIDE DEF more
  <2>5. Len(round'.calls) = Len(round.calls) + BatchSize
    BY <2>2, <2>4 DEF more
  <2>6. ~ Resuming /\ ~ Resuming' /\ transcript' = transcript
    BY <1>11 DEF StartBatch, CanStartCall, HasCall
  <2>. QED  BY <1>fields, <2>1, <2>2, <2>5, <2>6 DEF Used
<1>12. CASE StartCall
  <2>1. stats'.used = stats.used + 1 /\ round'.calls = Append(round.calls, at)
    BY <1>12 DEF StartCall, Stats, Round
  <2>2. Len(round'.calls) = Len(round.calls) + 1
    BY <2>1
  <2>3. ~ Resuming /\ ~ Resuming' /\ transcript' = transcript
    BY <1>12, <1>in DEF StartCall, CanStartCall, HasCall
  <2>. QED  BY <1>fields, <2>1, <2>2, <2>3 DEF Used
<1>13. CASE BatchTimedOut
  <2>1. round'.calls = round.calls /\ ~ Resuming /\ ~ Resuming'
    BY <1>13, <1>in DEF BatchTimedOut, Round
  <2>. QED  BY <1>13, <2>1 DEF BatchTimedOut
<1>14. CASE BatchCancelled
  BY <1>14, <1>in DEF BatchCancelled
<1>15. ASSUME NEW progress \in BOOLEAN, BatchDone(progress)
      PROVE  Used'
  <2>1. round'.calls = round.calls /\ ~ Resuming /\ ~ Resuming'
    BY <1>15, <1>in DEF BatchDone, Round
  <2>. QED  BY <1>15, <2>1 DEF BatchDone
<1>16. CASE PrepareCancelled
  BY <1>16, <1>in DEF PrepareCancelled
<1>17. CASE PrepareFails
  BY <1>17, ResultKeepsUsed DEF PrepareFails, Onward
<1>18. CASE PrepareOperation
  BY <1>18, <1>in DEF PrepareOperation, StartExecution
<1>19. CASE PrepareShell
  BY <1>19, <1>in DEF PrepareShell
<1>20. CASE AskToConfirm
  BY <1>20, <1>in DEF AskToConfirm
<1>21. CASE NoConfirmation
  BY <1>21, <1>in, AfterKeepsUsed DEF NoConfirmation
<1>22. ASSUME NEW ok \in BOOLEAN, OperationDone(ok)
      PROVE  Used'
  BY <1>22, ResultKeepsUsed DEF OperationDone, Onward
<1>23. ASSUME NEW ok \in BOOLEAN, BackgroundStarted(ok)
      PROVE  Used'
  BY <1>23, ResultKeepsUsed DEF BackgroundStarted, Onward
<1>24. CASE CommandFails
  BY <1>24, ResultKeepsUsed DEF CommandFails, ThenTime
<1>25. ASSUME NEW result \in Outcomes, CommandDone(result)
      PROVE  Used'
  BY <1>25, ResultKeepsUsed DEF CommandDone, ThenTime
<1>26. ASSUME NEW result \in Outcomes, CommandInterrupted(result)
      PROVE  Used'
  <2>1. CASE cancel
    BY <1>26, <2>1, ResultKeepsUsed DEF CommandInterrupted
  <2>2. CASE ~ cancel
    <3>1. at # 0
      BY <1>26, AgentLoopAssumption DEF CommandInterrupted, Call, AllKinds
    <3>. QED  BY <1>26, <2>2, <3>1 DEF CommandInterrupted
  <2>. QED  BY <2>1, <2>2
<1>27. CASE EmptyRound
  BY <1>27, <1>in DEF EmptyRound
<1>28. CASE RecordRound
  <2>1. transcript'.calls = transcript.calls + Len(round.calls)
        /\ transcript'.resumed = transcript.resumed
    BY <1>28 DEF RecordRound, Transcript
  <2>2. stats'.used = stats.used
    BY <1>28 DEF RecordRound, CountRound, Stats
  <2>3. Len(round'.calls) = 0 /\ ~ Resuming
    BY <1>28 DEF RecordRound, NoRound
  <2>4. ~ Resuming'
    BY <1>28 DEF RecordRound, CountRound
  <2>. QED  BY <1>fields, <2>1, <2>2, <2>3, <2>4 DEF Used
<1>29. CASE ModelAnswers
  <2>1. stats'.used = stats.used
    BY <1>29 DEF ModelAnswers, Stats
  <2>. QED  BY <1>29, <2>1 DEF ModelAnswers
<1>30. CASE ModelFails
  BY <1>30 DEF ModelFails
<1>31. ASSUME NEW asked \in Responses, ModelCalls(asked)
      PROVE  Used'
  <2>1. round.calls = <<>> /\ round'.calls = <<>>
    BY <1>31, <1>in DEF ModelCalls, NoRound
  <2>. QED  BY <1>31, <2>1 DEF ModelCalls
<1>32. CASE CancelTask
  BY <1>32 DEF CancelTask
<1>33. CASE Approve
  <2>1. CASE IsShell
    BY <1>33, <2>1, <1>shell, AfterKeepsUsed DEF Approve
  <2>2. CASE ~ IsShell
    BY <1>33, <2>2 DEF Approve, StartExecution
  <2>. QED  BY <2>1, <2>2
<1>34. CASE Reject
  BY <1>34, ResultKeepsUsed DEF Reject, Onward
<1>35. CASE ConfirmFails
  BY <1>35, <1>in, <1>shell DEF ConfirmFails
<1>36. ASSUME NEW edited \in Commands, Edit(edited)
      PROVE  Used'
  BY <1>36, <1>in, <1>shell DEF Edit
<1>37. CASE Expire
  BY <1>37 DEF Expire
<1>38. CASE UNCHANGED vars
  BY <1>38 DEF vars
<1>. QED
  BY <1>1, <1>2, <1>3, <1>4, <1>5, <1>6, <1>7, <1>8, <1>9, <1>10, <1>11, <1>12, <1>13, <1>14,
       <1>15, <1>16, <1>17, <1>18, <1>19, <1>20, <1>21, <1>22, <1>23, <1>24, <1>25, <1>26,
       <1>27, <1>28, <1>29, <1>30, <1>31, <1>32, <1>33, <1>34, <1>35, <1>36, <1>37, <1>38 DEF
       Next, Loop, Tool, Provider, Person

LEMMA StepsStep == Typed /\ Paired /\ Steps /\ [Next]_vars => Steps'
<1>. SUFFICES ASSUME Typed, Paired, Steps, [Next]_vars
             PROVE  Steps'
  OBVIOUS
<1>fields. /\ stats \in Stats /\ round \in Round /\ transcript \in Transcript
           /\ transcript.rounds \in Nat /\ step \in Nat
  BY TranscriptFields, Numbers DEF Typed, TypeOK
<1>in. /\ pc \in {"step", "drain", "sleep", "resume", "ask"} => round.calls = <<>>
  BY DEF Typed, InHand, Paired
<1>run. pc # "ended" <=> outcome = "running"
  BY DEF Typed, InHand
<1>. USE <1>fields, <1>run DEF Steps, Limits, Goto, End, frame, counters, response
<1>1. CASE StepsUsedUp
  BY <1>1, <1>in DEF StepsUsedUp, StepLimit
<1>2. CASE BeginStep
  BY <1>2, <1>in DEF BeginStep
<1>3. CASE QueueDrained
  BY <1>3, <1>in DEF QueueDrained
<1>4. CASE PopContinuation
  BY <1>4, <1>in DEF PopContinuation
<1>5. CASE SleepTimedOut
  BY <1>5, <1>in DEF SleepTimedOut
<1>6. CASE Wake
  <2>1. stats'.steps = stats.steps
    BY <1>6 DEF Wake, Stats
  <2>. QED  BY <1>6, <1>in, <2>1 DEF Wake
<1>7. CASE ResumeRefused
  <2>1. transcript'.rounds = transcript.rounds
    BY <1>7 DEF ResumeRefused, Result, Transcript
  <2>. QED  BY <1>7, <2>1 DEF ResumeRefused, Onward
<1>8. CASE ResumeOperation
  BY <1>8 DEF ResumeOperation, StartExecution
<1>9. CASE ModelInterrupted
  BY <1>9, <1>in DEF ModelInterrupted
<1>10. CASE LeaveCalls
  BY <1>10 DEF LeaveCalls
<1>11. CASE StartBatch
  <2>1. stats'.steps = stats.steps /\ pc = "next"
    BY <1>11 DEF StartBatch, Stats, CanStartCall, HasCall
  <2>. QED  BY <1>11, <2>1 DEF StartBatch
<1>12. CASE StartCall
  <2>1. stats'.steps = stats.steps /\ pc = "next"
    BY <1>12 DEF StartCall, Stats, CanStartCall, HasCall
  <2>. QED  BY <1>12, <2>1 DEF StartCall
<1>13. CASE BatchTimedOut
  BY <1>13 DEF BatchTimedOut
<1>14. CASE BatchCancelled
  BY <1>14 DEF BatchCancelled
<1>15. ASSUME NEW progress \in BOOLEAN, BatchDone(progress)
      PROVE  Steps'
  BY <1>15 DEF BatchDone
<1>16. CASE PrepareCancelled
  BY <1>16 DEF PrepareCancelled
<1>17. CASE PrepareFails
  <2>1. transcript'.rounds = transcript.rounds
    BY <1>17 DEF PrepareFails, Result, Transcript
  <2>. QED  BY <1>17, <2>1 DEF PrepareFails, Onward
<1>18. CASE PrepareOperation
  BY <1>18 DEF PrepareOperation, StartExecution
<1>19. CASE PrepareShell
  BY <1>19 DEF PrepareShell
<1>20. CASE AskToConfirm
  BY <1>20 DEF AskToConfirm
<1>21. CASE NoConfirmation
  <2>1. transcript'.rounds = transcript.rounds /\ UNCHANGED <<step, stats, pending>>
    BY <1>21 DEF NoConfirmation, AfterConfirmation, Result, Transcript
  <2>2. \/ pc' \in {"next", "drain", "settle", "execute"} /\ outcome' = outcome
        \/ pc' = "ended" /\ outcome' = "error"
    BY <1>21 DEF NoConfirmation, AfterConfirmation, StartExecution, Onward
  <2>. QED  BY <1>21, <2>1, <2>2 DEF NoConfirmation
<1>22. ASSUME NEW ok \in BOOLEAN, OperationDone(ok)
      PROVE  Steps'
  <2>1. transcript'.rounds = transcript.rounds
    BY <1>22 DEF OperationDone, Result, Transcript
  <2>. QED  BY <1>22, <2>1 DEF OperationDone, Onward
<1>23. ASSUME NEW ok \in BOOLEAN, BackgroundStarted(ok)
      PROVE  Steps'
  <2>1. transcript'.rounds = transcript.rounds
    BY <1>23 DEF BackgroundStarted, Result, Transcript
  <2>. QED  BY <1>23, <2>1 DEF BackgroundStarted, Onward
<1>24. CASE CommandFails
  <2>1. transcript'.rounds = transcript.rounds
    BY <1>24 DEF CommandFails, Result, Transcript
  <2>. QED  BY <1>24, <2>1 DEF CommandFails, ThenTime
<1>25. ASSUME NEW result \in Outcomes, CommandDone(result)
      PROVE  Steps'
  <2>1. transcript'.rounds = transcript.rounds
    BY <1>25 DEF CommandDone, Result, Transcript
  <2>. QED  BY <1>25, <2>1 DEF CommandDone, ThenTime
<1>26. ASSUME NEW result \in Outcomes, CommandInterrupted(result)
      PROVE  Steps'
  <2>1. transcript'.rounds = transcript.rounds
    BY <1>26 DEF CommandInterrupted, Result, Transcript
  <2>. QED  BY <1>26, <2>1 DEF CommandInterrupted
<1>27. CASE EmptyRound
  <2>1. Limit \in Limits
    BY DEF Typed, TypeOK, Limit, StepLimit, Limits
  <2>. QED  BY <1>27, <2>1 DEF EmptyRound
<1>28. CASE RecordRound
  <2>1. transcript'.rounds = transcript.rounds + 1 /\ round'.calls = <<>>
    BY <1>28 DEF RecordRound, Transcript, NoRound
  <2>2. stats'.steps = step /\ step' = step /\ step = transcript.rounds + 1
    BY <1>28 DEF RecordRound, CountRound, Stats
  <2>3. \/ pc' = "step" /\ outcome' = outcome
        \/ pc' = "ended" /\ outcome' # "running" /\ outcome' # "answered"
    <3>1. stopped # None => stopped \in Limits
      BY DEF Typed, TypeOK
    <3>. QED  BY <1>28, <3>1 DEF RecordRound, CountRound, Limits
  <2>. QED  BY <1>28, <2>1, <2>2, <2>3 DEF RecordRound
<1>29. CASE ModelAnswers
  <2>1. stats'.steps = step
    BY <1>29 DEF ModelAnswers, Stats
  <2>. QED  BY <1>29, <1>in, <2>1 DEF ModelAnswers
<1>30. CASE ModelFails
  BY <1>30 DEF ModelFails
<1>31. ASSUME NEW asked \in Responses, ModelCalls(asked)
      PROVE  Steps'
  BY <1>31 DEF ModelCalls
<1>32. CASE CancelTask
  BY <1>32 DEF CancelTask
<1>33. CASE Approve
  <2>1. transcript'.rounds = transcript.rounds /\ UNCHANGED <<step, stats, pending>>
    BY <1>33 DEF Approve, AfterConfirmation, Result, Transcript
  <2>2. \/ pc' \in {"next", "drain", "settle", "execute"} /\ outcome' = outcome
        \/ pc' = "ended" /\ outcome' = "error"
    BY <1>33 DEF Approve, AfterConfirmation, StartExecution, Onward
  <2>. QED  BY <1>33, <2>1, <2>2 DEF Approve
<1>34. CASE Reject
  <2>1. transcript'.rounds = transcript.rounds
    BY <1>34 DEF Reject, Result, Transcript
  <2>. QED  BY <1>34, <2>1 DEF Reject, Onward
<1>35. CASE ConfirmFails
  BY <1>35 DEF ConfirmFails
<1>36. ASSUME NEW edited \in Commands, Edit(edited)
      PROVE  Steps'
  BY <1>36 DEF Edit
<1>37. CASE Expire
  BY <1>37 DEF Expire
<1>38. CASE UNCHANGED vars
  BY <1>38 DEF vars
<1>. QED
  BY <1>1, <1>2, <1>3, <1>4, <1>5, <1>6, <1>7, <1>8, <1>9, <1>10, <1>11, <1>12, <1>13, <1>14,
       <1>15, <1>16, <1>17, <1>18, <1>19, <1>20, <1>21, <1>22, <1>23, <1>24, <1>25, <1>26,
       <1>27, <1>28, <1>29, <1>30, <1>31, <1>32, <1>33, <1>34, <1>35, <1>36, <1>37, <1>38 DEF
       Next, Loop, Tool, Provider, Person

LEMMA AccountsHold == Spec => [](Typed /\ Paired /\ Used /\ Steps)
<1>1. Init => Paired
  BY DEF Init, Paired, Ordered, NoRound
<1>2. Init => Used
  BY DEF Init, Used, Resuming, NoRound
<1>3. Init => Steps
  BY DEF Init, Steps, Limits
<1>. QED
  BY TypedInit, TypedStep, PairedStep, UsedStep, StepsStep, <1>1, <1>2, <1>3, PTL DEF Spec

\* The counters returned with a task are those of the transcript that its
\* answer or its limit leaves.
THEOREM StatsAreRecorded == Spec => []StatsMatchTranscript
<1>1. Typed /\ Used /\ Steps => StatsMatchTranscript
  <2>. SUFFICES ASSUME Typed, Used, Steps, outcome \in Limits \union {"answered"}
               PROVE  /\ stats.used = transcript.calls + transcript.resumed
                      /\ stats.steps = transcript.rounds + (IF outcome = "answered" THEN 1 ELSE 0)
    BY DEF StatsMatchTranscript
  <2>1. ~ Resuming /\ Len(round.calls) = 0
    BY DEF Typed, InHand, Resuming, Limits, Steps
  <2>2. transcript.calls \in Nat /\ transcript.resumed \in Nat /\ transcript.rounds \in Nat
    BY TranscriptFields DEF Typed, TypeOK
  <2>. QED  BY <2>1, <2>2 DEF Used, Steps, Limits
<1>. QED  BY AccountsHold, <1>1, PTL

\* The model is never asked with an admitted call or a continuation left out of
\* what it is sent.
THEOREM NothingIsLeftOut == Spec => []ModelSeesEverything
<1>1. Typed /\ Paired /\ Used /\ Steps => ModelSeesEverything
  <2>. SUFFICES ASSUME Typed, Paired, Used, Steps, pc = "ask"
               PROVE  pending = 0 /\ stats.used = transcript.calls + transcript.resumed
    BY DEF ModelSeesEverything
  <2>1. ~ Resuming /\ Len(round.calls) = 0
    BY DEF Typed, InHand, Resuming, Paired
  <2>2. transcript.calls \in Nat /\ transcript.resumed \in Nat
    BY TranscriptFields DEF Typed, TypeOK
  <2>. QED  BY <2>1, <2>2 DEF Used, Steps
<1>. QED  BY AccountsHold, <1>1, PTL
=============================================================================
