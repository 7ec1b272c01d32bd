--------------------------- MODULE ChannelsProofs ---------------------------
(***************************************************************************)
(* The message channels, for every number of channels, senders, messages,  *)
(* requests, starts and failed saves, and every length of ledger and queue.*)
(*                                                                         *)
(* That a stopped channel is quiet and that an open request has its        *)
(* confirmation follow from what holds of each channel alone (Sound) and   *)
(* of the one action of an owner (Owned): no step changes two channels     *)
(* except the restart of the process.  That a message is given to the      *)
(* agent once follows from the ledger: what is queued or was given is in   *)
(* the ledger in memory and in the one on disk, unless it was forgotten,   *)
(* and nothing is queued twice (Recorded, Once).                           *)
(***************************************************************************)
EXTENDS Channels, SequenceTheorems, TLAPS

Owners == [what : Whats \union {"shutdown"}, kind : Kinds \union {None}, todo : SUBSET Kinds]

Counted ==
  /\ Len(sent) <= MaxMessages
  /\ asked \in [Messages -> 0 .. 2] /\ forgotten \subseteq Messages
  /\ owner \in Owners \union {None}

\* The channels an action has dealt with are stopped; shutdown deals with all.
Owned ==
  /\ owner # None /\ owner.what # "shutdown" =>
       /\ owner.kind \in Kinds /\ closing \in {"no", "asked"}
       /\ owner.kind \in owner.todo \/ job[owner.kind] = "none"
  /\ owner # None /\ owner.what = "shutdown" =>
       closing = "stopping" /\ \A k \in Kinds : k \in owner.todo \/ job[k] = "none"
  /\ closing = "closed" => owner = None /\ \A k \in Kinds : job[k] = "none"

Message == [route : Routes, word : AllWords, to : Ids]

Sound(k) ==
  /\ \A i \in DOMAIN queue[k] : queue[k][i] \in 1 .. Len(sent)
  /\ InTask(k) => worker[k].message \in 1 .. Len(sent)
  /\ worker[k].pc \in {"prompting", "waiting"} => worker[k].op \in Ops
  /\ pending[k] # None => reply[k] = None
  /\ pending[k] # None \/ reply[k] # None => worker[k].pc \in {"prompting", "waiting"}
  /\ adapter[k].pc \in {"off", "binding"} => worker[k].pc = "off" /\ queue[k] = <<>>
  /\ job[k] = "none" => adapter[k].pc = "off"

IInv == TypeOK /\ Counted /\ Owned /\ \A k \in Kinds : Sound(k)

----------------------------------------------------------------------------
(* The data *)

LEMMA Constants ==
  /\ MaxMessages \in Nat /\ MaxRequests \in Nat /\ SeenLimit \in Nat \ {0} /\ QueueLimit \in Nat \ {0}
  /\ 0 \in Ids /\ 0 \in 0 .. MaxMessages
BY ChannelsAssumption, LenProperties DEF MaxMessages, Ids

LEMMA IdleType == Idle \in Worker /\ Idle.pc = "idle" /\ WorkerOff \in Worker /\ WorkerOff.pc = "off"
<1>1. Idle \in Worker /\ Idle.pc = "idle"
  BY Constants DEF Idle, Worker
<1>2. WorkerOff \in Worker /\ WorkerOff.pc = "off"
  BY Constants DEF WorkerOff, Idle, Worker
<1>3. QED
  BY <1>1, <1>2

AdapterPCs == {"off", "binding", "connect", "poll", "intake", "drain"}

LEMMA AdapterType ==
  /\ AdapterOff \in Adapter /\ AdapterOff.pc = "off"
  /\ \A pc \in AdapterPCs : [AdapterOff EXCEPT !.pc = pc] \in Adapter /\ [AdapterOff EXCEPT !.pc = pc].pc = pc
BY DEF AdapterOff, Adapter, AdapterPCs

LEMMA FreshType == Fresh \in State /\ Fresh.seen = <<>>
BY DEF Fresh, State

\* Saved states keep their type; the ledger changes only where a message comes in.
LEMMA StateChanges ==
  ASSUME NEW s \in State
  PROVE  /\ \A k \in Kinds : LET next == [s EXCEPT !.bound = @ \union {k}, !.enabled = @ \union {k}, !.cursor[k] = 0]
                             IN  next \in State /\ next.seen = s.seen
         /\ \A k \in Kinds, n \in Nat : [s EXCEPT !.cursor[k] = n] \in State /\ [s EXCEPT !.cursor[k] = n].seen = s.seen
         /\ \A r \in Routes : LET next == [s EXCEPT !.generation[r] = @ + 1] IN next \in State /\ next.seen = s.seen
         /\ \A op \in Ops : LET next == [s EXCEPT !.allowed = @ \union {op}] IN next \in State /\ next.seen = s.seen
         /\ \A op : LET next == [s EXCEPT !.allowed = @ \ {op}] IN next \in State /\ next.seen = s.seen
         /\ \A seen \in Seq(Messages) : LET next == [s EXCEPT !.seen = seen] IN next \in State /\ next.seen = seen
<1>1. \A k \in Kinds : LET next == [s EXCEPT !.bound = @ \union {k}, !.enabled = @ \union {k}, !.cursor[k] = 0]
                       IN  next \in State /\ next.seen = s.seen
  BY DEF State
<1>2. \A k \in Kinds, n \in Nat : [s EXCEPT !.cursor[k] = n] \in State /\ [s EXCEPT !.cursor[k] = n].seen = s.seen
  BY DEF State
<1>3. \A r \in Routes : LET next == [s EXCEPT !.generation[r] = @ + 1] IN next \in State /\ next.seen = s.seen
  <2> TAKE r \in Routes
  <2>1. s.generation \in [Routes -> Nat]
    BY DEF State
  <2> DEFINE generation == [s.generation EXCEPT ![r] = @ + 1]
  <2>2. s.generation[r] + 1 \in Nat
    BY <2>1
  <2>3. generation \in [Routes -> Nat]
    BY <2>1, <2>2
  <2> HIDE DEF generation
  <2>4. [s EXCEPT !.generation = generation] \in State /\ [s EXCEPT !.generation = generation].seen = s.seen
    BY <2>3 DEF State
  <2>5. QED
    BY <2>4 DEF generation
<1>4. \A op \in Ops : LET next == [s EXCEPT !.allowed = @ \union {op}] IN next \in State /\ next.seen = s.seen
  BY DEF State
<1>5. \A op : LET next == [s EXCEPT !.allowed = @ \ {op}] IN next \in State /\ next.seen = s.seen
  BY DEF State
<1>6. \A seen \in Seq(Messages) : LET next == [s EXCEPT !.seen = seen] IN next \in State /\ next.seen = seen
  BY DEF State
<1>7. QED
  BY <1>1, <1>2, <1>3, <1>4, <1>5, <1>6

LEMMA EditedType ==
  ASSUME saved \in State, NEW k \in Kinds, NEW what \in Whats
  PROVE  Edited(what, k) \in State /\ Edited(what, k).seen = saved.seen
<1>1. CASE what = "start"
  BY <1>1 DEF Edited, State
<1>2. CASE what \in {"stop", "bind"}
  BY <1>2 DEF Edited, State
<1>3. CASE what = "forget"
  BY <1>3 DEF Edited, State
<1>4. QED
  BY <1>1, <1>2, <1>3 DEF Whats

LEMMA AdaptersType == IInv => adapter \in [Kinds -> Adapter]
BY DEF IInv, TypeOK

LEMMA WorkersType == IInv => worker \in [Kinds -> Worker]
BY DEF IInv, TypeOK

\* A message of the senders, and the sender of a queued message and of a task.
LEMMA MessageType ==
  ASSUME IInv, NEW m \in 1 .. Len(sent)
  PROVE  m \in Messages /\ sent[m].route \in Routes /\ sent[m].word \in AllWords /\ sent[m].to \in Ids
<1>1. Len(sent) \in Nat /\ m \in DOMAIN sent
  BY LenProperties DEF IInv, TypeOK
<1>2. sent[m] \in Message
  BY <1>1, ElementOfSeq DEF IInv, TypeOK, Message
<1>3. QED
  BY <1>1, <1>2, Constants DEF IInv, Counted, Messages, Message

LEMMA QueueHead ==
  ASSUME IInv, NEW k \in Kinds, queue[k] # <<>>
  PROVE  /\ Head(queue[k]) \in 1 .. Len(sent) /\ Head(queue[k]) = queue[k][1]
         /\ Tail(queue[k]) \in Seq(Messages) /\ Len(Tail(queue[k])) = Len(queue[k]) - 1
         /\ \A i \in DOMAIN Tail(queue[k]) : i + 1 \in DOMAIN queue[k] /\ Tail(queue[k])[i] = queue[k][i + 1]
<1>1. queue[k] \in Seq(Messages)
  BY DEF IInv, TypeOK
<1>2. 1 \in DOMAIN queue[k]
  BY <1>1, EmptySeq, LenProperties
<1>3. Head(queue[k]) \in 1 .. Len(sent) /\ Head(queue[k]) = queue[k][1]
  BY <1>1, <1>2, HeadTailProperties DEF IInv, Sound
<1>4. QED
  BY <1>1, <1>3, HeadTailProperties, LenProperties

LEMMA TaskRoute ==
  ASSUME IInv, NEW k \in Kinds, InTask(k)
  PROVE  worker[k].message \in 1 .. Len(sent) /\ Route(k) \in Routes
BY MessageType DEF IInv, Sound, Route

----------------------------------------------------------------------------
(* Steps of one channel *)

\* The others stay as they are.
Only(k) ==
  \A j \in Kinds \ {k} :
    /\ adapter'[j] = adapter[j] /\ worker'[j] = worker[j] /\ queue'[j] = queue[j]
    /\ pending'[j] = pending[j] /\ reply'[j] = reply[j]

LEMMA OtherSound ==
  ASSUME NEW j, Sound(j), sent \in Seq(Message),
         sent' \in Seq(Message), Len(sent) <= Len(sent'),
         adapter'[j] = adapter[j], worker'[j] = worker[j], queue'[j] = queue[j],
         pending'[j] = pending[j], reply'[j] = reply[j], job'[j] = job[j]
  PROVE  Sound(j)'
<1>1. \A m \in 1 .. Len(sent) : m \in 1 .. Len(sent')
  BY LenProperties
<1>2. QED
  BY <1>1 DEF Sound, InTask

LEMMA ChannelStep ==
  ASSUME IInv, TypeOK', NEW k \in Kinds, Only(k), Sound(k)', UNCHANGED <<job, owner, closing>>,
         Len(sent) <= Len(sent'), Len(sent') <= MaxMessages,
         asked' \in [Messages -> 0 .. 2], forgotten' \subseteq Messages
  PROVE  IInv'
<1>1. \A j \in Kinds : Sound(j)'
  <2> SUFFICES ASSUME NEW j \in Kinds, j # k PROVE Sound(j)'
    OBVIOUS
  <2>1. QED
    BY OtherSound DEF IInv, TypeOK, Only, Message
<1>2. Counted' /\ Owned'
  BY DEF IInv, Counted, Owned
<1>3. QED
  BY <1>1, <1>2 DEF IInv

\* No message comes in, none is forgotten and none is given to the agent.
LEMMA PlainStep ==
  ASSUME IInv, TypeOK', NEW k \in Kinds, Only(k), Sound(k)',
         UNCHANGED <<sent, job, owner, closing, asked, forgotten>>
  PROVE  IInv'
<1>1. Len(sent) <= Len(sent') /\ Len(sent') <= MaxMessages
  BY LenProperties DEF IInv, TypeOK, Counted
<1>2. QED
  BY <1>1, ChannelStep DEF IInv, Counted

\* What a step does to one channel it leaves alone in the others.
OneAdapter(k) == adapter' \in [Kinds -> Adapter] /\ \A j \in Kinds \ {k} : adapter'[j] = adapter[j]
OneWorker(k) == worker' \in [Kinds -> Worker] /\ \A j \in Kinds \ {k} : worker'[j] = worker[j]
OneQueue(k) == queue' \in [Kinds -> Seq(Messages)] /\ \A j \in Kinds \ {k} : queue'[j] = queue[j]
OneDialog(k) ==
  /\ pending' \in [Kinds -> Pending \union {None}] /\ \A j \in Kinds \ {k} : pending'[j] = pending[j]
  /\ reply' \in [Kinds -> Choices \union {"deny", None}] /\ \A j \in Kinds \ {k} : reply'[j] = reply[j]

LEMMA NoneTouched ==
  ASSUME IInv, NEW k \in Kinds
  PROVE  /\ adapter' = adapter => OneAdapter(k)
         /\ worker' = worker => OneWorker(k)
         /\ queue' = queue => OneQueue(k)
         /\ pending' = pending /\ reply' = reply => OneDialog(k)
BY DEF IInv, TypeOK, OneAdapter, OneWorker, OneQueue, OneDialog

LEMMA AdapterMoves ==
  ASSUME IInv, NEW k \in Kinds, adapter[k].pc # "off",
         OneAdapter(k),
         adapter'[k].pc \notin {"off", "binding"} \/ (worker[k].pc = "off" /\ queue[k] = <<>>),
         UNCHANGED <<shown, job, owner, closing, queue, worker, pending, reply, grants, requests, asked>>,
         saved' \in State, disk' \in State, forgotten' \subseteq Messages,
         sent' \in Seq(Message), Len(sent) <= Len(sent'), Len(sent') <= MaxMessages
  PROVE  IInv'
<1>1. TypeOK'
  BY DEF IInv, TypeOK, Message, OneAdapter
<1>2. Only(k)
  BY DEF Only, OneAdapter
<1>3. Sound(k)'
  <2>1. Sound(k) /\ \A m \in 1 .. Len(sent) : m \in 1 .. Len(sent')
    BY LenProperties DEF IInv, TypeOK, Message
  <2>2. QED
    BY <2>1 DEF Sound, InTask
<1>4. QED
  BY <1>1, <1>2, <1>3, ChannelStep DEF IInv, Counted

\* The adapter alone moves.
LEMMA AdapterOnly ==
  ASSUME IInv, NEW k \in Kinds, adapter[k].pc # "off",
         OneAdapter(k),
         adapter'[k].pc \notin {"off", "binding"} \/ (worker[k].pc = "off" /\ queue[k] = <<>>),
         UNCHANGED <<outside, control, queue, worker, dialog, grants, requests, history>>,
         saved' \in State, disk' \in State
  PROVE  IInv'
<1>1. /\ UNCHANGED <<sent, shown, job, owner, closing, queue, worker, pending, reply, grants, requests, asked>>
      /\ forgotten' \subseteq Messages
  BY DEF outside, control, dialog, history, IInv, Counted
<1>2. sent' \in Seq(Message) /\ Len(sent) <= Len(sent') /\ Len(sent') <= MaxMessages
  BY <1>1, LenProperties DEF IInv, TypeOK, Counted, Message
<1>3. QED
  BY <1>1, <1>2, AdapterMoves

LEMMA WorkerMoves ==
  ASSUME IInv, NEW k \in Kinds, worker[k].pc # "off",
         OneWorker(k),
         OneQueue(k),
         OneDialog(k),
         \A i \in DOMAIN queue'[k] : queue'[k][i] \in 1 .. Len(sent),
         InTask(k)' => worker'[k].message \in 1 .. Len(sent),
         worker'[k].pc \in {"prompting", "waiting"} => worker'[k].op \in Ops,
         pending'[k] # None => reply'[k] = None,
         pending'[k] # None \/ reply'[k] # None => worker'[k].pc \in {"prompting", "waiting"},
         saved' \in State, disk' \in State, shown' \in [Routes -> Ids],
         grants' \subseteq Routes, requests' \in Ids, asked' \in [Messages -> 0 .. 2],
         UNCHANGED <<sent, job, owner, closing, adapter, forgotten>>
  PROVE  IInv'
<1>1. TypeOK'
  BY DEF IInv, TypeOK, OneWorker, OneQueue, OneDialog
<1>2. Only(k)
  BY DEF Only, OneWorker, OneQueue, OneDialog
<1>3. Sound(k)'
  BY DEF IInv, Sound
<1>4. Len(sent) <= Len(sent') /\ Len(sent') <= MaxMessages
  BY LenProperties DEF IInv, TypeOK, Counted
<1>5. QED
  BY <1>1, <1>2, <1>3, <1>4, ChannelStep DEF IInv, Counted

\* The worker alone moves, within its task or out of it.
LEMMA WorkerOnly ==
  ASSUME IInv, NEW k \in Kinds, worker[k].pc # "off",
         OneWorker(k),
         worker'[k].pc \in {"off", "idle"} \/ (InTask(k) /\ worker'[k].message = worker[k].message),
         worker'[k].pc \in {"prompting", "waiting"} =>
           worker[k].pc \in {"prompting", "waiting"} /\ worker'[k].op = worker[k].op,
         worker[k].pc \in {"prompting", "waiting"} => worker'[k].pc \in {"prompting", "waiting"},
         shown' \in [Routes -> Ids],
         UNCHANGED <<sent, store, control, adapter, queue, dialog, grants, requests, count, history>>
  PROVE  IInv'
<1>1. UNCHANGED <<sent, saved, disk, job, owner, closing, adapter, queue, pending, reply, grants, requests, asked, forgotten>>
  BY DEF store, control, dialog, history
<1>2. Sound(k) /\ TypeOK /\ Counted
  BY DEF IInv
<1>3. \A i \in DOMAIN queue'[k] : queue'[k][i] \in 1 .. Len(sent)
  BY <1>1, <1>2 DEF Sound
<1>4. InTask(k)' => worker'[k].message \in 1 .. Len(sent)
  BY <1>1, <1>2 DEF Sound, InTask
<1>5. worker'[k].pc \in {"prompting", "waiting"} => worker'[k].op \in Ops
  BY <1>2 DEF Sound
<1>6. /\ pending'[k] # None => reply'[k] = None
      /\ pending'[k] # None \/ reply'[k] # None => worker'[k].pc \in {"prompting", "waiting"}
  BY <1>1, <1>2 DEF Sound
<1>7. OneQueue(k) /\ OneDialog(k)
  BY <1>1, NoneTouched
<1>8. /\ saved' \in State /\ disk' \in State /\ grants' \subseteq Routes /\ requests' \in Ids
      /\ asked' \in [Messages -> 0 .. 2]
  BY <1>1, <1>2 DEF TypeOK, Counted
<1>9. QED
  BY <1>1, <1>3, <1>4, <1>5, <1>6, <1>7, <1>8, WorkerMoves

LEMMA GotoType ==
  ASSUME IInv, NEW k \in Kinds, NEW pc \in AdapterPCs, Goto(k, pc)
  PROVE  /\ OneAdapter(k)
         /\ adapter'[k].pc = pc
BY DEF IInv, TypeOK, Goto, Adapter, AdapterPCs, OneAdapter

LEMMA HandledType ==
  ASSUME IInv, NEW k \in Kinds, NEW m \in Nat, NEW sends \in BOOLEAN, Handled(k, m, sends)
  PROVE  /\ OneAdapter(k)
         /\ adapter'[k].pc \in {"intake", "connect"}
<1>1. PICK pc \in {"intake", "connect"} : adapter' = [adapter EXCEPT ![k].pc = pc, ![k].next = m]
  BY DEF Handled
<1>2. QED
  BY <1>1, AdaptersType DEF Adapter, OneAdapter

LEMMA Persisted ==
  ASSUME IInv, NEW next \in State, Persist(next) \/ PersistFails(next)
  PROVE  disk' \in State
BY DEF IInv, TypeOK, Persist, PersistFails

LEMMA SendSafe ==
  ASSUME IInv, NEW r \in Routes, NEW word \in AllWords, Send(r, word)
  PROVE  IInv'
<1> DEFINE k == KindOf[r]
<1> DEFINE message == [route |-> r, word |-> word, to |-> IF word = "confirm" THEN shown[r] ELSE 0]
<1>1. k \in Kinds /\ message \in Message
  BY ChannelsAssumption, Constants DEF IInv, TypeOK, Message
<1>2. /\ adapter[k].pc \in {"poll", "intake"} /\ Goto(k, "intake")
      /\ Len(sent) < MaxMessages /\ sent' = Append(sent, message)
      /\ UNCHANGED <<shown, job, owner, closing, queue, worker, pending, reply, grants, requests, asked>>
      /\ UNCHANGED <<saved, disk, forgotten>>
  BY DEF Send, store, control, dialog, history
<1> HIDE DEF k, message
<1>3. sent \in Seq(Message) /\ MaxMessages \in Nat /\ Len(sent) \in Nat
  BY Constants, LenProperties DEF IInv, TypeOK, Message
<1>4. sent' \in Seq(Message) /\ Len(sent) <= Len(sent') /\ Len(sent') <= MaxMessages
  BY <1>1, <1>2, <1>3, AppendProperties
<1>5. "intake" \in AdapterPCs
  BY DEF AdapterPCs
<1>6. /\ OneAdapter(k)
      /\ adapter'[k].pc = "intake"
  BY <1>1, <1>2, <1>5, GotoType
<1>7. saved' \in State /\ disk' \in State /\ forgotten' \subseteq Messages
  BY <1>2 DEF IInv, TypeOK, Counted
<1>8. adapter[k].pc # "off" /\ adapter'[k].pc \notin {"off", "binding"}
  BY <1>2, <1>6
<1>9. QED
  BY <1>1, <1>2, <1>4, <1>6, <1>7, <1>8, AdapterMoves

LEMMA MoveSafe ==
  ASSUME IInv, NEW k \in Kinds, Connect(k) \/ Poll(k) \/ Disconnect(k) \/ Drain(k)
  PROVE  IInv'
<1>1. /\ adapter[k].pc \in {"connect", "poll"}
      /\ UNCHANGED <<outside, store, control, queue, worker, dialog, grants, requests, history>>
  BY DEF Connect, Poll, Disconnect, Drain
<1>2. saved' \in State /\ disk' \in State
  BY <1>1 DEF store, IInv, TypeOK
<1>3. /\ OneAdapter(k)
      /\ adapter'[k].pc \notin {"off", "binding"}
  <2>1. CASE Connect(k)
    <3>1. saved.cursor[k] \in Nat
      BY DEF IInv, TypeOK, State
    <3>2. QED
      BY <2>1, <3>1 DEF Connect, IInv, TypeOK, Adapter, OneAdapter
  <2>2. CASE Goto(k, "intake") \/ Goto(k, "connect") \/ Goto(k, "drain")
    BY <2>2, GotoType DEF AdapterPCs
  <2>3. QED
    BY <2>1, <2>2 DEF Poll, Disconnect, Drain
<1>4. QED
  BY <1>1, <1>2, <1>3, AdapterOnly

LEMMA EndBatchSafe ==
  ASSUME IInv, NEW k \in Kinds, EndBatch(k)
  PROVE  IInv'
<1> DEFINE next == [saved EXCEPT !.cursor[k] = adapter[k].next]
<1>1. saved \in State /\ adapter[k].next \in Nat
  BY DEF IInv, TypeOK, Adapter
<1>2. next \in State
  BY <1>1, StateChanges
<1> HIDE DEF next
<1>3. /\ adapter[k].pc = "intake" /\ saved' = next
      /\ \/ Persist(next) /\ adapter' = [adapter EXCEPT ![k].pc = "poll", ![k].cursor = adapter[k].next]
         \/ PersistFails(next) /\ Goto(k, "connect")
      /\ UNCHANGED <<outside, control, queue, worker, dialog, grants, requests, history>>
  BY DEF EndBatch, next
<1>4. saved' \in State /\ disk' \in State
  BY <1>2, <1>3, Persisted
<1>5. /\ OneAdapter(k)
      /\ adapter'[k].pc \in {"poll", "connect"}
  <2>1. CASE adapter' = [adapter EXCEPT ![k].pc = "poll", ![k].cursor = adapter[k].next]
    BY <1>1, <2>1, AdaptersType DEF Adapter, OneAdapter
  <2>2. CASE Goto(k, "connect")
    BY <2>2, GotoType DEF AdapterPCs
  <2>3. QED
    BY <1>3, <2>1, <2>2
<1>6. adapter[k].pc # "off" /\ adapter'[k].pc \notin {"off", "binding"}
  BY <1>3, <1>5
<1>7. QED
  BY <1>3, <1>4, <1>5, <1>6, AdapterOnly

LEMMA BindSafe ==
  ASSUME IInv, NEW k \in Kinds, Bind(k)
  PROVE  IInv'
<1> DEFINE next == [saved EXCEPT !.bound = @ \union {k}, !.enabled = @ \union {k}, !.cursor[k] = 0]
<1>1. saved \in State /\ disk \in State /\ next \in State
  BY StateChanges DEF IInv, TypeOK
<1> HIDE DEF next
<1>2. /\ adapter[k].pc = "binding"
      /\ UNCHANGED <<outside, control, queue, dialog, grants, requests, history>>
      /\ \/ saved' = next /\ Persist(next) /\ Goto(k, "connect") /\ worker' = [worker EXCEPT ![k] = Idle]
         \/ saved' = next /\ PersistFails(next) /\ Goto(k, "off") /\ UNCHANGED worker
         \/ Goto(k, "off") /\ UNCHANGED <<saved, disk, worker, count>>
  BY DEF Bind, next
<1>3. worker[k].pc = "off" /\ queue[k] = <<>> /\ pending[k] = None /\ reply[k] = None /\ job[k] # "none"
  BY <1>2 DEF IInv, Sound
<1>4. saved' \in State /\ disk' \in State
  BY <1>1, <1>2, Persisted
<1>5. CASE Goto(k, "off") /\ UNCHANGED worker
  <2>1. OneAdapter(k) /\ adapter'[k].pc = "off" /\ adapter[k].pc # "off"
    BY <1>2, <1>5, GotoType DEF AdapterPCs
  <2>2. QED
    BY <1>2, <1>3, <1>4, <1>5, <2>1, AdapterOnly
<1>6. CASE Goto(k, "connect") /\ worker' = [worker EXCEPT ![k] = Idle]
  <2>1. OneAdapter(k) /\ adapter'[k].pc = "connect"
    BY <1>6, GotoType DEF AdapterPCs
  <2>2. OneWorker(k) /\ worker'[k].pc = "idle"
    BY <1>6, IdleType DEF IInv, TypeOK, OneWorker
  <2>3. UNCHANGED <<sent, shown, job, owner, closing, queue, pending, reply, grants, requests, asked, forgotten>>
    BY <1>2 DEF outside, control, dialog, history
  <2>4. TypeOK'
    BY <1>4, <2>1, <2>2, <2>3 DEF IInv, TypeOK, OneAdapter, OneWorker
  <2>5. Only(k)
    BY <2>1, <2>2, <2>3 DEF Only, OneAdapter, OneWorker
  <2>6. Sound(k)'
    BY <1>3, <2>1, <2>2, <2>3 DEF Sound, InTask
  <2>7. QED
    BY <2>3, <2>4, <2>5, <2>6, PlainStep
<1>7. QED
  BY <1>2, <1>5, <1>6

LEMMA AdapterEndsSafe ==
  ASSUME IInv, NEW k \in Kinds, AdapterEnds(k)
  PROVE  IInv'
<1>1. /\ worker[k].pc = "off" /\ adapter' = [adapter EXCEPT ![k] = AdapterOff]
      /\ queue' = [queue EXCEPT ![k] = <<>>]
      /\ UNCHANGED <<sent, shown, saved, disk, job, owner, closing, worker, pending, reply, grants, requests, asked, forgotten>>
  BY DEF AdapterEnds, IInv, Sound, outside, store, control, dialog, history
<1>2. OneAdapter(k) /\ adapter'[k].pc = "off"
  BY <1>1, AdapterType DEF IInv, TypeOK, OneAdapter
<1>3. OneQueue(k) /\ queue'[k] = <<>>
  BY <1>1, EmptySeq DEF IInv, TypeOK, OneQueue
<1>4. TypeOK'
  BY <1>1, <1>2, <1>3 DEF IInv, TypeOK, OneAdapter, OneQueue
<1>5. Only(k)
  BY <1>1, <1>2, <1>3 DEF Only, OneAdapter, OneQueue
<1>6. Sound(k)'
  BY <1>1, <1>2, <1>3, EmptySeq DEF IInv, Sound, InTask
<1>7. QED
  BY <1>1, <1>4, <1>5, <1>6, PlainStep

LEMMA SeenAfterType ==
  ASSUME saved \in State, NEW m \in Messages
  PROVE  SeenAfter(m) \in Seq(Messages) /\ [saved EXCEPT !.seen = SeenAfter(m)] \in State
         /\ [saved EXCEPT !.seen = SeenAfter(m)].seen = SeenAfter(m)
<1>1. saved.seen \in Seq(Messages)
  BY DEF State
<1>2. Append(saved.seen, m) \in Seq(Messages) /\ Append(saved.seen, m) # <<>>
  BY <1>1, AppendProperties
<1>3. SeenAfter(m) \in Seq(Messages)
  BY <1>2, HeadTailProperties DEF SeenAfter
<1>4. QED
  BY <1>3, StateChanges

\* What becomes of a message that is taken in.
LEMMA IntakeCases ==
  ASSUME IInv, NEW k \in Kinds, Intake(k)
  PROVE  \E m \in 1 .. Len(sent) :
           /\ m \in Messages /\ adapter[k].pc = "intake"
           /\ UNCHANGED <<sent, shown, job, owner, closing, grants, requests, asked>>
           /\ saved' \in State /\ disk' \in State /\ forgotten' \subseteq Messages
           /\ \/ /\ OneAdapter(k) /\ adapter'[k].pc \in {"intake", "connect"}
                 /\ UNCHANGED <<queue, worker, pending, reply>>
              \/ Decide(k, m) \/ CancelTask(k, m) \/ Enqueue(k, m)
<1>1. PICK m \in Messages :
        LET next == [saved EXCEPT !.seen = SeenAfter(m)] IN
        /\ adapter[k].pc = "intake" /\ IsNext(k, m)
        /\ UNCHANGED <<outside, control, grants, requests, asked>>
        /\ \/ Remembered(m) /\ Handled(k, m, FALSE) /\ UNCHANGED <<store, queue, worker, dialog, count, forgotten>>
           \/ /\ saved' = next
              /\ forgotten' = IF Len(saved.seen) = SeenLimit THEN forgotten \union {Head(saved.seen)} ELSE forgotten
              /\ \/ Persist(next) /\ (Decide(k, m) \/ CancelTask(k, m) \/ Enqueue(k, m))
                 \/ PersistFails(next) /\ Goto(k, "connect") /\ UNCHANGED <<queue, worker, dialog>>
  BY DEF Intake
<1> DEFINE next == [saved EXCEPT !.seen = SeenAfter(m)]
<1>2. saved \in State /\ disk \in State /\ next \in State /\ forgotten \subseteq Messages
  BY SeenAfterType DEF IInv, TypeOK, Counted
<1>3. m \in 1 .. Len(sent) /\ m \in Nat
  BY <1>1, LenProperties DEF IInv, TypeOK, Adapter, IsNext, Later, Messages
<1>4. UNCHANGED <<sent, shown, job, owner, closing, grants, requests, asked>>
  BY <1>1 DEF outside, control
<1>5. CASE Remembered(m) /\ Handled(k, m, FALSE) /\ UNCHANGED <<store, queue, worker, dialog, count, forgotten>>
  <2>1. OneAdapter(k) /\ adapter'[k].pc \in {"intake", "connect"}
    BY <1>3, <1>5, HandledType
  <2>2. UNCHANGED <<saved, disk, queue, worker, pending, reply, forgotten>>
    BY <1>5 DEF store, dialog
  <2>3. QED
    BY <1>1, <1>2, <1>3, <1>4, <2>1, <2>2
<1>6. CASE /\ saved' = next
           /\ forgotten' = IF Len(saved.seen) = SeenLimit THEN forgotten \union {Head(saved.seen)} ELSE forgotten
           /\ \/ Persist(next) /\ (Decide(k, m) \/ CancelTask(k, m) \/ Enqueue(k, m))
              \/ PersistFails(next) /\ Goto(k, "connect") /\ UNCHANGED <<queue, worker, dialog>>
  <2> HIDE DEF next
  <2>1. saved' \in State /\ disk' \in State
    BY <1>2, <1>6, Persisted
  <2>2. forgotten' \subseteq Messages
    <3>1. Len(saved.seen) = SeenLimit => Head(saved.seen) \in Messages
      <4>1. saved.seen \in Seq(Messages)
        BY <1>2 DEF State
      <4>2. QED
        BY <4>1, Constants, EmptySeq, HeadTailProperties
    <3>2. QED
      BY <1>2, <1>6, <3>1
  <2>3. CASE Goto(k, "connect") /\ UNCHANGED <<queue, worker, dialog>>
    <3>1. OneAdapter(k) /\ adapter'[k].pc \in {"intake", "connect"}
      BY <2>3, GotoType DEF AdapterPCs
    <3>2. UNCHANGED <<queue, worker, pending, reply>>
      BY <2>3 DEF dialog
    <3>3. QED
      BY <1>1, <1>3, <1>4, <2>1, <2>2, <3>1, <3>2
  <2>4. CASE Decide(k, m) \/ CancelTask(k, m) \/ Enqueue(k, m)
    BY <1>1, <1>3, <1>4, <2>1, <2>2, <2>4
  <2>5. QED
    BY <1>6, <2>3, <2>4
<1>7. QED
  BY <1>1, <1>5, <1>6

\* What holds of a channel whose adapter has taken a message in.
LEMMA IntakeStep ==
  ASSUME IInv, NEW k \in Kinds, adapter[k].pc = "intake",
         UNCHANGED <<sent, shown, job, owner, closing, grants, requests, asked>>,
         saved' \in State, disk' \in State, forgotten' \subseteq Messages,
         OneAdapter(k), adapter'[k].pc \in {"intake", "connect"},
         OneWorker(k), worker'[k].pc = worker[k].pc, worker'[k].message = worker[k].message,
         worker'[k].op = worker[k].op,
         OneQueue(k), \A i \in DOMAIN queue'[k] : queue'[k][i] \in 1 .. Len(sent),
         OneDialog(k), pending'[k] # None => reply'[k] = None,
         pending'[k] # None \/ reply'[k] # None => pending[k] # None \/ reply[k] # None
  PROVE  IInv'
<1>1. TypeOK'
  BY DEF IInv, TypeOK, OneAdapter, OneWorker, OneQueue, OneDialog
<1>2. Only(k)
  BY DEF Only, OneAdapter, OneWorker, OneQueue, OneDialog
<1>3. Sound(k)'
  BY DEF IInv, Sound, InTask
<1>4. Len(sent) <= Len(sent') /\ Len(sent') <= MaxMessages
  BY LenProperties DEF IInv, TypeOK, Counted
<1>5. QED
  BY <1>1, <1>2, <1>3, <1>4, ChannelStep DEF IInv, Counted

LEMMA IntakeSafe ==
  ASSUME IInv, NEW k \in Kinds, Intake(k)
  PROVE  IInv'
<1>1. PICK m \in 1 .. Len(sent) :
           /\ m \in Messages /\ adapter[k].pc = "intake"
           /\ UNCHANGED <<sent, shown, job, owner, closing, grants, requests, asked>>
           /\ saved' \in State /\ disk' \in State /\ forgotten' \subseteq Messages
           /\ \/ /\ OneAdapter(k) /\ adapter'[k].pc \in {"intake", "connect"}
                 /\ UNCHANGED <<queue, worker, pending, reply>>
              \/ Decide(k, m) \/ CancelTask(k, m) \/ Enqueue(k, m)
  BY IntakeCases
<1>2. m \in Nat /\ \A i \in DOMAIN queue[k] : queue[k][i] \in 1 .. Len(sent)
  BY DEF IInv, Sound, Messages
<1>3. pending[k] # None => reply[k] = None
  BY DEF IInv, Sound
<1>4. CASE /\ OneAdapter(k) /\ adapter'[k].pc \in {"intake", "connect"}
           /\ UNCHANGED <<queue, worker, pending, reply>>
  <2>1. OneWorker(k) /\ OneQueue(k) /\ OneDialog(k)
    BY <1>4, NoneTouched
  <2>2. QED
    BY <1>1, <1>2, <1>3, <1>4, <2>1, IntakeStep
<1>5. CASE Decide(k, m)
  <2>1. /\ Handled(k, m, FALSE) \/ Handled(k, m, TRUE)
        /\ UNCHANGED <<queue, worker>>
        /\ \/ UNCHANGED <<pending, reply>>
           \/ /\ pending[k] # None /\ pending' = [pending EXCEPT ![k] = None]
              /\ sent[m].word \in Choices \union {"deny", "confirm"}
              /\ reply' = [reply EXCEPT ![k] = IF sent[m].word = "confirm" THEN "approve" ELSE sent[m].word]
    BY <1>5 DEF Decide, Decides, dialog
  <2>2. OneAdapter(k) /\ adapter'[k].pc \in {"intake", "connect"}
    BY <1>2, <2>1, HandledType
  <2>3. OneWorker(k) /\ OneQueue(k)
    BY <2>1, NoneTouched
  <2>4. CASE UNCHANGED <<pending, reply>>
    <3>1. OneDialog(k)
      BY <2>4, NoneTouched
    <3>2. QED
      BY <1>1, <1>2, <1>3, <2>1, <2>2, <2>3, <2>4, <3>1, IntakeStep
  <2>5. CASE /\ pending[k] # None /\ pending' = [pending EXCEPT ![k] = None]
             /\ sent[m].word \in Choices \union {"deny", "confirm"}
             /\ reply' = [reply EXCEPT ![k] = IF sent[m].word = "confirm" THEN "approve" ELSE sent[m].word]
    <3>1. OneDialog(k) /\ pending'[k] = None
      BY <2>5 DEF IInv, TypeOK, OneDialog, Choices
    <3>2. QED
      BY <1>1, <1>2, <2>1, <2>2, <2>3, <2>5, <3>1, IntakeStep
  <2>6. QED
    BY <2>1, <2>4, <2>5
<1>6. CASE CancelTask(k, m)
  <2>1. /\ Handled(k, m, TRUE) /\ UNCHANGED <<queue, pending, reply>>
        /\ worker' \in {worker, [worker EXCEPT ![k].cancel = TRUE]}
    BY <1>6 DEF CancelTask, dialog
  <2>2. OneAdapter(k) /\ adapter'[k].pc \in {"intake", "connect"}
    BY <1>2, <2>1, HandledType
  <2>3. OneQueue(k) /\ OneDialog(k)
    BY <2>1, NoneTouched
  <2>4. /\ OneWorker(k) /\ worker'[k].pc = worker[k].pc
        /\ worker'[k].message = worker[k].message /\ worker'[k].op = worker[k].op
    <3>1. CASE worker' = worker
      BY <3>1, NoneTouched
    <3>2. CASE worker' = [worker EXCEPT ![k].cancel = TRUE]
      BY <3>2, WorkersType DEF Worker, OneWorker
    <3>3. QED
      BY <2>1, <3>1, <3>2
  <2>5. QED
    BY <1>1, <1>2, <1>3, <2>1, <2>2, <2>3, <2>4, IntakeStep
<1>7. CASE Enqueue(k, m)
  <2>1. /\ Handled(k, m, FALSE) \/ Handled(k, m, TRUE)
        /\ UNCHANGED <<worker, pending, reply>>
        /\ queue' \in {queue, [queue EXCEPT ![k] = Append(@, m)]}
    BY <1>7 DEF Enqueue, dialog
  <2>2. OneAdapter(k) /\ adapter'[k].pc \in {"intake", "connect"}
    BY <1>2, <2>1, HandledType
  <2>3. OneWorker(k) /\ OneDialog(k)
    BY <2>1, NoneTouched
  <2>4. queue[k] \in Seq(Messages)
    BY DEF IInv, TypeOK
  <2>5. /\ Append(queue[k], m) \in Seq(Messages)
        /\ \A i \in DOMAIN Append(queue[k], m) : Append(queue[k], m)[i] \in 1 .. Len(sent)
    BY <1>1, <1>2, <2>4, AppendProperties, LenProperties
  <2>6. OneQueue(k) /\ \A i \in DOMAIN queue'[k] : queue'[k][i] \in 1 .. Len(sent)
    BY <1>2, <2>1, <2>5 DEF IInv, TypeOK, OneQueue
  <2>7. QED
    BY <1>1, <1>3, <2>1, <2>2, <2>3, <2>6, IntakeStep
<1>8. QED
  BY <1>1, <1>4, <1>5, <1>6, <1>7

----------------------------------------------------------------------------
(* The worker *)

LEMMA NewConversationSafe ==
  ASSUME IInv, NEW k \in Kinds, NewConversation(k)
  PROVE  IInv'
<1> DEFINE r == sent[Head(queue[k])].route
<1> DEFINE next == [saved EXCEPT !.generation[r] = @ + 1]
<1>1. queue[k] # <<>> /\ worker[k].pc = "idle"
  BY DEF NewConversation, WorkerAt, HeadIs
<1>2. r \in Routes
  BY <1>1, QueueHead, MessageType
<1> HIDE DEF r
<1>3. next \in State
  BY <1>2, StateChanges DEF IInv, TypeOK
<1> HIDE DEF next
<1>4. /\ queue' = [queue EXCEPT ![k] = Tail(@)]
      /\ saved' = next /\ (Persist(next) \/ PersistFails(next)) /\ grants' \in {grants, grants \ {r}}
      /\ UNCHANGED <<sent, shown, job, owner, closing, adapter, worker, pending, reply, requests, asked, forgotten>>
  BY DEF NewConversation, outside, control, dialog, history, r, next
<1>5. /\ saved' \in State /\ disk' \in State /\ shown' \in [Routes -> Ids]
      /\ grants' \subseteq Routes /\ requests' \in Ids /\ asked' \in [Messages -> 0 .. 2]
  BY <1>3, <1>4, Persisted DEF IInv, TypeOK, Counted
<1>6. OneQueue(k) /\ \A i \in DOMAIN queue'[k] : queue'[k][i] \in 1 .. Len(sent)
  BY <1>1, <1>4, QueueHead DEF IInv, TypeOK, Sound, OneQueue
<1>7. OneWorker(k) /\ OneDialog(k)
  BY <1>4, NoneTouched
<1>8. /\ InTask(k)' => worker'[k].message \in 1 .. Len(sent)
      /\ worker'[k].pc \in {"prompting", "waiting"} => worker'[k].op \in Ops
      /\ pending'[k] # None => reply'[k] = None
      /\ pending'[k] # None \/ reply'[k] # None => worker'[k].pc \in {"prompting", "waiting"}
  BY <1>1, <1>4 DEF IInv, Sound, InTask
<1>9. QED
  BY <1>1, <1>4, <1>5, <1>6, <1>7, <1>8, WorkerMoves

LEMMA TakeSafe ==
  ASSUME IInv, NEW k \in Kinds, Take(k)
  PROVE  IInv'
<1>1. /\ queue[k] # <<>> /\ worker[k].pc = "idle"
      /\ queue' = [queue EXCEPT ![k] = Tail(@)]
      /\ worker' = [worker EXCEPT ![k].pc = "working", ![k].message = Head(queue[k])]
      /\ asked' = [asked EXCEPT ![Head(queue[k])] = IF @ = 2 THEN 2 ELSE @ + 1]
      /\ UNCHANGED <<sent, shown, saved, disk, job, owner, closing, adapter, pending, reply, grants, requests, forgotten>>
  BY DEF Take, WorkerAt, HeadIs, outside, store, control, dialog
<1>2. Head(queue[k]) \in 1 .. Len(sent) /\ Head(queue[k]) \in Messages /\ Head(queue[k]) \in 0 .. MaxMessages
  BY <1>1, QueueHead, MessageType, Constants DEF Messages
<1>3. OneQueue(k) /\ \A i \in DOMAIN queue'[k] : queue'[k][i] \in 1 .. Len(sent)
  BY <1>1, QueueHead DEF IInv, TypeOK, Sound, OneQueue
<1>4. OneWorker(k) /\ worker'[k].pc = "working" /\ worker'[k].message = Head(queue[k])
  <2>1. worker[k] \in Worker /\ worker \in [Kinds -> Worker]
    BY DEF IInv, TypeOK
  <2> DEFINE task == [worker[k] EXCEPT !.pc = "working", !.message = Head(queue[k])]
  <2>2. task \in Worker /\ task.pc = "working" /\ task.message = Head(queue[k])
    BY <1>2, <2>1 DEF Worker
  <2>3. worker' = [worker EXCEPT ![k] = task]
    BY <1>1, <2>1
  <2> HIDE DEF task
  <2>4. QED
    BY <2>1, <2>2, <2>3 DEF OneWorker
<1>5. asked' \in [Messages -> 0 .. 2]
  <2>1. asked \in [Messages -> 0 .. 2]
    BY DEF IInv, Counted
  <2>2. \A n \in 0 .. 2 : (IF n = 2 THEN 2 ELSE n + 1) \in 0 .. 2
    OBVIOUS
  <2>3. QED
    BY <1>1, <1>2, <2>1, <2>2
<1>6. OneDialog(k)
  BY <1>1, NoneTouched
<1>7. /\ saved' \in State /\ disk' \in State /\ shown' \in [Routes -> Ids]
      /\ grants' \subseteq Routes /\ requests' \in Ids
  BY <1>1 DEF IInv, TypeOK
<1>8. /\ InTask(k)' => worker'[k].message \in 1 .. Len(sent)
      /\ worker'[k].pc \in {"prompting", "waiting"} => worker'[k].op \in Ops
      /\ pending'[k] # None => reply'[k] = None
      /\ pending'[k] # None \/ reply'[k] # None => worker'[k].pc \in {"prompting", "waiting"}
  BY <1>1, <1>2, <1>4 DEF IInv, Sound
<1>9. QED
  BY <1>1, <1>3, <1>4, <1>5, <1>6, <1>7, <1>8, WorkerMoves

\* The task is cancelled, ends or goes on to wait; or the worker ends.
LEMMA TaskSafe ==
  ASSUME IInv, NEW k \in Kinds, StopTask(k) \/ FinishTask(k) \/ WorkerEnds(k) \/ SendPrompt(k)
  PROVE  IInv'
<1>1. UNCHANGED <<sent, store, control, adapter, queue, dialog, grants, requests, count, history>>
  BY DEF StopTask, FinishTask, WorkerEnds, SendPrompt, outside
<1>2. shown' \in [Routes -> Ids]
  <2>1. CASE UNCHANGED shown
    BY <2>1 DEF IInv, TypeOK
  <2>2. CASE pending[k] # None /\ shown' = [shown EXCEPT ![Route(k)] = pending[k].id]
    <3>1. pending[k].id \in Ids
      BY <2>2 DEF IInv, TypeOK, Pending
    <3>2. QED
      BY <2>2, <3>1 DEF IInv, TypeOK
  <2>3. QED
    BY <2>1, <2>2 DEF StopTask, FinishTask, WorkerEnds, SendPrompt, outside
<1>3. /\ worker[k].pc # "off" /\ OneWorker(k)
      /\ worker'[k].pc \in {"off", "idle"} \/ (InTask(k) /\ worker'[k].message = worker[k].message)
      /\ worker'[k].pc \in {"prompting", "waiting"} =>
           worker[k].pc \in {"prompting", "waiting"} /\ worker'[k].op = worker[k].op
      /\ worker[k].pc \in {"prompting", "waiting"} => worker'[k].pc \in {"prompting", "waiting"}
  <2>1. CASE StopTask(k)
    BY <2>1, WorkersType DEF StopTask, Worker, OneWorker, InTask
  <2>2. CASE FinishTask(k)
    BY <2>2, IdleType, WorkersType DEF FinishTask, WorkerAt, OneWorker
  <2>3. CASE WorkerEnds(k)
    BY <2>3, IdleType, WorkersType DEF WorkerEnds, WorkerAt, OneWorker
  <2>4. CASE SendPrompt(k)
    BY <2>4, WorkersType DEF SendPrompt, WorkerAt, Worker, OneWorker, InTask
  <2>5. QED
    BY <2>1, <2>2, <2>3, <2>4
<1>4. QED
  BY <1>1, <1>2, <1>3, WorkerOnly

LEMMA ToWorkType ==
  ASSUME IInv, NEW k \in Kinds, NEW refused \in SUBSET Ops, ToWork(k, refused), InTask(k)
  PROVE  OneWorker(k) /\ worker'[k].pc = "working" /\ worker'[k].message \in 1 .. Len(sent)
<1> DEFINE task == [worker[k] EXCEPT !.pc = "working", !.op = None, !.choice = None, !.refused = @ \union refused]
<1>1. worker[k] \in Worker /\ worker \in [Kinds -> Worker] /\ worker[k].message \in 1 .. Len(sent)
  BY DEF IInv, TypeOK, Sound
<1>2. task \in Worker /\ task.pc = "working" /\ task.message = worker[k].message
  BY <1>1 DEF Worker
<1>3. worker' = [worker EXCEPT ![k] = task]
  BY <1>1 DEF ToWork
<1> HIDE DEF task
<1>4. QED
  BY <1>1, <1>2, <1>3 DEF OneWorker

LEMMA OpenRequestType ==
  ASSUME IInv, NEW k \in Kinds, NEW op \in Ops, NEW choice \in Choices \union {None},
         OpenRequest(k, op, choice), InTask(k)
  PROVE  /\ OneWorker(k) /\ worker'[k].pc = "prompting" /\ worker'[k].op = op
         /\ worker'[k].message \in 1 .. Len(sent)
         /\ pending' \in [Kinds -> Pending \union {None}] /\ \A j \in Kinds \ {k} : pending'[j] = pending[j]
         /\ requests' \in Ids
<1> DEFINE task == [worker[k] EXCEPT !.pc = "prompting", !.op = op, !.choice = choice]
<1> DEFINE request == [id |-> requests + 1, strong |-> choice # None, remember |-> choice = None /\ op \notin Root]
<1>1. worker[k] \in Worker /\ worker \in [Kinds -> Worker] /\ worker[k].message \in 1 .. Len(sent)
  BY DEF IInv, TypeOK, Sound
<1>2. task \in Worker /\ task.pc = "prompting" /\ task.op = op /\ task.message = worker[k].message
  BY <1>1 DEF Worker
<1>3. worker' = [worker EXCEPT ![k] = task]
  BY <1>1 DEF OpenRequest
<1>4. requests + 1 \in Ids /\ requests' \in Ids
  BY Constants DEF OpenRequest, IInv, TypeOK, Ids
<1>5. request \in Pending
  BY <1>4 DEF Pending
<1>6. pending' = [pending EXCEPT ![k] = request]
  BY DEF OpenRequest
<1> HIDE DEF task, request
<1>7. pending' \in [Kinds -> Pending \union {None}] /\ \A j \in Kinds \ {k} : pending'[j] = pending[j]
  BY <1>5, <1>6 DEF IInv, TypeOK
<1>8. QED
  BY <1>1, <1>2, <1>3, <1>4, <1>7 DEF OneWorker

\* The confirmation of a worker's task begins, goes on or ends.
LEMMA ConfirmStep ==
  ASSUME IInv, NEW k \in Kinds, InTask(k), OneWorker(k),
         worker'[k].pc \in {"idle", "working", "prompting"},
         InTask(k)' => worker'[k].message \in 1 .. Len(sent),
         worker'[k].pc = "prompting" => worker'[k].op \in Ops,
         OneDialog(k), reply'[k] = None, pending'[k] # None => worker'[k].pc = "prompting",
         saved' \in State, disk' \in State, grants' \subseteq Routes, requests' \in Ids,
         UNCHANGED <<outside, control, adapter, queue, history>>
  PROVE  IInv'
<1>1. UNCHANGED <<sent, shown, job, owner, closing, adapter, queue, asked, forgotten>>
  BY DEF outside, control, history
<1>2. OneQueue(k) /\ \A i \in DOMAIN queue'[k] : queue'[k][i] \in 1 .. Len(sent)
  BY <1>1, NoneTouched DEF IInv, Sound
<1>3. shown' \in [Routes -> Ids] /\ asked' \in [Messages -> 0 .. 2]
  BY <1>1 DEF IInv, TypeOK, Counted
<1>4. /\ worker[k].pc # "off"
      /\ worker'[k].pc \in {"prompting", "waiting"} => worker'[k].op \in Ops
      /\ pending'[k] # None => reply'[k] = None
      /\ pending'[k] # None \/ reply'[k] # None => worker'[k].pc \in {"prompting", "waiting"}
  BY DEF InTask
<1>5. QED
  BY <1>1, <1>2, <1>3, <1>4, WorkerMoves

LEMMA AskSafe ==
  ASSUME IInv, NEW k \in Kinds, NEW op \in Ops, Ask(k, op)
  PROVE  IInv'
<1>1. /\ worker[k].pc = "working" /\ OpenRequest(k, op, None)
      /\ UNCHANGED <<outside, store, control, adapter, queue, reply, grants, count, history>>
  BY DEF Ask, WorkerAt
<1>2. InTask(k) /\ reply[k] = None /\ reply' = reply
  BY <1>1 DEF IInv, Sound, InTask
<1>3. /\ OneWorker(k) /\ worker'[k].pc = "prompting" /\ worker'[k].op = op
      /\ worker'[k].message \in 1 .. Len(sent)
      /\ pending' \in [Kinds -> Pending \union {None}] /\ \A j \in Kinds \ {k} : pending'[j] = pending[j]
      /\ requests' \in Ids
  BY <1>1, <1>2, OpenRequestType
<1>4. OneDialog(k) /\ reply'[k] = None
  BY <1>2, <1>3 DEF OneDialog, IInv, TypeOK
<1>5. saved' \in State /\ disk' \in State /\ grants' \subseteq Routes
  BY <1>1 DEF store, IInv, TypeOK
<1>6. UNCHANGED <<outside, control, adapter, queue, history>>
  BY <1>1
<1>7. QED
  BY <1>2, <1>3, <1>4, <1>5, <1>6, ConfirmStep

LEMMA RefuseSafe ==
  ASSUME IInv, NEW k \in Kinds, PromptFails(k) \/ Unanswered(k)
  PROVE  IInv'
<1>1. /\ worker[k].pc \in {"prompting", "waiting"} /\ Refuse(k)
      /\ UNCHANGED <<outside, store, control, adapter, queue, grants, requests, count, history>>
  BY DEF PromptFails, Unanswered, WorkerAt
<1>2. InTask(k) /\ {worker[k].op} \in SUBSET Ops
  BY <1>1 DEF IInv, Sound, InTask
<1>3. OneWorker(k) /\ worker'[k].pc = "working" /\ worker'[k].message \in 1 .. Len(sent)
  BY <1>1, <1>2, ToWorkType DEF Refuse
<1>4. OneDialog(k) /\ reply'[k] = None /\ pending'[k] = None
  BY <1>1 DEF Refuse, IInv, TypeOK, OneDialog
<1>5. saved' \in State /\ disk' \in State /\ grants' \subseteq Routes /\ requests' \in Ids
  BY <1>1 DEF store, IInv, TypeOK
<1>6. UNCHANGED <<outside, control, adapter, queue, history>>
  BY <1>1
<1>7. QED
  BY <1>2, <1>3, <1>4, <1>5, <1>6, ConfirmStep

LEMMA AnsweredSafe ==
  ASSUME IInv, NEW k \in Kinds, Answered(k)
  PROVE  IInv'
<1>1. /\ worker[k].pc = "waiting" /\ reply[k] \in Choices /\ reply' = [reply EXCEPT ![k] = None]
      /\ UNCHANGED <<outside, control, adapter, queue, history>>
      /\ \/ OpenRequest(k, worker[k].op, reply[k]) /\ UNCHANGED <<store, count, grants>>
         \/ \E choice : Grant(k, choice) /\ UNCHANGED <<pending, requests>>
  BY DEF Answered, WorkerAt, history
<1>2. InTask(k) /\ worker[k].op \in Ops /\ pending[k] = None
  BY <1>1, ChannelsAssumption DEF IInv, Sound, InTask, Choices, AllWords
<1>3. reply' \in [Kinds -> Choices \union {"deny", None}] /\ reply'[k] = None
      /\ \A j \in Kinds \ {k} : reply'[j] = reply[j]
  BY <1>1 DEF IInv, TypeOK
<1>4. CASE OpenRequest(k, worker[k].op, reply[k]) /\ UNCHANGED <<store, count, grants>>
  <2>1. /\ OneWorker(k) /\ worker'[k].pc = "prompting" /\ worker'[k].op \in Ops
        /\ worker'[k].message \in 1 .. Len(sent)
        /\ pending' \in [Kinds -> Pending \union {None}] /\ \A j \in Kinds \ {k} : pending'[j] = pending[j]
        /\ requests' \in Ids
    BY <1>1, <1>2, <1>4, OpenRequestType
  <2>2. OneDialog(k)
    BY <1>3, <2>1 DEF OneDialog
  <2>3. saved' \in State /\ disk' \in State /\ grants' \subseteq Routes
    BY <1>4 DEF store, IInv, TypeOK
  <2>4. QED
    BY <1>1, <1>2, <1>3, <2>1, <2>2, <2>3, ConfirmStep
<1>5. CASE \E choice : Grant(k, choice) /\ UNCHANGED <<pending, requests>>
  <2>1. PICK choice : Grant(k, choice) /\ UNCHANGED <<pending, requests>>
    BY <1>5
  <2> DEFINE next == [saved EXCEPT !.allowed = @ \union {worker[k].op}]
  <2>2. next \in State
    BY <1>2, StateChanges DEF IInv, TypeOK
  <2> HIDE DEF next
  <2>3. /\ ToWork(k, {}) \/ worker' = [worker EXCEPT ![k] = Idle]
        /\ grants' \in {grants, grants \union {Route(k)}}
        /\ UNCHANGED store \/ (saved' = next /\ Persist(next)) \/ (PersistFails(next) /\ UNCHANGED saved)
    BY <2>1 DEF Grant, next
  <2>4. saved' \in State /\ disk' \in State
    BY <2>2, <2>3, Persisted DEF store, IInv, TypeOK
  <2>5. grants' \subseteq Routes
    BY <1>2, <2>3, TaskRoute DEF IInv, TypeOK
  <2>6. requests' \in Ids /\ pending'[k] = None /\ OneDialog(k)
    BY <1>2, <1>3, <2>1 DEF IInv, TypeOK, OneDialog
  <2>7. CASE ToWork(k, {})
    <3>1. OneWorker(k) /\ worker'[k].pc = "working" /\ worker'[k].message \in 1 .. Len(sent)
      BY <1>2, <2>7, ToWorkType
    <3>2. QED
      BY <1>1, <1>2, <1>3, <2>4, <2>5, <2>6, <3>1, ConfirmStep
  <2>8. CASE worker' = [worker EXCEPT ![k] = Idle]
    <3>1. OneWorker(k) /\ worker'[k].pc = "idle"
      BY <2>8, IdleType DEF IInv, TypeOK, OneWorker
    <3>2. ~ InTask(k)'
      BY <3>1 DEF InTask
    <3>3. QED
      BY <1>1, <1>2, <1>3, <2>4, <2>5, <2>6, <3>1, <3>2, ConfirmStep
  <2>9. QED
    BY <2>3, <2>7, <2>8
<1>6. QED
  BY <1>1, <1>4, <1>5

----------------------------------------------------------------------------
(* The owners and the process *)

\* The channels stay as they are.
LEMMA StillSound ==
  ASSUME IInv, UNCHANGED <<sent, shown, adapter, queue, worker, pending, reply, grants, requests, asked, forgotten>>,
         saved' \in State, disk' \in State, job' \in [Kinds -> {"none", "running", "cancelled"}],
         \A k \in Kinds : job'[k] = "none" => adapter[k].pc = "off",
         closing' \in {"no", "asked", "stopping", "closed"}, owner' \in Owners \union {None}, Owned'
  PROVE  IInv'
<1>1. TypeOK' /\ Counted'
  BY DEF IInv, TypeOK, Counted
<1>2. \A k \in Kinds : Sound(k)'
  BY DEF IInv, Sound, InTask
<1>3. QED
  BY <1>1, <1>2 DEF IInv

LEMMA OwnerType ==
  ASSUME IInv, owner # None
  PROVE  owner \in Owners /\ owner.what \in Whats \union {"shutdown"} /\ owner.todo \subseteq Kinds
BY DEF IInv, Counted, Owners

LEMMA ActionsSafe ==
  ASSUME IInv,
         \/ \E k \in Kinds, what \in Whats : Apply(what, k)
         \/ \E op \in Ops : Revoke(op)
         \/ Shutdown \/ BeginShutdown \/ CompleteShutdown
  PROVE  IInv'
<1> USE DEF outside, control, dialog, history
<1>1. ASSUME NEW k \in Kinds, NEW what \in Whats, Apply(what, k) PROVE IInv'
  <2> DEFINE action == [what |-> what, kind |-> k, todo |-> {k}]
  <2>1. action \in Owners /\ action.what # "shutdown" /\ action.kind = k /\ action.todo = {k}
    BY DEF Owners, Whats
  <2>2. /\ owner' = action /\ closing = "no"
        /\ UNCHANGED <<saved, disk, closing, job>>
        /\ UNCHANGED <<sent, shown, adapter, queue, worker, pending, reply, grants, requests, asked, forgotten>>
    BY <1>1 DEF Apply, store
  <2> HIDE DEF action
  <2>3. Owned'
    BY <2>1, <2>2 DEF Owned
  <2>4. QED
    BY <2>1, <2>2, <2>3, StillSound DEF IInv, TypeOK, Sound
<1>2. ASSUME NEW op \in Ops, Revoke(op) PROVE IInv'
  <2> DEFINE next == [saved EXCEPT !.allowed = @ \ {op}]
  <2>1. saved \in State /\ disk \in State /\ next \in State
    BY StateChanges DEF IInv, TypeOK
  <2> HIDE DEF next
  <2>2. /\ saved' \in {saved, next} /\ disk' \in {disk, next}
        /\ UNCHANGED <<owner, closing, job>>
        /\ UNCHANGED <<sent, shown, adapter, queue, worker, pending, reply, grants, requests, asked, forgotten>>
    BY <1>2 DEF Revoke, next
  <2>3. Owned'
    BY <2>2 DEF IInv, Owned
  <2>4. QED
    BY <2>1, <2>2, <2>3, StillSound DEF IInv, TypeOK, Counted, Sound
<1>3. CASE Shutdown
  <2>1. /\ closing = "no" /\ closing' = "asked" /\ UNCHANGED <<saved, disk, owner, job>>
        /\ UNCHANGED <<sent, shown, adapter, queue, worker, pending, reply, grants, requests, asked, forgotten>>
    BY <1>3 DEF Shutdown, store
  <2>2. Owned'
    BY <2>1 DEF IInv, Owned
  <2>3. QED
    BY <2>1, <2>2, StillSound DEF IInv, TypeOK, Counted, Sound
<1>4. CASE BeginShutdown
  <2> DEFINE action == [what |-> "shutdown", kind |-> None, todo |-> Kinds]
  <2>1. action \in Owners /\ action.what = "shutdown" /\ action.todo = Kinds
    BY DEF Owners
  <2>2. /\ closing' = "stopping" /\ owner' = action /\ UNCHANGED <<saved, disk, job>>
        /\ UNCHANGED <<sent, shown, adapter, queue, worker, pending, reply, grants, requests, asked, forgotten>>
    BY <1>4 DEF BeginShutdown, store
  <2> HIDE DEF action
  <2>3. Owned'
    BY <2>1, <2>2 DEF Owned
  <2>4. QED
    BY <2>1, <2>2, <2>3, StillSound DEF IInv, TypeOK, Sound
<1>5. CASE CompleteShutdown
  <2>1. /\ owner # None /\ owner.what = "shutdown" /\ owner.todo = {}
        /\ closing' = "closed" /\ owner' = None /\ UNCHANGED <<saved, disk, job>>
        /\ UNCHANGED <<sent, shown, adapter, queue, worker, pending, reply, grants, requests, asked, forgotten>>
    BY <1>5 DEF CompleteShutdown, store
  <2>2. Owned'
    BY <2>1 DEF IInv, Owned
  <2>3. QED
    BY <2>1, <2>2, StillSound DEF IInv, TypeOK, Sound
<1>6. QED
  BY <1>1, <1>2, <1>3, <1>4, <1>5

LEMMA SignalJobSafe ==
  ASSUME IInv, NEW k \in Kinds, SignalJob(k)
  PROVE  IInv'
<1>1. /\ owner # None /\ job[k] = "running" /\ job' = [job EXCEPT ![k] = "cancelled"]
      /\ UNCHANGED <<saved, disk, owner, closing>>
      /\ UNCHANGED <<sent, shown, adapter, queue, worker, pending, reply, grants, requests, asked, forgotten>>
  BY DEF SignalJob, outside, store, dialog, history
<1>2. job' \in [Kinds -> {"none", "running", "cancelled"}] /\ \A j \in Kinds : job[j] = "none" <=> job'[j] = "none"
  BY <1>1 DEF IInv, TypeOK
<1>3. Owned'
  BY <1>1, <1>2 DEF IInv, Owned
<1>4. QED
  BY <1>1, <1>2, <1>3, StillSound DEF IInv, TypeOK, Counted, Sound

LEMMA JobEndedSafe ==
  ASSUME IInv, NEW k \in Kinds, JobEnded(k)
  PROVE  IInv'
<1>1. /\ owner # None /\ (job[k] = "none" \/ adapter[k].pc = "off")
      /\ job' = [job EXCEPT ![k] = "none"] /\ owner' = [owner EXCEPT !.todo = @ \ {k}]
      /\ UNCHANGED <<saved, disk, closing>>
      /\ UNCHANGED <<sent, shown, adapter, queue, worker, pending, reply, grants, requests, asked, forgotten>>
  BY DEF JobEnded, outside, store, dialog, history
<1>2. adapter[k].pc = "off"
  BY <1>1 DEF IInv, Sound
<1>3. /\ job' \in [Kinds -> {"none", "running", "cancelled"}] /\ job'[k] = "none"
      /\ \A j \in Kinds \ {k} : job'[j] = job[j]
  BY <1>1 DEF IInv, TypeOK
<1>4. /\ owner' \in Owners /\ owner'.what = owner.what /\ owner'.kind = owner.kind
      /\ owner'.todo = owner.todo \ {k}
  BY <1>1 DEF IInv, Counted, Owners
<1>5. Owned'
  BY <1>1, <1>3, <1>4 DEF IInv, Owned
<1>6. \A j \in Kinds : job'[j] = "none" => adapter[j].pc = "off"
  BY <1>2, <1>3 DEF IInv, Sound
<1>7. QED
  BY <1>1, <1>3, <1>4, <1>5, <1>6, StillSound DEF IInv, TypeOK

\* The channel an action is about has been stopped.
LEMMA StoppedKind ==
  ASSUME IInv, owner # None, owner.what # "shutdown", owner.todo = {}
  PROVE  /\ owner.kind \in Kinds /\ owner.what \in Whats /\ closing # "closed"
         /\ job[owner.kind] = "none" /\ adapter[owner.kind].pc = "off" /\ worker[owner.kind].pc = "off"
         /\ queue[owner.kind] = <<>> /\ pending[owner.kind] = None /\ reply[owner.kind] = None
<1>1. owner.kind \in Kinds /\ owner.what \in Whats /\ closing # "closed" /\ job[owner.kind] = "none"
  BY OwnerType DEF IInv, Owned
<1>2. QED
  BY <1>1 DEF IInv, Sound

\* It is launched again alone, to connect or to be bound.
LEMMA LaunchedSound ==
  ASSUME IInv, NEW k \in Kinds, NEW on \in SUBSET {k}, NEW pc \in {"connect", "binding"}, Launched(on, pc),
         job[k] = "none", worker[k].pc = "off", queue[k] = <<>>, pending[k] = None, reply[k] = None,
         adapter[k].pc = "off", UNCHANGED <<sent, queue, pending, reply>>
  PROVE  /\ job' \in [Kinds -> {"none", "running", "cancelled"}] /\ adapter' \in [Kinds -> Adapter]
         /\ worker' \in [Kinds -> Worker] /\ \A j \in Kinds : Sound(j)'
<1> DEFINE new == [AdapterOff EXCEPT !.pc = pc]
<1>1. new \in Adapter /\ new.pc = pc
  BY AdapterType DEF AdapterPCs
<1>2. /\ job' = [j \in Kinds |-> IF j \in on THEN "running" ELSE job[j]]
      /\ adapter' = [j \in Kinds |-> IF j \in on THEN new ELSE adapter[j]]
      /\ worker' = [j \in Kinds |-> IF j \in on /\ pc = "connect" THEN Idle ELSE worker[j]]
  BY DEF Launched
<1> HIDE DEF new
<1>3. job' \in [Kinds -> {"none", "running", "cancelled"}]
  BY <1>2 DEF IInv, TypeOK
<1>4. adapter' \in [Kinds -> Adapter]
  BY <1>1, <1>2 DEF IInv, TypeOK
<1>5. worker' \in [Kinds -> Worker]
  BY <1>2, IdleType DEF IInv, TypeOK
<1>6. ASSUME NEW j \in Kinds, j \notin on PROVE Sound(j)'
  <2>1. job'[j] = job[j] /\ adapter'[j] = adapter[j] /\ worker'[j] = worker[j]
    BY <1>2, <1>6
  <2>2. QED
    BY <2>1 DEF IInv, Sound, InTask
<1>7. ASSUME k \in on PROVE Sound(k)'
  <2>1. job'[k] = "running" /\ adapter'[k].pc = pc
    BY <1>1, <1>2, <1>7
  <2>2. worker'[k].pc = IF pc = "connect" THEN "idle" ELSE "off"
    BY <1>2, <1>7, IdleType
  <2>3. queue'[k] = <<>> /\ pending'[k] = None /\ reply'[k] = None
    OBVIOUS
  <2>4. DOMAIN queue'[k] = {}
    BY <2>3, EmptySeq
  <2>5. QED
    BY <2>1, <2>2, <2>3, <2>4 DEF Sound, InTask
<1>8. QED
  BY <1>3, <1>4, <1>5, <1>6, <1>7

LEMMA CompleteSafe ==
  ASSUME IInv, Complete
  PROVE  IInv'
<1> DEFINE k == owner.kind
<1> DEFINE next == Edited(owner.what, k)
<1> DEFINE on == IF owner.what \in {"start", "bind"} THEN {k} ELSE {}
<1> DEFINE pc == IF owner.what = "bind" THEN "binding" ELSE "connect"
<1>1. owner # None /\ owner.what # "shutdown" /\ owner.todo = {}
  BY DEF Complete
<1>2. /\ k \in Kinds /\ owner.what \in Whats /\ closing # "closed"
      /\ job[k] = "none" /\ adapter[k].pc = "off" /\ worker[k].pc = "off"
      /\ queue[k] = <<>> /\ pending[k] = None /\ reply[k] = None
  BY <1>1, StoppedKind
<1>3. next \in State /\ on \in SUBSET {k} /\ pc \in {"connect", "binding"}
  BY <1>2, EditedType DEF IInv, TypeOK
<1>4. /\ saved' = next /\ owner' = None
      /\ UNCHANGED <<sent, shown, closing, queue, pending, reply, grants, requests, asked, forgotten>>
      /\ \/ Persist(next) /\ Launched(on, pc)
         \/ PersistFails(next) /\ UNCHANGED <<job, adapter, worker>>
  BY DEF Complete, outside, dialog, history
<1> HIDE DEF k, next, on, pc
<1>5. saved' \in State /\ disk' \in State
  BY <1>3, <1>4, Persisted
<1>6. Owned'
  BY <1>2, <1>4 DEF Owned
<1>7. Counted'
  BY <1>4 DEF IInv, Counted
<1>8. CASE Launched(on, pc)
  <2>1. /\ job' \in [Kinds -> {"none", "running", "cancelled"}] /\ adapter' \in [Kinds -> Adapter]
        /\ worker' \in [Kinds -> Worker] /\ \A j \in Kinds : Sound(j)'
    BY <1>2, <1>3, <1>4, <1>8, LaunchedSound
  <2>2. TypeOK'
    BY <1>4, <1>5, <2>1 DEF IInv, TypeOK
  <2>3. QED
    BY <1>6, <1>7, <2>1, <2>2 DEF IInv
<1>9. CASE UNCHANGED <<job, adapter, worker>>
  BY <1>4, <1>5, <1>6, <1>9, StillSound DEF IInv, TypeOK, Sound
<1>10. QED
  BY <1>4, <1>8, <1>9

\* A channel as the process starts it: connecting, or not at all.
LEMMA StartSound ==
  ASSUME NEW k \in Kinds, queue[k] = <<>>, pending[k] = None, reply[k] = None,
         \/ job[k] = "running" /\ adapter[k].pc = "connect" /\ worker[k].pc = "idle"
         \/ job[k] = "none" /\ adapter[k].pc = "off" /\ worker[k].pc = "off"
  PROVE  Sound(k)
<1>1. DOMAIN queue[k] = {}
  BY EmptySeq
<1>2. QED
  BY <1>1 DEF Sound, InTask

LEMMA InitSafe ==
  ASSUME Init PROVE IInv
<1> DEFINE new == [AdapterOff EXCEPT !.pc = "connect"]
<1>1. new \in Adapter /\ new.pc = "connect"
  BY AdapterType DEF AdapterPCs
<1>2. /\ sent = <<>> /\ shown = [r \in Routes |-> 0] /\ saved = Fresh /\ disk = Fresh
      /\ job = [k \in Kinds |-> "running"] /\ adapter = [k \in Kinds |-> new]
      /\ queue = [k \in Kinds |-> <<>>] /\ worker = [k \in Kinds |-> Idle]
      /\ pending = [k \in Kinds |-> None] /\ reply = [k \in Kinds |-> None]
      /\ grants = {} /\ owner = None /\ closing = "no" /\ requests = 0
      /\ asked = [m \in Messages |-> 0] /\ forgotten = {}
  BY DEF Init
<1> HIDE DEF new
<1>3. sent \in Seq(Message) /\ Len(sent) = 0 /\ queue \in [Kinds -> Seq(Messages)]
  BY <1>2, EmptySeq
<1>4. TypeOK
  BY <1>1, <1>2, <1>3, Constants, FreshType, IdleType DEF TypeOK, Message
<1>5. Counted /\ Owned
  BY <1>2, <1>3, Constants DEF Counted, Owned
<1>6. \A k \in Kinds : Sound(k)
  <2> TAKE k \in Kinds
  <2>1. /\ queue[k] = <<>> /\ pending[k] = None /\ reply[k] = None
        /\ job[k] = "running" /\ adapter[k].pc = "connect" /\ worker[k].pc = "idle"
    BY <1>1, <1>2, IdleType
  <2>2. QED
    BY <2>1, StartSound
<1>7. QED
  BY <1>4, <1>5, <1>6 DEF IInv

LEMMA RestartSafe ==
  ASSUME IInv, Restart PROVE IInv'
<1> DEFINE new == [AdapterOff EXCEPT !.pc = "connect"]
<1>1. new \in Adapter /\ new.pc = "connect"
  BY AdapterType DEF AdapterPCs
<1>2. /\ saved' = disk /\ disk' = disk
      /\ job' = [k \in Kinds |-> IF k \in disk.enabled THEN "running" ELSE "none"]
      /\ adapter' = [k \in Kinds |-> IF k \in disk.enabled THEN new ELSE AdapterOff]
      /\ worker' = [k \in Kinds |-> IF k \in disk.enabled THEN Idle ELSE WorkerOff]
      /\ queue' = [k \in Kinds |-> <<>>]
      /\ pending' = [k \in Kinds |-> None] /\ reply' = [k \in Kinds |-> None]
      /\ grants' = {} /\ owner' = None /\ closing' = "no" /\ requests' = 0
      /\ shown' = [r \in Routes |-> 0] /\ UNCHANGED <<sent, asked, forgotten>>
  BY DEF Restart, history
<1> HIDE DEF new
<1>3. queue' \in [Kinds -> Seq(Messages)]
  BY <1>2, EmptySeq
<1>4. /\ job' \in [Kinds -> {"none", "running", "cancelled"}]
      /\ adapter' \in [Kinds -> Adapter] /\ worker' \in [Kinds -> Worker]
  BY <1>1, <1>2, AdapterType, IdleType
<1>5. TypeOK'
  BY <1>2, <1>3, <1>4, Constants DEF IInv, TypeOK
<1>6. Counted' /\ Owned'
  BY <1>2 DEF IInv, Counted, Owned
<1>7. \A k \in Kinds : Sound(k)'
  <2> TAKE k \in Kinds
  <2>1. queue'[k] = <<>> /\ pending'[k] = None /\ reply'[k] = None
    BY <1>2
  <2>2. \/ job'[k] = "running" /\ adapter'[k].pc = "connect" /\ worker'[k].pc = "idle"
        \/ job'[k] = "none" /\ adapter'[k].pc = "off" /\ worker'[k].pc = "off"
    BY <1>1, <1>2, AdapterType, IdleType
  <2>3. DOMAIN queue'[k] = {}
    BY <2>1, EmptySeq
  <2>4. QED
    BY <2>1, <2>2, <2>3 DEF Sound, InTask
<1>8. QED
  BY <1>5, <1>6, <1>7 DEF IInv

LEMMA Steps ==
  ASSUME IInv, [Next]_vars
  PROVE  IInv'
<1>1. CASE SenderStep
  BY <1>1, SendSafe DEF SenderStep
<1>2. ASSUME NEW k \in Kinds, AdapterStep(k) PROVE IInv'
  BY <1>2, BindSafe, MoveSafe, IntakeSafe, EndBatchSafe, AdapterEndsSafe DEF AdapterStep
<1>3. ASSUME NEW k \in Kinds, WorkerStep(k) PROVE IInv'
  BY <1>3, NewConversationSafe, TakeSafe, TaskSafe, AskSafe, RefuseSafe, AnsweredSafe DEF WorkerStep
<1>4. CASE \/ \E k \in Kinds, what \in Whats : Apply(what, k)
           \/ \E op \in Ops : Revoke(op)
           \/ Shutdown
  BY <1>4, ActionsSafe
<1>5. CASE OwnerStep
  BY <1>5, ActionsSafe, SignalJobSafe, JobEndedSafe, CompleteSafe DEF OwnerStep
<1>6. CASE Restart
  BY <1>6, RestartSafe
<1>7. CASE UNCHANGED vars
  <2>1. UNCHANGED <<sent, shown, saved, disk, job, owner, closing, adapter, queue, worker, pending, reply, grants,
                    requests, asked, forgotten>>
    BY <1>7 DEF vars, outside, store, control, dialog, history
  <2>2. Owned'
    BY <2>1 DEF IInv, Owned
  <2>3. QED
    BY <2>1, <2>2, StillSound DEF IInv, TypeOK, Counted, Sound
<1>8. QED
  BY <1>1, <1>2, <1>3, <1>4, <1>5, <1>6, <1>7 DEF Next

THEOREM Invariant == Spec => []IInv
BY InitSafe, Steps, PTL DEF Spec

----------------------------------------------------------------------------
(* The ledger *)

Recorded(m, s) == \E i \in DOMAIN s : s[i] = m

\* A message that is queued or was given to the agent is in both ledgers, and
\* none is queued twice or queued when it was given, unless it was forgotten.
Ledger ==
  /\ Len(saved.seen) <= SeenLimit
  /\ \A m \in Messages \ forgotten :
       /\ asked[m] <= 1
       /\ asked[m] > 0 \/ (\E k \in Kinds : Recorded(m, queue[k])) =>
            Recorded(m, saved.seen) /\ Recorded(m, disk.seen)
  /\ \A k \in Kinds : \A i \in DOMAIN queue[k] : queue[k][i] \notin forgotten =>
       /\ asked[queue[k][i]] = 0
       /\ \A j \in Kinds : \A h \in DOMAIN queue[j] : queue[j][h] = queue[k][i] => j = k /\ h = i
  /\ Len(disk.seen) <= SeenLimit

\* SeenAfter, of any ledger.
After(s, m) == IF Len(Append(s, m)) > SeenLimit THEN Tail(Append(s, m)) ELSE Append(s, m)

LEMMA LedgerAfter ==
  ASSUME NEW s \in Seq(Messages), Len(s) <= SeenLimit, NEW m \in Messages,
         NEW after, after = After(s, m)
  PROVE  /\ Len(after) <= SeenLimit /\ Recorded(m, after)
         /\ \A x : Recorded(x, s) /\ (Len(s) = SeenLimit => x # Head(s)) => Recorded(x, after)
<1> DEFINE longer == Append(s, m)
<1>1. Len(s) \in Nat /\ SeenLimit \in Nat /\ SeenLimit > 0 /\ DOMAIN s = 1 .. Len(s)
  BY Constants, LenProperties
<1>2. /\ longer \in Seq(Messages) /\ Len(longer) = Len(s) + 1 /\ longer[Len(s) + 1] = m
      /\ \A i \in 1 .. Len(s) : longer[i] = s[i]
  BY <1>1, AppendProperties
<1>0. Len(longer) = Len(s) + 1 /\ Len(longer) \in Nat
  BY <1>1, <1>2
<1>3. longer # <<>> /\ DOMAIN longer = 1 .. Len(s) + 1
  BY <1>1, <1>2, LenProperties, EmptySeq
<1> HIDE DEF longer
<1>4. CASE Len(longer) > SeenLimit
  <2>1. after = Tail(longer) /\ Len(s) = SeenLimit
    <3>1. after = Tail(longer)
      BY <1>4, Zenon DEF longer, After
    <3>2. \A a, b \in Nat : a <= b /\ a + 1 > b => a = b
      OBVIOUS
    <3>3. Len(s) + 1 > SeenLimit
      BY <1>0, <1>4
    <3>4. Len(s) = SeenLimit
      BY <1>1, <3>2, <3>3
    <3>5. QED
      BY <3>1, <3>4
  <2>2. Tail(longer) \in Seq(Messages) /\ Len(Tail(longer)) = Len(s) /\ \A i \in 1 .. Len(s) : Tail(longer)[i] = longer[i + 1]
    BY <1>1, <1>2, <1>3, HeadTailProperties
  <2>3. DOMAIN after = 1 .. Len(s)
    BY <2>1, <2>2, LenProperties
  <2>4. Recorded(m, after)
    <3>1. Len(s) \in DOMAIN after /\ after[Len(s)] = m
      BY <1>1, <1>2, <2>1, <2>2, <2>3
    <3>2. QED
      BY <3>1 DEF Recorded
  <2>5. ASSUME NEW x, Recorded(x, s), x # Head(s) PROVE Recorded(x, after)
    <3>1. PICK i \in DOMAIN s : s[i] = x
      BY <2>5 DEF Recorded
    <3>2. s # <<>> /\ Head(s) = s[1]
      BY <1>1, <2>1, EmptySeq, HeadTailProperties
    <3>3. i \in 2 .. Len(s)
      BY <1>1, <2>5, <3>1, <3>2
    <3>4. i - 1 \in DOMAIN after /\ after[i - 1] = x
      <4>1. i - 1 \in 1 .. Len(s) /\ i - 1 + 1 = i
        BY <1>1, <3>3
      <4>2. Tail(longer)[i - 1] = longer[i] /\ longer[i] = s[i]
        BY <1>1, <1>2, <2>2, <3>3, <4>1
      <4>3. QED
        BY <2>1, <2>3, <3>1, <4>1, <4>2
    <3>5. QED
      BY <3>4 DEF Recorded
  <2>6. QED
    BY <1>1, <2>1, <2>2, <2>4, <2>5
<1>5. CASE ~ (Len(longer) > SeenLimit)
  <2>1. after = longer /\ Len(after) <= SeenLimit
    <3>1. after = longer
      BY <1>5, Zenon DEF longer, After
    <3>2. QED
      BY <1>1, <1>2, <1>5, <3>1
  <2>2. Recorded(m, after)
    <3>1. Len(s) + 1 \in DOMAIN after /\ after[Len(s) + 1] = m
      BY <1>1, <1>2, <1>3, <2>1
    <3>2. QED
      BY <3>1 DEF Recorded
  <2>3. \A x : Recorded(x, s) => Recorded(x, after)
    <3>1. \A i \in DOMAIN s : i \in DOMAIN after /\ after[i] = s[i]
      BY <1>1, <1>2, <1>3, <2>1
    <3>2. QED
      BY <3>1 DEF Recorded
  <2>4. QED
    BY <2>1, <2>2, <2>3
<1>6. QED
  BY <1>4, <1>5

\* Steps in which no message enters or leaves a ledger or is given to the agent.
LedgerStays ==
  /\ saved'.seen \in {saved.seen, disk.seen} /\ disk'.seen \in {disk.seen, saved.seen}
  /\ UNCHANGED <<asked, forgotten>>
  /\ \A k \in Kinds : queue'[k] \in {queue[k], <<>>} \/ (queue[k] # <<>> /\ queue'[k] = Tail(queue[k]))

\* A queue that shrinks keeps its messages in their order.
LEMMA Shrunk ==
  ASSUME IInv, NEW k \in Kinds, NEW q,
         q \in {queue[k], <<>>} \/ (queue[k] # <<>> /\ q = Tail(queue[k]))
  PROVE  \E d \in {0, 1} : \A i \in DOMAIN q : i \in Nat /\ i + d \in DOMAIN queue[k] /\ q[i] = queue[k][i + d]
<1>1. queue[k] \in Seq(Messages) /\ DOMAIN queue[k] = 1 .. Len(queue[k]) /\ Len(queue[k]) \in Nat
  BY LenProperties DEF IInv, TypeOK
<1>2. CASE q = queue[k]
  <2>1. \A i \in DOMAIN q : i \in Nat /\ i + 0 \in DOMAIN queue[k] /\ q[i] = queue[k][i + 0]
    BY <1>1, <1>2
  <2>2. QED
    BY <2>1
<1>3. CASE q = <<>>
  BY <1>3, EmptySeq
<1>4. CASE queue[k] # <<>> /\ q = Tail(queue[k])
  <2>1. /\ q \in Seq(Messages) /\ \A i \in DOMAIN q : i + 1 \in DOMAIN queue[k] /\ q[i] = queue[k][i + 1]
    BY <1>4, QueueHead
  <2>2. \A i \in DOMAIN q : i \in Nat
    BY <2>1, LenProperties
  <2>3. QED
    BY <2>1, <2>2
<1>5. QED
  BY <1>2, <1>3, <1>4

LEMMA StaysStep ==
  ASSUME IInv, Ledger, LedgerStays
  PROVE  Ledger'
<1>1. asked' = asked /\ forgotten' = forgotten
  BY DEF LedgerStays
<1>2. \A k \in Kinds : \E d \in {0, 1} : \A i \in DOMAIN queue'[k] :
        i \in Nat /\ i + d \in DOMAIN queue[k] /\ queue'[k][i] = queue[k][i + d]
  BY Shrunk DEF LedgerStays
<1>3. \A k \in Kinds : \A m : Recorded(m, queue'[k]) => Recorded(m, queue[k])
  <2> TAKE k \in Kinds
  <2> TAKE m
  <2>1. PICK d \in {0, 1} : \A i \in DOMAIN queue'[k] :
          i \in Nat /\ i + d \in DOMAIN queue[k] /\ queue'[k][i] = queue[k][i + d]
    BY <1>2
  <2>2. QED
    BY <2>1 DEF Recorded
<1>4. \A m : Recorded(m, saved.seen) /\ Recorded(m, disk.seen) => Recorded(m, saved'.seen) /\ Recorded(m, disk'.seen)
  BY DEF LedgerStays
<1>5. Len(saved'.seen) <= SeenLimit /\ Len(disk'.seen) <= SeenLimit
  BY DEF Ledger, LedgerStays
<1>6. \A m \in Messages \ forgotten' :
        /\ asked'[m] <= 1
        /\ asked'[m] > 0 \/ (\E k \in Kinds : Recorded(m, queue'[k])) =>
             Recorded(m, saved'.seen) /\ Recorded(m, disk'.seen)
  <2> TAKE m \in Messages \ forgotten'
  <2>1. /\ asked[m] <= 1
        /\ asked[m] > 0 \/ (\E k \in Kinds : Recorded(m, queue[k])) =>
             Recorded(m, saved.seen) /\ Recorded(m, disk.seen)
    BY <1>1 DEF Ledger
  <2>2. (\E k \in Kinds : Recorded(m, queue'[k])) => \E k \in Kinds : Recorded(m, queue[k])
    BY <1>3
  <2>3. QED
    BY <1>1, <1>4, <2>1, <2>2
<1>7. ASSUME NEW k \in Kinds, NEW i \in DOMAIN queue'[k], queue'[k][i] \notin forgotten',
             NEW j \in Kinds, NEW h \in DOMAIN queue'[j]
      PROVE  asked'[queue'[k][i]] = 0 /\ (queue'[j][h] = queue'[k][i] => j = k /\ h = i)
  <2>1. PICK d \in {0, 1} : \A x \in DOMAIN queue'[k] :
          x \in Nat /\ x + d \in DOMAIN queue[k] /\ queue'[k][x] = queue[k][x + d]
    BY <1>2
  <2>2. PICK e \in {0, 1} : \A x \in DOMAIN queue'[j] :
          x \in Nat /\ x + e \in DOMAIN queue[j] /\ queue'[j][x] = queue[j][x + e]
    BY <1>2
  <2>3. /\ asked[queue[k][i + d]] = 0
        /\ queue[j][h + e] = queue[k][i + d] => j = k /\ h + e = i + d
    BY <1>1, <1>7, <2>1, <2>2 DEF Ledger
  <2>4. asked'[queue'[k][i]] = 0
    BY <1>1, <1>7, <2>1, <2>3
  <2>5. ASSUME queue'[j][h] = queue'[k][i] PROVE j = k /\ h = i
    <3>1. j = k /\ h + e = i + d
      BY <1>7, <2>1, <2>2, <2>3, <2>5
    <3>2. queue[k][h + d] = queue'[k][h] /\ h + d \in DOMAIN queue[k] /\ h \in Nat /\ i \in Nat
      BY <1>7, <2>1, <2>2, <3>1
    <3>3. h + d = i + d
      <4>1. queue[k][h + d] = queue[k][i + d] /\ queue[k][i + d] \notin forgotten /\ i + d \in DOMAIN queue[k]
        BY <1>1, <1>7, <2>1, <2>5, <3>1, <3>2
      <4>2. QED
        BY <3>2, <4>1 DEF Ledger
    <3>4. QED
      BY <3>1, <3>2, <3>3
  <2>6. QED
    BY <2>4, <2>5
<1>8. QED
  BY <1>5, <1>6, <1>7 DEF Ledger

LEMMA UntouchedStays ==
  ASSUME IInv, UNCHANGED <<store, queue, history>>
  PROVE  LedgerStays
BY DEF LedgerStays, store, history

LEMMA SavedStays ==
  ASSUME IInv, NEW next, next.seen = saved.seen, saved' \in {saved, next},
         disk' \in {disk, next} \/ Persist(next) \/ PersistFails(next),
         UNCHANGED <<asked, forgotten>>,
         \A k \in Kinds : queue'[k] = queue[k] \/ (queue[k] # <<>> /\ queue'[k] = Tail(queue[k]))
  PROVE  LedgerStays
BY DEF LedgerStays, Persist, PersistFails

LEMMA AdapterStays ==
  ASSUME IInv, NEW k \in Kinds, AdapterStep(k), ~ Intake(k)
  PROVE  LedgerStays
<1>1. CASE Bind(k)
  <2> DEFINE next == [saved EXCEPT !.bound = @ \union {k}, !.enabled = @ \union {k}, !.cursor[k] = 0]
  <2>1. next.seen = saved.seen
    BY StateChanges DEF IInv, TypeOK
  <2> HIDE DEF next
  <2>2. /\ saved' \in {saved, next} /\ (disk' \in {disk, next} \/ Persist(next) \/ PersistFails(next))
        /\ UNCHANGED <<asked, forgotten, queue>>
    BY <1>1 DEF Bind, history, next
  <2>3. QED
    BY <2>1, <2>2, SavedStays
<1>2. CASE EndBatch(k)
  <2> DEFINE next == [saved EXCEPT !.cursor[k] = adapter[k].next]
  <2>1. saved \in State /\ adapter[k].next \in Nat
    BY DEF IInv, TypeOK, Adapter
  <2>2. next.seen = saved.seen
    <3>1. \A n \in Nat : [saved EXCEPT !.cursor[k] = n].seen = saved.seen
      BY <2>1 DEF State
    <3>2. QED
      BY <2>1, <3>1
  <2> HIDE DEF next
  <2>3. /\ saved' = next /\ (Persist(next) \/ PersistFails(next))
        /\ UNCHANGED <<asked, forgotten, queue>>
    BY <1>2 DEF EndBatch, history, next
  <2>4. QED
    BY <2>2, <2>3, SavedStays
<1>3. CASE AdapterEnds(k)
  BY <1>3 DEF AdapterEnds, LedgerStays, store, history, IInv, TypeOK
<1>4. CASE Connect(k) \/ Poll(k) \/ Disconnect(k) \/ Drain(k)
  BY <1>4, UntouchedStays DEF Connect, Poll, Disconnect, Drain
<1>5. QED
  BY <1>1, <1>2, <1>3, <1>4 DEF AdapterStep

LEMMA WorkerStays ==
  ASSUME IInv, NEW k \in Kinds, WorkerStep(k), ~ Take(k)
  PROVE  LedgerStays
<1>1. CASE NewConversation(k)
  <2> DEFINE r == sent[Head(queue[k])].route
  <2> DEFINE next == [saved EXCEPT !.generation[r] = @ + 1]
  <2>1. queue[k] # <<>>
    BY <1>1 DEF NewConversation, HeadIs
  <2>2. r \in Routes
    BY <2>1, QueueHead, MessageType
  <2> HIDE DEF r
  <2>3. next.seen = saved.seen
    BY <2>2, StateChanges DEF IInv, TypeOK
  <2> HIDE DEF next
  <2>4. /\ saved' = next /\ (Persist(next) \/ PersistFails(next))
        /\ UNCHANGED <<asked, forgotten>> /\ queue' = [queue EXCEPT ![k] = Tail(@)]
    BY <1>1 DEF NewConversation, history, next, r
  <2>5. \A j \in Kinds : queue'[j] = queue[j] \/ (queue[j] # <<>> /\ queue'[j] = Tail(queue[j]))
    BY <2>1, <2>4 DEF IInv, TypeOK
  <2>6. QED
    BY <2>3, <2>4, <2>5, SavedStays
<1>2. CASE Answered(k)
  <2> DEFINE next == [saved EXCEPT !.allowed = @ \union {worker[k].op}]
  <2>1. worker[k].op \in Ops
    BY <1>2 DEF Answered, WorkerAt, IInv, Sound
  <2>2. next.seen = saved.seen
    BY <2>1, StateChanges DEF IInv, TypeOK
  <2> HIDE DEF next
  <2>3. /\ saved' \in {saved, next} /\ (disk' = disk \/ Persist(next) \/ PersistFails(next))
        /\ UNCHANGED <<asked, forgotten, queue>>
    BY <1>2 DEF Answered, Grant, store, next
  <2>4. QED
    BY <2>2, <2>3, SavedStays
<1>3. CASE \E op \in Ops : Ask(k, op)
  BY <1>3, UntouchedStays DEF Ask
<1>4. CASE StopTask(k) \/ FinishTask(k) \/ WorkerEnds(k) \/ SendPrompt(k) \/ PromptFails(k) \/ Unanswered(k)
  BY <1>4, UntouchedStays DEF StopTask, FinishTask, WorkerEnds, SendPrompt, PromptFails, Unanswered
<1>5. QED
  BY <1>1, <1>2, <1>3, <1>4 DEF WorkerStep

LEMMA OtherStays ==
  ASSUME IInv,
         \/ SenderStep
         \/ \E k \in Kinds, what \in Whats : Apply(what, k)
         \/ \E op \in Ops : Revoke(op)
         \/ OwnerStep \/ Shutdown \/ Restart
         \/ UNCHANGED vars
  PROVE  LedgerStays
<1>1. ASSUME NEW r \in Routes, NEW word \in AllWords, Send(r, word) PROVE LedgerStays
  BY <1>1, UntouchedStays DEF Send
<1>2. ASSUME NEW k \in Kinds, NEW what \in Whats, Apply(what, k) PROVE LedgerStays
  BY <1>2, UntouchedStays DEF Apply
<1>3. ASSUME NEW op \in Ops, Revoke(op) PROVE LedgerStays
  <2> DEFINE next == [saved EXCEPT !.allowed = @ \ {op}]
  <2>1. next.seen = saved.seen
    BY StateChanges DEF IInv, TypeOK
  <2> HIDE DEF next
  <2>2. /\ saved' \in {saved, next} /\ disk' \in {disk, next}
        /\ UNCHANGED <<asked, forgotten, queue>>
    BY <1>3 DEF Revoke, next
  <2>3. QED
    BY <2>1, <2>2, SavedStays
<1>4. ASSUME NEW k \in Kinds, SignalJob(k) \/ JobEnded(k) PROVE LedgerStays
  BY <1>4, UntouchedStays DEF SignalJob, JobEnded
<1>5. CASE BeginShutdown \/ CompleteShutdown \/ Shutdown
  BY <1>5, UntouchedStays DEF BeginShutdown, CompleteShutdown, Shutdown
<1>6. CASE Complete
  <2> DEFINE next == Edited(owner.what, owner.kind)
  <2>1. owner.what \in Whats /\ owner.kind \in Kinds
    BY <1>6, StoppedKind DEF Complete
  <2>2. next.seen = saved.seen
    BY <2>1, EditedType DEF IInv, TypeOK
  <2> HIDE DEF next
  <2>3. /\ saved' = next /\ (Persist(next) \/ PersistFails(next))
        /\ UNCHANGED <<asked, forgotten, queue>>
    BY <1>6 DEF Complete, history, next
  <2>4. QED
    BY <2>2, <2>3, SavedStays
<1>7. CASE Restart
  BY <1>7 DEF Restart, LedgerStays, history
<1>8. CASE UNCHANGED vars
  BY <1>8, UntouchedStays DEF vars
<1>9. QED
  BY <1>1, <1>2, <1>3, <1>4, <1>5, <1>6, <1>7, <1>8 DEF SenderStep, OwnerStep

\* The message at the head of a queue is given to the agent.
LEMMA TakeLedger ==
  ASSUME IInv, Ledger, NEW k \in Kinds, Take(k)
  PROVE  Ledger'
<1> DEFINE m == Head(queue[k])
<1>1. /\ queue[k] # <<>> /\ queue' = [queue EXCEPT ![k] = Tail(@)]
      /\ asked' = [asked EXCEPT ![m] = IF @ = 2 THEN 2 ELSE @ + 1]
      /\ UNCHANGED <<saved, disk, forgotten>>
  BY DEF Take, HeadIs, store
<1>2. /\ m \in Messages /\ m = queue[k][1] /\ 1 \in DOMAIN queue[k]
      /\ \A i \in DOMAIN Tail(queue[k]) : i + 1 \in DOMAIN queue[k] /\ Tail(queue[k])[i] = queue[k][i + 1]
  <2>1. 1 \in DOMAIN queue[k]
    BY <1>1, EmptySeq, LenProperties DEF IInv, TypeOK
  <2>2. QED
    BY <1>1, <2>1, QueueHead, MessageType
<1>3. \A i \in DOMAIN Tail(queue[k]) : i \in Nat
  BY <1>1, QueueHead, LenProperties
<1> HIDE DEF m
<1>4. asked \in [Messages -> 0 .. 2] /\ queue' \in [Kinds -> Seq(Messages)]
  BY <1>1, QueueHead DEF IInv, Counted, TypeOK
<1>5. \A j \in Kinds : \A i \in DOMAIN queue'[j] :
        \E h \in DOMAIN queue[j] : /\ queue'[j][i] = queue[j][h]
                                   /\ j = k => h = i + 1 /\ h # 1
                                   /\ j # k => h = i
  <2> TAKE j \in Kinds
  <2> TAKE i \in DOMAIN queue'[j]
  <2>1. CASE j = k
    <3>1. queue'[k] = Tail(queue[k])
      BY <1>1 DEF IInv, TypeOK
    <3>2. /\ i + 1 \in DOMAIN queue[k] /\ queue'[k][i] = queue[k][i + 1] /\ i \in Nat
      BY <1>2, <1>3, <2>1, <3>1
    <3>3. i \in DOMAIN Tail(queue[k]) /\ i # 0
      <4>1. DOMAIN Tail(queue[k]) = 1 .. Len(Tail(queue[k]))
        BY <1>1, QueueHead, LenProperties
      <4>2. QED
        BY <2>1, <3>1, <4>1
    <3>4. i + 1 # 1
      BY <3>2, <3>3
    <3>5. QED
      BY <2>1, <3>2, <3>4
  <2>2. CASE j # k
    BY <1>1, <2>2 DEF IInv, TypeOK
  <2>3. QED
    BY <2>1, <2>2
<1>6. m \notin forgotten => asked[m] = 0 /\ Recorded(m, saved.seen) /\ Recorded(m, disk.seen)
  <2>1. Recorded(m, queue[k])
    BY <1>2 DEF Recorded
  <2>2. QED
    BY <1>2, <2>1 DEF Ledger
<1>7. \A x \in Messages : asked'[x] = IF x = m THEN (IF asked[m] = 2 THEN 2 ELSE asked[m] + 1) ELSE asked[x]
  BY <1>1, <1>2, <1>4
<1>8. \A x \in Messages \ forgotten' :
        /\ asked'[x] <= 1
        /\ asked'[x] > 0 \/ (\E j \in Kinds : Recorded(x, queue'[j])) =>
             Recorded(x, saved'.seen) /\ Recorded(x, disk'.seen)
  <2> TAKE x \in Messages \ forgotten'
  <2>1. x \notin forgotten
    BY <1>1
  <2>2. CASE x = m
    <3>1. asked'[x] = 1
      BY <1>6, <1>7, <2>1, <2>2
    <3>2. QED
      BY <1>1, <1>6, <2>1, <2>2, <3>1
  <2>3. CASE x # m
    <3>1. asked'[x] = asked[x]
      BY <1>7, <2>3
    <3>2. \A j \in Kinds : Recorded(x, queue'[j]) => Recorded(x, queue[j])
      BY <1>5 DEF Recorded
    <3>3. QED
      BY <1>1, <2>1, <3>1, <3>2 DEF Ledger
  <2>4. QED
    BY <2>2, <2>3
<1>9. ASSUME NEW i \in Kinds, NEW a \in DOMAIN queue'[i], queue'[i][a] \notin forgotten',
             NEW j \in Kinds, NEW b \in DOMAIN queue'[j]
      PROVE  asked'[queue'[i][a]] = 0 /\ (queue'[j][b] = queue'[i][a] => j = i /\ b = a)
  <2>1. PICK h \in DOMAIN queue[i] : /\ queue'[i][a] = queue[i][h]
                                     /\ i = k => h = a + 1 /\ h # 1
                                     /\ i # k => h = a
    BY <1>5, <1>9
  <2>2. PICK g \in DOMAIN queue[j] : /\ queue'[j][b] = queue[j][g]
                                     /\ j = k => g = b + 1 /\ g # 1
                                     /\ j # k => g = b
    BY <1>5, <1>9
  <2>3. queue[i][h] \notin forgotten
    BY <1>1, <1>9, <2>1
  <2>4. asked[queue[i][h]] = 0 /\ (queue[j][g] = queue[i][h] => j = i /\ g = h)
        /\ (queue[k][1] = queue[i][h] => k = i /\ 1 = h)
    BY <1>2, <2>3 DEF Ledger
  <2>5. queue[i][h] \in Messages
    BY ElementOfSeq, LenProperties DEF IInv, TypeOK
  <2>6. queue[i][h] # m
    BY <1>2, <2>1, <2>4
  <2>7. asked'[queue'[i][a]] = 0
    BY <1>7, <2>1, <2>4, <2>5, <2>6
  <2>8. a \in Nat /\ b \in Nat
    BY <1>4, <1>9, LenProperties
  <2>9. queue'[j][b] = queue'[i][a] => j = i /\ b = a
    BY <2>1, <2>2, <2>4, <2>8
  <2>10. QED
    BY <2>7, <2>9
<1>10. Len(saved'.seen) <= SeenLimit /\ Len(disk'.seen) <= SeenLimit
  BY <1>1 DEF Ledger
<1>11. QED
  BY <1>8, <1>9, <1>10 DEF Ledger

\* A message is taken in: it enters both ledgers before it is queued, and what
\* leaves the ledger for it is forgotten.
LEMMA IntakeLedger ==
  ASSUME IInv, Ledger, NEW k \in Kinds, Intake(k)
  PROVE  Ledger'
<1>1. PICK m \in Messages :
        LET next == [saved EXCEPT !.seen = SeenAfter(m)] IN
        /\ UNCHANGED asked
        /\ \/ Remembered(m) /\ UNCHANGED <<store, queue, forgotten>>
           \/ /\ ~ Remembered(m) /\ saved' = next
              /\ forgotten' = IF Len(saved.seen) = SeenLimit THEN forgotten \union {Head(saved.seen)} ELSE forgotten
              /\ \/ disk' = next /\ (Decide(k, m) \/ CancelTask(k, m) \/ Enqueue(k, m))
                 \/ disk' \in {disk, next} /\ UNCHANGED queue
  BY DEF Intake, Persist, PersistFails
<1> DEFINE next == [saved EXCEPT !.seen = SeenAfter(m)]
<1> DEFINE after == SeenAfter(m)
<1>2. CASE Remembered(m) /\ UNCHANGED <<store, queue, forgotten>>
  <2>1. LedgerStays
    BY <1>1, <1>2, UntouchedStays DEF history
  <2>2. QED
    BY <2>1, StaysStep
<1>3. CASE /\ ~ Remembered(m) /\ saved' = next
           /\ forgotten' = IF Len(saved.seen) = SeenLimit THEN forgotten \union {Head(saved.seen)} ELSE forgotten
           /\ \/ disk' = next /\ (Decide(k, m) \/ CancelTask(k, m) \/ Enqueue(k, m))
              \/ disk' \in {disk, next} /\ UNCHANGED queue
  <2>1. saved \in State /\ saved.seen \in Seq(Messages) /\ next.seen = after
    BY SeenAfterType DEF IInv, TypeOK, State
  <2>2. after = After(saved.seen, m)
    BY DEF SeenAfter, After
  <2> HIDE DEF next, after
  <2>3. Len(saved.seen) <= SeenLimit /\ Len(disk.seen) <= SeenLimit
    BY DEF Ledger
  <2>4. /\ Len(after) <= SeenLimit /\ Recorded(m, after)
        /\ \A x : Recorded(x, saved.seen) /\ (Len(saved.seen) = SeenLimit => x # Head(saved.seen)) => Recorded(x, after)
    BY <2>1, <2>2, <2>3, LedgerAfter
  <2>5. \A x \in Messages \ forgotten' : x \notin forgotten /\ (Recorded(x, saved.seen) => Recorded(x, after))
    BY <1>3, <2>4
  <2>6. /\ saved'.seen = after /\ disk'.seen \in {disk.seen, after}
        /\ Len(saved'.seen) <= SeenLimit /\ Len(disk'.seen) <= SeenLimit
    BY <1>3, <2>1, <2>3, <2>4
  <2>7. ~ Recorded(m, saved.seen)
    BY <1>3 DEF Remembered, Recorded
  <2>8. m \notin forgotten => asked[m] = 0 /\ \A j \in Kinds : ~ Recorded(m, queue[j])
    BY <2>7 DEF Ledger, IInv, Counted
  <2>9. queue' = queue \/ (queue' = [queue EXCEPT ![k] = Append(@, m)] /\ disk'.seen = after)
    BY <1>3, <2>1 DEF Decide, CancelTask, Enqueue
  <2>10. CASE queue' = queue
    <3>1. \A x \in Messages \ forgotten' :
            /\ asked'[x] <= 1
            /\ asked'[x] > 0 \/ (\E j \in Kinds : Recorded(x, queue'[j])) =>
                 Recorded(x, saved'.seen) /\ Recorded(x, disk'.seen)
      <4> TAKE x \in Messages \ forgotten'
      <4>1. /\ asked[x] <= 1
            /\ asked[x] > 0 \/ (\E j \in Kinds : Recorded(x, queue[j])) =>
                 Recorded(x, saved.seen) /\ Recorded(x, disk.seen)
        BY <2>5 DEF Ledger
      <4>2. QED
        BY <1>1, <2>5, <2>6, <2>10, <4>1
    <3>2. \A j \in Kinds : \A i \in DOMAIN queue'[j] : queue'[j][i] \notin forgotten' => queue[j][i] \notin forgotten
      BY <1>3, <2>10
    <3>3. QED
      BY <1>1, <2>6, <2>10, <3>1, <3>2 DEF Ledger
  <2>11. CASE queue' = [queue EXCEPT ![k] = Append(@, m)] /\ disk'.seen = after
    <3>1. /\ queue'[k] = Append(queue[k], m) /\ \A j \in Kinds \ {k} : queue'[j] = queue[j]
          /\ queue[k] \in Seq(Messages)
      BY <2>11 DEF IInv, TypeOK
    <3>2. /\ DOMAIN queue'[k] = 1 .. Len(queue[k]) + 1 /\ Len(queue[k]) \in Nat
          /\ queue'[k][Len(queue[k]) + 1] = m /\ DOMAIN queue[k] = 1 .. Len(queue[k])
          /\ \A i \in DOMAIN queue[k] : queue'[k][i] = queue[k][i]
      BY <3>1, AppendProperties, LenProperties
    <3> DEFINE last == Len(queue[k]) + 1
    <3>3. \A j \in Kinds : \A i \in DOMAIN queue'[j] :
            \/ i \in DOMAIN queue[j] /\ queue'[j][i] = queue[j][i]
            \/ j = k /\ i = last /\ queue'[j][i] = m
      <4> TAKE j \in Kinds
      <4> TAKE i \in DOMAIN queue'[j]
      <4>1. CASE j = k
        BY <3>2, <4>1
      <4>2. CASE j # k
        BY <3>1, <4>2
      <4>3. QED
        BY <4>1, <4>2
    <3> HIDE DEF last
    <3>4. \A x \in Messages \ forgotten' :
            /\ asked'[x] <= 1
            /\ asked'[x] > 0 \/ (\E j \in Kinds : Recorded(x, queue'[j])) =>
                 Recorded(x, saved'.seen) /\ Recorded(x, disk'.seen)
      <4> TAKE x \in Messages \ forgotten'
      <4>1. /\ asked[x] <= 1
            /\ asked[x] > 0 \/ (\E j \in Kinds : Recorded(x, queue[j])) =>
                 Recorded(x, saved.seen) /\ Recorded(x, disk.seen)
        BY <2>5 DEF Ledger
      <4>2. \A j \in Kinds : Recorded(x, queue'[j]) => x = m \/ Recorded(x, queue[j])
        BY <3>3 DEF Recorded
      <4>3. QED
        BY <1>1, <2>4, <2>5, <2>6, <2>11, <4>1, <4>2
    <3>5. ASSUME NEW i \in Kinds, NEW a \in DOMAIN queue'[i], queue'[i][a] \notin forgotten',
                 NEW j \in Kinds, NEW b \in DOMAIN queue'[j]
          PROVE  asked'[queue'[i][a]] = 0 /\ (queue'[j][b] = queue'[i][a] => j = i /\ b = a)
      <4>1. queue'[i][a] \notin forgotten
        BY <1>3, <3>5
      <4>2. CASE a \in DOMAIN queue[i] /\ queue'[i][a] = queue[i][a]
        <5>1. asked'[queue'[i][a]] = 0
          BY <1>1, <4>1, <4>2 DEF Ledger
        <5>2. CASE b \in DOMAIN queue[j] /\ queue'[j][b] = queue[j][b]
          <6>1. queue[j][b] = queue[i][a] => j = i /\ b = a
            BY <4>1, <4>2, <5>2 DEF Ledger
          <6>2. QED
            BY <4>2, <5>1, <5>2, <6>1
        <5>3. CASE queue'[j][b] = m
          <6>1. Recorded(queue[i][a], queue[i])
            BY <4>2 DEF Recorded
          <6>2. queue[i][a] # m
            BY <2>8, <4>1, <4>2, <6>1
          <6>3. QED
            BY <4>2, <5>1, <5>3, <6>2
        <5>4. QED
          BY <3>3, <3>5, <5>2, <5>3
      <4>3. CASE i = k /\ a = last /\ queue'[i][a] = m
        <5>1. asked'[queue'[i][a]] = 0
          BY <1>1, <2>8, <4>1, <4>3
        <5>2. CASE b \in DOMAIN queue[j] /\ queue'[j][b] = queue[j][b]
          <6>1. Recorded(queue[j][b], queue[j])
            BY <5>2 DEF Recorded
          <6>2. queue[j][b] # m
            BY <2>8, <4>1, <4>3, <6>1
          <6>3. QED
            BY <4>3, <5>1, <5>2, <6>2
        <5>3. CASE j = k /\ b = last
          BY <4>3, <5>1, <5>3
        <5>4. QED
          BY <3>3, <3>5, <5>2, <5>3
      <4>4. QED
        BY <3>3, <3>5, <4>2, <4>3
    <3>6. QED
      BY <2>6, <3>4, <3>5 DEF Ledger
  <2>12. QED
    BY <2>9, <2>10, <2>11
<1>4. QED
  BY <1>1, <1>2, <1>3

LEMMA InitLedger ==
  ASSUME Init PROVE Ledger
<1>1. /\ saved.seen = <<>> /\ disk.seen = <<>> /\ queue = [k \in Kinds |-> <<>>]
      /\ asked = [m \in Messages |-> 0]
  BY FreshType DEF Init
<1>2. \A k \in Kinds : DOMAIN queue[k] = {}
  BY <1>1, EmptySeq
<1>3. Len(saved.seen) <= SeenLimit /\ Len(disk.seen) <= SeenLimit
  BY <1>1, Constants, EmptySeq
<1>4. QED
  BY <1>1, <1>2, <1>3 DEF Ledger, Recorded

LEMMA LedgerSteps ==
  ASSUME IInv, Ledger, [Next]_vars PROVE Ledger'
<1>1. ASSUME NEW k \in Kinds, AdapterStep(k) PROVE Ledger'
  BY <1>1, IntakeLedger, AdapterStays, StaysStep
<1>2. ASSUME NEW k \in Kinds, WorkerStep(k) PROVE Ledger'
  BY <1>2, TakeLedger, WorkerStays, StaysStep
<1>3. CASE \/ SenderStep
           \/ \E k \in Kinds, what \in Whats : Apply(what, k)
           \/ \E op \in Ops : Revoke(op)
           \/ OwnerStep \/ Shutdown \/ Restart
           \/ UNCHANGED vars
  BY <1>3, OtherStays, StaysStep
<1>4. QED
  BY <1>1, <1>2, <1>3 DEF Next

THEOREM LedgerInvariant == Spec => []Ledger
BY Invariant, InitLedger, LedgerSteps, PTL DEF Spec

----------------------------------------------------------------------------
(* Theorems *)

\* The variables keep their types, whatever is delivered, decided, started,
\* stopped or lost with the process.
THEOREM TypeCorrect == Spec => []TypeOK
<1>1. IInv => TypeOK
  BY DEF IInv
<1>2. QED
  BY <1>1, Invariant, PTL

\* An open request, or an answer on its way, belongs to the confirmation in which
\* the worker of its channel waits: the end of a confirmation, of whatever kind,
\* takes its request out of the table (wait in channels/approval.rs), and no
\* channel is started again with one left over.
THEOREM RequestsAreAwaited == Spec => []PendingHasWaiter
<1>1. IInv => PendingHasWaiter
  BY DEF IInv, Sound, PendingHasWaiter
<1>2. QED
  BY <1>1, Invariant, PTL

\* A channel without a job is quiet: adapter, worker, queue and request are gone;
\* and so are all once shutdown has returned (stop_job, run_adapter and shutdown
\* in channels/mod.rs).
THEOREM StopsAreComplete == Spec => []StopIsComplete
<1>1. IInv => StopIsComplete
  BY DEF IInv, Sound, Owned, StopIsComplete
<1>2. QED
  BY <1>1, Invariant, PTL

\* A message that has not left the ledger is given to the agent at most once,
\* however often its channel delivers it, whichever saves fail and whenever the
\* process dies (admit and intake in channels/mod.rs).
THEOREM AskedAtMostOnce == Spec => []AskedOnce
<1>1. Ledger => AskedOnce
  BY DEF Ledger, AskedOnce
<1>2. QED
  BY <1>1, LedgerInvariant, PTL
=============================================================================
