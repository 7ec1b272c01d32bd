------------------------ MODULE ProtocolTasksProofs -------------------------
(***************************************************************************)
(* What the task ledger of src/protocol promises its clients, for every    *)
(* number of tasks, contexts and permits and every capacity of the store   *)
(* and of a context, with disconnects, failing writes, shutdowns and       *)
(* restarts.                                                               *)
(***************************************************************************)
EXTENDS ProtocolTasks, FiniteSetTheorems, SequenceTheorems, TLAPS

LEMMA Constants ==
  /\ IsFiniteSet(Ids) /\ Capacity \in Nat \ {0} /\ MaxStarts \in Nat
  /\ ContextTurns \in Nat \ {0}
  /\ SessionOf \in [Ids -> Sessions \union {None}]
  /\ None \notin Ids /\ None \notin Sessions /\ None \notin Status
BY TasksAssumption

\* Which phase of a task goes with which state of the map, the lock, the
\* server and the channel its waiters read.
Owners ==
  /\ \A t \in Ids : t \in active <=> pc[t] \in Worker
  /\ \A t \in Ids : pc[t] \in {"storing", "stored", "unstored"} => locked = t
  /\ server = "down" => \A t \in Ids : pc[t] \in {"new", "gone"}
  /\ server \in {"draining", "drained"} =>
       \A t \in Ids : /\ pc[t] \notin {"storing", "stored", "unstored"}
                      /\ pc[t] \in Worker => t \in drain
  /\ server = "drained" => \A t \in drain : shown[t] \in Final
  /\ \A t \in Ids : pc[t] # "gone" => shown[t] \in Unfinished

\* Only asks come to the context locks.
Asks == \A t \in Ids : pc[t] \in {"queued", "asking"} => SessionOf[t] \in Sessions

\* The file has the last ContextTurns + 1 of all the saved turns: those that were
\* loaded and the one that was appended.
Recent(file, all) ==
  /\ Len(file) = IF Len(all) <= ContextTurns THEN Len(all) ELSE ContextTurns + 1
  /\ \A i \in 1 .. Len(file) : file[i] = all[Len(all) - Len(file) + i]

CompletedAreSaved ==
  \A t \in Ids : row[t] = "COMPLETED" /\ SessionOf[t] # None => Holds(saved[SessionOf[t]], t)

\* The lock of a context in use is the one its entry leads to, and an ask that
\* runs has loaded what the file still has.
Queues ==
  /\ \A t \in Ids : pc[t] \in {"queued", "asking"} =>
       lock[t] # None /\ lock[t] = contexts[SessionOf[t]]
  /\ \A t, u \in Ids : pc[t] = "asking" /\ pc[u] = "asking" /\ lock[t] = lock[u] => t = u
  /\ \A t \in Ids : pc[t] = "calling" => SessionOf[t] = None
  /\ \A t \in Ids : pc[t] = "asking" => loaded[t] = LastTurns(turns[SessionOf[t]])
  /\ \A s \in Sessions : Recent(turns[s], saved[s])
  /\ \A t \in Ids : /\ pc[t] = "saving" /\ status[t] = "COMPLETED" /\ SessionOf[t] # None
                    => Holds(saved[SessionOf[t]], t)
  /\ CompletedAreSaved

\* The record of t allows a client to have been told s.
Agrees(t, s) ==
  \/ row[t] \in {s, None}
  \/ s = "FAILED" /\ row[t] \in Unfinished

\* What is on record, and what was told, in each phase of a task.
RecordOf(t) ==
  /\ pc[t] = "new" => row[t] = None
  /\ pc[t] \in {"detached"} \union Submitting => row[t] \notin Final
  /\ pc[t] = "stored" => row[t] = Submitted
  /\ pc[t] \in Worker \ {"leaving"} => row[t] \in Unfinished
  /\ pc[t] = "resaving" => status[t] = "FAILED"
  /\ pc[t] \in {"leaving", "publishing"} => Agrees(t, status[t])
  /\ pc[t] = "gone" /\ shown[t] \in Final => Agrees(t, shown[t])
  /\ told[t] # None => pc[t] \in {"publishing", "gone"} /\ Agrees(t, told[t])

Records == \A t \in Ids : RecordOf(t)

\* Every permit is either available or held by a submission or its worker.
Holders == {t \in Ids : pc[t] \in Submitting \union Worker}
Permits == permits + Cardinality(Holders) = Capacity

----------------------------------------------------------------------------
(* Types *)

Unchanged(t) == row'[t] = row[t]
Pruned(t) == row[t] \in Final /\ row'[t] = None

\* A write changes the record of its task; of the others it may only remove
\* final ones.
LEMMA PutWrites ==
  ASSUME TypeOK, NEW t \in Ids, NEW s \in Status, Put(t, s)
  PROVE  /\ row' \in [Ids -> Status \union {None}]
         /\ row'[t] = s
         /\ \A u \in Ids \ {t} : Unchanged(u) \/ Pruned(u)
<1>1. PICK evicted \in SUBSET {u \in Ids \ {t} : row[u] \in Final} :
        row' = [u \in Ids |-> IF u = t THEN s ELSE IF u \in evicted THEN None ELSE row[u]]
  BY DEF Put
<1>2. row' \in [Ids -> Status \union {None}]
  BY <1>1 DEF TypeOK
<1>3. \A u \in evicted : u # t /\ row[u] \in Final
  BY <1>1
<1>4. row'[t] = s
  BY <1>1
<1>5. \A u \in Ids \ {t} : Unchanged(u) \/ Pruned(u)
  <2> TAKE u \in Ids \ {t}
  <2>1. CASE u \in evicted
    BY <1>1, <1>3, <2>1 DEF Pruned
  <2>2. CASE u \notin evicted
    BY <1>1, <2>2 DEF Unchanged
  <2>3. QED
    BY <2>1, <2>2
<1>6. QED
  BY <1>2, <1>4, <1>5

LEMMA LastTurnsOf ==
  ASSUME NEW file \in File
  PROVE  /\ LastTurns(file) \in File
         /\ Len(LastTurns(file)) = IF Len(file) > ContextTurns THEN ContextTurns ELSE Len(file)
         /\ \A i \in 1 .. Len(LastTurns(file)) :
              LastTurns(file)[i] = file[Len(file) - Len(LastTurns(file)) + i]
<1>0. Len(file) \in Nat /\ ContextTurns \in Nat
  BY Constants, LenProperties DEF File
<1>1. CASE Len(file) > ContextTurns
  <2> DEFINE m == Len(file) - ContextTurns + 1
  <2>1. m \in Int /\ Len(file) \in Int /\ Len(file) - m + 1 = ContextTurns /\ m >= 1
    BY <1>0, <1>1
  <2>2. \A i \in m .. Len(file) : file[i] \in Ids
    BY <1>0, <2>1, ElementOfSeq DEF File
  <2>3. LastTurns(file) = SubSeq(file, m, Len(file))
    BY <1>1 DEF LastTurns
  <2> HIDE DEF m
  <2>4. /\ LastTurns(file) \in File
        /\ Len(LastTurns(file)) = IF m <= Len(file) THEN Len(file) - m + 1 ELSE 0
        /\ \A i \in 1 .. Len(file) - m + 1 : LastTurns(file)[i] = file[m + i - 1]
    BY <2>1, <2>2, <2>3, SubSeqProperties DEF File
  <2>5. \A i \in 1 .. ContextTurns : m + i - 1 = Len(file) - ContextTurns + i
    BY <1>0 DEF m
  <2>6. Len(LastTurns(file)) = ContextTurns
    BY <1>0, <1>1, <2>1, <2>4 DEF m
  <2>7. QED
    BY <1>0, <1>1, <2>1, <2>4, <2>5, <2>6
<1>2. CASE ~ Len(file) > ContextTurns
  BY <1>0, <1>2 DEF LastTurns
<1>3. QED
  BY <1>1, <1>2

\* What a worker leaves behind when its result is known.
LEMMA SettleType ==
  ASSUME TypeOK, NEW t \in Ids, NEW ok \in BOOLEAN, Settle(t, ok)
  PROVE  /\ status' \in [Ids -> Final]
         /\ lock' \in [Ids -> Ids \union {None}]
         /\ loaded' \in [Ids -> File]
         /\ pc' \in [Ids -> PC]
BY DEF Settle, Goto, TypeOK, Final, PC, Worker, Recording, File

LEMMA TypeStep == TypeOK /\ Asks /\ [Next]_vars => TypeOK'
<1> SUFFICES ASSUME TypeOK, Asks, [Next]_vars PROVE TypeOK'
  OBVIOUS
<1> USE Constants DEF process, admission, signals, queues, disk, ghosts
<1>0. CASE UNCHANGED vars
  BY <1>0 DEF TypeOK, vars
<1>1. ASSUME NEW t \in Ids, Submit(t) PROVE TypeOK'
  BY <1>1 DEF Submit, Goto, TypeOK, PC, Submitting
<1>2. ASSUME NEW t \in Ids, Lock(t) PROVE TypeOK'
  BY <1>2 DEF Lock, Goto, TypeOK, PC, Submitting
<1>3. ASSUME NEW t \in Ids, Store(t) PROVE TypeOK'
  <2>1. row' \in [Ids -> Status \union {None}]
    BY <1>3, PutWrites DEF Store, PutFails, TypeOK, Status, Unfinished
  <2>2. pc' \in [Ids -> PC]
    BY <1>3 DEF Store, Goto, TypeOK, PC, Submitting
  <2>3. QED
    BY <1>3, <2>1, <2>2 DEF Store, TypeOK
<1>4. ASSUME NEW t \in Ids, Resume(t) PROVE TypeOK'
  BY <1>4 DEF Resume, Goto, TypeOK, PC, Worker
<1>5. ASSUME NEW t \in Ids, Drop(t) PROVE TypeOK'
  BY <1>5 DEF Drop, Goto, TypeOK, PC
<1>6. ASSUME NEW t \in Ids, Start(t) PROVE TypeOK'
  <2>1. CASE Put(t, Working) /\ shown' = [shown EXCEPT ![t] = Working]
               /\ Goto(t, "checking") /\ UNCHANGED <<status, lock, loaded>>
    <3>1. row' \in [Ids -> Status \union {None}] /\ Working \in Status
      BY <2>1, PutWrites DEF Status, Unfinished
    <3>2. QED
      BY <1>6, <2>1, <3>1 DEF Start, Goto, TypeOK, PC, Worker, Executing
  <2>2. CASE PutFails /\ Settle(t, FALSE) /\ UNCHANGED shown
    BY <1>6, <2>2, SettleType DEF Start, PutFails, TypeOK
  <2>3. QED
    BY <1>6, <2>1, <2>2 DEF Start
<1>7. ASSUME NEW t \in Ids, Check(t) PROVE TypeOK'
  <2>1. CASE cancel[t] /\ Settle(t, FALSE) /\ UNCHANGED contexts
    BY <1>7, <2>1, SettleType DEF Check, TypeOK
  <2>2. CASE Goto(t, "calling") /\ UNCHANGED <<status, contexts, lock, loaded>>
    BY <1>7, <2>2 DEF Check, Goto, TypeOK, PC, Worker, Executing
  <2>3. CASE Join(t) /\ Goto(t, "queued") /\ UNCHANGED <<status, loaded>>
    <3>1. contexts' \in [Sessions -> Ids \union {None}] /\ lock' \in [Ids -> Ids \union {None}]
      BY <2>3 DEF Join, Alive, TypeOK
    <3>2. QED
      BY <1>7, <2>3, <3>1 DEF Check, Goto, TypeOK, PC, Worker, Executing
  <2>4. QED
    BY <1>7, <2>1, <2>2, <2>3 DEF Check
<1>8. ASSUME NEW t \in Ids, GiveUp(t) PROVE TypeOK'
  BY <1>8, SettleType DEF GiveUp, TypeOK
<1>9. ASSUME NEW t \in Ids, Acquire(t) PROVE TypeOK'
  <2>0. turns[SessionOf[t]] \in File
    BY <1>9 DEF Acquire, TypeOK, Asks
  <2>1. loaded' \in [Ids -> File] /\ pc' \in [Ids -> PC]
    BY <1>9, <2>0, LastTurnsOf DEF Acquire, Goto, TypeOK, PC, Worker, Executing
  <2>2. QED
    BY <1>9, <2>1 DEF Acquire, TypeOK
<1>10. ASSUME NEW t \in Ids, Ask(t) PROVE TypeOK'
  <2>0. /\ Append(loaded[t], t) \in File
        /\ SessionOf[t] \in Sessions /\ Append(saved[SessionOf[t]], t) \in File
    BY <1>10, AppendProperties DEF TypeOK, Asks, Ask, File
  <2>1. turns' \in [Sessions -> File] /\ saved' \in [Sessions -> File]
    <3>1. turns \in [Sessions -> File] /\ saved \in [Sessions -> File]
      BY DEF TypeOK
    <3>2. CASE UNCHANGED <<turns, saved>>
      BY <3>1, <3>2
    <3>3. CASE /\ turns' = [turns EXCEPT ![SessionOf[t]] = Append(loaded[t], t)]
               /\ saved' = [saved EXCEPT ![SessionOf[t]] = Append(@, t)]
      BY <2>0, <3>1, <3>3
    <3>4. QED
      BY <1>10, <3>2, <3>3 DEF Ask
  <2>2. \E ok \in BOOLEAN : Settle(t, ok)
    BY <1>10 DEF Ask
  <2>3. QED
    BY <1>10, <2>1, <2>2, SettleType DEF Ask, TypeOK
<1>11. ASSUME NEW t \in Ids, Call(t) PROVE TypeOK'
  BY <1>11, SettleType DEF Call, TypeOK
<1>12. ASSUME NEW t \in Ids, Save(t) PROVE TypeOK'
  <2>1. row' \in [Ids -> Status \union {None}]
    BY <1>12, PutWrites DEF Save, PutFails, TypeOK, Status
  <2>2. pc' \in [Ids -> PC] /\ status' \in [Ids -> Final]
    BY <1>12 DEF Save, Goto, TypeOK, PC, Worker, Recording, Final
  <2>3. QED
    BY <1>12, <2>1, <2>2 DEF Save, TypeOK
<1>13. ASSUME NEW t \in Ids, Resave(t) PROVE TypeOK'
  <2>1. row' \in [Ids -> Status \union {None}]
    BY <1>13, PutWrites DEF Resave, PutFails, TypeOK, Status
  <2>2. QED
    BY <1>13, <2>1 DEF Resave, Goto, TypeOK, PC, Worker
<1>14. ASSUME NEW t \in Ids, Leave(t) PROVE TypeOK'
  BY <1>14 DEF Leave, Goto, TypeOK, PC
<1>15. ASSUME NEW t \in Ids, Publish(t) PROVE TypeOK'
  BY <1>15 DEF Publish, Goto, TypeOK, PC, Status
<1>16. ASSUME NEW t \in Ids, Cancel(t) PROVE TypeOK'
  BY <1>16 DEF Cancel, TypeOK
<1>17. ASSUME NEW t \in Ids, Learn(t) PROVE TypeOK'
  BY <1>17 DEF Learn, Told, TypeOK
<1>18. CASE Open
  <2>1. row' \in [Ids -> Status \union {None}]
    BY <1>18 DEF Open, TypeOK, Status, Final
  <2>2. QED
    BY <1>18, <2>1 DEF Open, TypeOK
<1>19. CASE Die
  <2>1. /\ pc' \in [Ids -> PC] /\ shown' \in [Ids -> Status] /\ status' \in [Ids -> Final]
        /\ loaded' \in [Ids -> File]
    BY <1>19 DEF Die, Volatile, TypeOK, PC, Status, Unfinished, Final, File
  <2>2. QED
    BY <1>19, <2>1 DEF Die, Volatile, TypeOK
<1>20. CASE Stop
  BY <1>20 DEF Stop, TypeOK
<1>21. CASE CancelAll
  BY <1>21 DEF CancelAll, TypeOK
<1>22. CASE Drained
  BY <1>22 DEF Drained, TypeOK
<1>23. QED
  BY <1>0, <1>1, <1>2, <1>3, <1>4, <1>5, <1>6, <1>7, <1>8, <1>9, <1>10, <1>11, <1>12,
     <1>13, <1>14, <1>15, <1>16, <1>17, <1>18, <1>19, <1>20, <1>21, <1>22
     DEF Next, Admit, Work

LEMMA TypeInit == Init => TypeOK
BY Constants DEF Init, TypeOK, PC, Status, Unfinished, Final, File

LEMMA AsksInit == Init => Asks
BY DEF Init, Asks

LEMMA AsksStep == TypeOK /\ Asks /\ [Next]_vars => Asks'
<1> SUFFICES ASSUME TypeOK, Asks, [Next]_vars PROVE Asks'
  OBVIOUS
<1>1. CASE UNCHANGED vars
  BY <1>1 DEF vars, Asks
<1>2. ASSUME NEW t \in Ids, Admit(t) PROVE Asks'
  BY <1>2 DEF Admit, Submit, Lock, Store, Resume, Drop, Goto, TypeOK, Asks
<1>3. ASSUME NEW t \in Ids, Check(t) \/ Acquire(t) PROVE Asks'
  BY <1>3, Constants DEF Check, Acquire, Settle, Goto, TypeOK, Asks
<1>4. ASSUME NEW t \in Ids, Work(t), ~ Check(t), ~ Acquire(t) PROVE Asks'
  BY <1>4 DEF Work, Start, GiveUp, Ask, Call, Save, Resave, Leave, Publish, Settle, Goto,
              TypeOK, Asks
<1>5. ASSUME NEW t \in Ids, Cancel(t) \/ Learn(t) PROVE Asks'
  BY <1>5 DEF Cancel, Learn, Asks
<1>6. CASE Die
  BY <1>6 DEF Die, Volatile, Asks
<1>7. CASE Open \/ Stop \/ CancelAll \/ Drained
  BY <1>7 DEF Open, Stop, CancelAll, Drained, Asks
<1>8. QED
  BY <1>1, <1>2, <1>3, <1>4, <1>5, <1>6, <1>7 DEF Next

\* Every variable keeps its type: permits never become negative, and whoever
\* holds the map's lock is a submission.
THEOREM TypeCorrect == Spec => []TypeOK
BY TypeInit, TypeStep, AsksInit, AsksStep, PTL DEF Spec

----------------------------------------------------------------------------
(* Owners: shutdown *)

LEMMA OwnersInit == Init => Owners
BY DEF Init, Owners, Worker, Executing, Recording, Unfinished

LEMMA OwnersStep == TypeOK /\ Owners /\ [Next]_vars => Owners'
<1> SUFFICES ASSUME TypeOK, Owners, [Next]_vars PROVE Owners'
  OBVIOUS
<1> USE DEF process, admission, signals, queues, disk, ghosts, Worker, Executing, Recording
<1>0. CASE UNCHANGED vars
  BY <1>0 DEF Owners, vars
<1>1. ASSUME NEW t \in Ids, Submit(t) PROVE Owners'
  BY <1>1 DEF Submit, Serving, Goto, TypeOK, Owners
<1>2. ASSUME NEW t \in Ids, Lock(t) PROVE Owners'
  BY <1>2, Constants DEF Lock, Goto, TypeOK, Owners
<1>3. ASSUME NEW t \in Ids, Store(t) PROVE Owners'
  BY <1>3 DEF Store, Goto, TypeOK, Owners
<1>4. ASSUME NEW t \in Ids, Resume(t) PROVE Owners'
  BY <1>4, Constants DEF Resume, Goto, TypeOK, Owners
<1>5. ASSUME NEW t \in Ids, Drop(t) PROVE Owners'
  BY <1>5, Constants DEF Drop, Submitting, Goto, TypeOK, Owners
<1>6. ASSUME NEW t \in Ids, Start(t) PROVE Owners'
  <2>1. pc' = [pc EXCEPT ![t] = "checking"] \/ pc' = [pc EXCEPT ![t] = "saving"]
    BY <1>6 DEF Start, Settle, Goto
  <2>2. shown' = shown \/ shown' = [shown EXCEPT ![t] = Working]
    BY <1>6 DEF Start
  <2>3. \A u \in Ids : u # t => shown'[u] = shown[u]
    BY <2>2 DEF TypeOK
  <2>4. shown[t] \notin Final /\ shown'[t] \in Unfinished
    BY <1>6, <2>2 DEF Start, Owners, TypeOK, Unfinished, Final, Submitted, Working
  <2>5. QED
    BY <1>6, <2>1, <2>3, <2>4 DEF Start, TypeOK, Owners
<1>7. ASSUME NEW t \in Ids, Check(t) PROVE Owners'
  BY <1>7 DEF Check, Settle, Goto, TypeOK, Owners
<1>8. ASSUME NEW t \in Ids, GiveUp(t) \/ Acquire(t) \/ Ask(t) \/ Call(t) PROVE Owners'
  BY <1>8 DEF GiveUp, Acquire, Ask, Call, Settle, Goto, TypeOK, Owners
<1>9. ASSUME NEW t \in Ids, Save(t) \/ Resave(t) PROVE Owners'
  BY <1>9 DEF Save, Resave, Goto, TypeOK, Owners
<1>10. ASSUME NEW t \in Ids, Leave(t) PROVE Owners'
  BY <1>10 DEF Leave, Goto, TypeOK, Owners
<1>11. ASSUME NEW t \in Ids, Publish(t) PROVE Owners'
  BY <1>11 DEF Publish, Goto, TypeOK, Owners
<1>12. ASSUME NEW t \in Ids, Cancel(t) \/ Learn(t) PROVE Owners'
  BY <1>12 DEF Cancel, Learn, Owners
<1>13. CASE Open
  BY <1>13 DEF Open, Owners
<1>14. CASE Die
  BY <1>14 DEF Die, Volatile, Owners, Unfinished
<1>15. CASE Stop
  BY <1>15 DEF Stop, Owners
<1>16. CASE CancelAll
  BY <1>16, Constants DEF CancelAll, Owners
<1>17. CASE Drained
  BY <1>17 DEF Drained, Owners
<1>18. QED
  BY <1>0, <1>1, <1>2, <1>3, <1>4, <1>5, <1>6, <1>7, <1>8, <1>9, <1>10, <1>11, <1>12,
     <1>13, <1>14, <1>15, <1>16, <1>17 DEF Next, Admit, Work

LEMMA ShutdownIsLast == TypeOK /\ Owners => NothingOutlivesShutdown
BY DEF Owners, NothingOutlivesShutdown, TypeOK, Final, Unfinished, Submitted, Working,
       Worker, Executing, Recording

\* After shutdown has returned, no task of the process runs or writes: it
\* waits for each, and no submission slips past it.
THEOREM ShutdownDrains == Spec => []NothingOutlivesShutdown
<1>1. Init => TypeOK /\ Asks /\ Owners
  BY TypeInit, AsksInit, OwnersInit
<1>2. TypeOK /\ Asks /\ Owners /\ [Next]_vars => (TypeOK /\ Asks /\ Owners)'
  BY TypeStep, AsksStep, OwnersStep
<1>3. TypeOK /\ Asks /\ Owners => NothingOutlivesShutdown
  BY ShutdownIsLast
<1>4. QED
  BY <1>1, <1>2, <1>3, PTL DEF Spec

----------------------------------------------------------------------------
(* Queues: contexts *)

\* A turn that is saved is put behind the last ContextTurns of the file, which
\* has again the last ContextTurns + 1 of all.
LEMMA RecentAppend ==
  ASSUME NEW file \in File, NEW all \in File, Recent(file, all), NEW t \in Ids
  PROVE  Recent(Append(LastTurns(file), t), Append(all, t))
<1> DEFINE kept == LastTurns(file)
           now == Append(kept, t)
           ever == Append(all, t)
<1>0. Len(file) \in Nat /\ Len(all) \in Nat /\ ContextTurns \in Nat
  BY Constants, LenProperties DEF File
<1>1. /\ kept \in File
      /\ Len(kept) = IF Len(file) > ContextTurns THEN ContextTurns ELSE Len(file)
      /\ \A i \in 1 .. Len(kept) : kept[i] = file[Len(file) - Len(kept) + i]
  BY LastTurnsOf
<1> HIDE DEF kept
<1>2. /\ Len(now) = Len(kept) + 1 /\ now[Len(kept) + 1] = t
      /\ \A i \in 1 .. Len(kept) : now[i] = kept[i]
  BY <1>1, AppendProperties DEF File
<1>3. /\ Len(ever) = Len(all) + 1 /\ ever[Len(all) + 1] = t
      /\ \A i \in 1 .. Len(all) : ever[i] = all[i]
  BY AppendProperties DEF File
<1> HIDE DEF now, ever
<1>4. /\ Len(file) = IF Len(all) <= ContextTurns THEN Len(all) ELSE ContextTurns + 1
      /\ \A i \in 1 .. Len(file) : file[i] = all[Len(all) - Len(file) + i]
  BY DEF Recent
<1>5. Len(now) = IF Len(ever) <= ContextTurns THEN Len(ever) ELSE ContextTurns + 1
  BY <1>0, <1>1, <1>2, <1>3, <1>4
<1>6. ASSUME NEW i \in 1 .. Len(now) PROVE now[i] = ever[Len(ever) - Len(now) + i]
  <2>0. Len(kept) \in Nat /\ Len(kept) <= Len(file) /\ Len(file) <= Len(all) /\ i \in Nat
    BY <1>0, <1>1, <1>4
  <2>1. Len(ever) - Len(now) + i = Len(all) - Len(kept) + i
    BY <1>0, <1>2, <1>3, <2>0
  <2>2. CASE i = Len(kept) + 1
    <3>1. Len(all) - Len(kept) + i = Len(all) + 1
      BY <1>0, <2>0, <2>2
    <3>2. QED
      BY <1>2, <1>3, <2>1, <2>2, <3>1
  <2>3. CASE i # Len(kept) + 1
    <3>1. i \in 1 .. Len(kept)
      BY <1>2, <2>0, <2>3
    <3> DEFINE j == Len(file) - Len(kept) + i
    <3>2. j \in 1 .. Len(file) /\ Len(all) - Len(file) + j = Len(all) - Len(kept) + i
      BY <1>0, <2>0, <3>1
    <3>3. Len(all) - Len(kept) + i \in 1 .. Len(all)
      BY <1>0, <2>0, <3>1
    <3>4. now[i] = file[j]
      BY <1>1, <1>2, <3>1
    <3> HIDE DEF j
    <3>5. file[j] = all[Len(all) - Len(kept) + i]
      BY <1>4, <3>2
    <3>6. QED
      BY <1>3, <2>1, <3>3, <3>4, <3>5
  <2>4. QED
    BY <2>2, <2>3
<1>7. QED
  BY <1>5, <1>6 DEF Recent, now, ever, kept

\* What was saved stays in the history, which now has this turn too.
LEMMA HoldsAppend ==
  ASSUME NEW all \in File, NEW t \in Ids
  PROVE  /\ Holds(Append(all, t), t)
         /\ \A u \in Ids : Holds(all, u) => Holds(Append(all, t), u)
<1>1. /\ DOMAIN all = 1 .. Len(all) /\ Len(all) \in Nat
      /\ DOMAIN Append(all, t) = 1 .. Len(all) + 1
      /\ Append(all, t)[Len(all) + 1] = t
      /\ \A i \in 1 .. Len(all) : Append(all, t)[i] = all[i]
  BY AppendProperties, LenProperties DEF File
<1>2. Holds(Append(all, t), t)
  BY <1>1 DEF Holds
<1>3. ASSUME NEW u \in Ids, Holds(all, u) PROVE Holds(Append(all, t), u)
  BY <1>1, <1>3 DEF Holds
<1>4. QED
  BY <1>2, <1>3

LEMMA QueuesInit == Init => Queues
<1> SUFFICES ASSUME Init PROVE Queues
  OBVIOUS
<1>1. ASSUME NEW s \in Sessions PROVE Recent(turns[s], saved[s])
  <2>1. turns[s] = <<>> /\ saved[s] = <<>>
    BY DEF Init
  <2>2. QED
    BY <2>1, Constants DEF Recent
<1>2. QED
  BY <1>1, Constants DEF Init, Queues, CompletedAreSaved, Status, Final

\* The locks of the others stay; the joiner gets the lock of its session.
LEMMA JoinShares ==
  ASSUME TypeOK, Asks, Queues, NEW t \in Ids, pc[t] = "checking", SessionOf[t] \in Sessions,
         Join(t)
  PROVE  /\ lock' \in [Ids -> Ids \union {None}]
         /\ lock'[t] # None /\ lock'[t] = contexts'[SessionOf[t]]
         /\ \A u \in Ids \ {t} : lock'[u] = lock[u]
         /\ \A u \in Ids : pc[u] \in {"queued", "asking"} =>
              contexts'[SessionOf[u]] = contexts[SessionOf[u]]
<1> DEFINE s == SessionOf[t]
           mine == IF Alive(s) THEN contexts[s] ELSE t
<1>1. mine \in Ids
  BY DEF TypeOK, Alive
<1>2. /\ lock' = [lock EXCEPT ![t] = mine]
      /\ contexts' = [c \in Sessions |-> IF c = s THEN mine
                                         ELSE IF Alive(c) THEN contexts[c] ELSE None]
  BY DEF Join
<1>3. ASSUME NEW u \in Ids, pc[u] \in {"queued", "asking"}
      PROVE  contexts'[SessionOf[u]] = contexts[SessionOf[u]]
  <2>1. SessionOf[u] \in Sessions /\ Alive(SessionOf[u])
    BY <1>3 DEF Asks, Queues, Alive
  <2>2. QED
    BY <1>2, <2>1
<1> HIDE DEF mine
<1>4. QED
  BY <1>1, <1>2, <1>3, Constants DEF TypeOK

\* Only the write of COMPLETED completes a record.
LEMMA NothingCompletes ==
  ASSUME TypeOK, NEW t \in Ids, NEW s \in Status \ {"COMPLETED"}, Put(t, s) \/ PutFails
  PROVE  \A u \in Ids : row'[u] = "COMPLETED" => row[u] = "COMPLETED"
<1>1. CASE Put(t, s)
  <2>1. row'[t] = s /\ \A u \in Ids \ {t} : Unchanged(u) \/ Pruned(u)
    BY <1>1, PutWrites
  <2>2. None # "COMPLETED"
    BY Constants DEF Status, Final
  <2>3. QED
    BY <2>1, <2>2 DEF Unchanged, Pruned
<1>2. CASE PutFails
  BY <1>2 DEF PutFails
<1>3. QED
  BY <1>1, <1>2

LEMMA QueuesStep == TypeOK /\ Asks /\ Records /\ Queues /\ [Next]_vars => Queues'
<1> SUFFICES ASSUME TypeOK, Asks, Records, Queues, [Next]_vars PROVE Queues'
  OBVIOUS
<1> USE DEF process, admission, signals, queues, disk, ghosts
<1>0. CASE UNCHANGED vars
  BY <1>0 DEF Queues, CompletedAreSaved, vars
<1>1. ASSUME NEW t \in Ids, Submit(t) \/ Lock(t) \/ Resume(t) \/ Drop(t) PROVE Queues'
  BY <1>1 DEF Submit, Lock, Resume, Drop, Goto, TypeOK, Queues, CompletedAreSaved
<1>2. ASSUME NEW t \in Ids, Store(t) PROVE Queues'
  <2>1. \A u \in Ids : row'[u] = "COMPLETED" => row[u] = "COMPLETED"
    BY <1>2, NothingCompletes DEF Store, Status, Unfinished, Submitted
  <2>2. \E l \in {"stored", "unstored", "gone"} : pc' = [pc EXCEPT ![t] = l]
    BY <1>2 DEF Store, Goto
  <2>3. QED
    BY <1>2, <2>1, <2>2 DEF Store, TypeOK, Queues, CompletedAreSaved
<1>3. ASSUME NEW t \in Ids, Start(t) PROVE Queues'
  <2>1. \A u \in Ids : row'[u] = "COMPLETED" => row[u] = "COMPLETED"
    <3>1. Working \in Status \ {"COMPLETED"}
      BY DEF Status, Unfinished, Working
    <3>2. Put(t, Working) \/ PutFails
      BY <1>3 DEF Start
    <3>3. QED
      BY <3>1, <3>2, NothingCompletes
  <2>2. CASE Goto(t, "checking") /\ UNCHANGED <<status, lock, loaded>>
    BY <1>3, <2>1, <2>2 DEF Start, Goto, TypeOK, Queues, CompletedAreSaved
  <2>3. CASE Settle(t, FALSE)
    BY <1>3, <2>1, <2>3 DEF Start, Settle, Goto, TypeOK, Queues, CompletedAreSaved
  <2>4. QED
    BY <1>3, <2>2, <2>3 DEF Start
<1>4. ASSUME NEW t \in Ids, Check(t) PROVE Queues'
  <2>1. CASE Settle(t, FALSE) /\ UNCHANGED contexts
    BY <1>4, <2>1 DEF Check, Settle, Goto, TypeOK, Queues, CompletedAreSaved
  <2>2. CASE SessionOf[t] = None /\ Goto(t, "calling") /\ UNCHANGED <<status, contexts, lock, loaded>>
    BY <1>4, <2>2 DEF Check, Goto, TypeOK, Queues, CompletedAreSaved
  <2>3. CASE SessionOf[t] # None /\ Join(t) /\ Goto(t, "queued") /\ UNCHANGED <<status, loaded>>
    <3>1. SessionOf[t] \in Sessions /\ pc[t] = "checking"
      BY <1>4, <2>3, Constants DEF Check
    <3>2. /\ lock'[t] # None /\ lock'[t] = contexts'[SessionOf[t]]
          /\ \A u \in Ids \ {t} : lock'[u] = lock[u]
          /\ \A u \in Ids : pc[u] \in {"queued", "asking"} =>
               contexts'[SessionOf[u]] = contexts[SessionOf[u]]
      BY <2>3, <3>1, JoinShares
    <3>3. /\ pc'[t] = "queued"
          /\ \A u \in Ids \ {t} : pc'[u] = pc[u]
          /\ UNCHANGED <<status, loaded, turns, row, saved>>
      BY <1>4, <2>3 DEF Check, Goto, TypeOK
    <3>4. \A u \in Ids : pc'[u] \in {"queued", "asking"} =>
            lock'[u] # None /\ lock'[u] = contexts'[SessionOf[u]]
      BY <3>1, <3>2, <3>3 DEF Queues
    <3>5. QED
      BY <3>1, <3>2, <3>3, <3>4 DEF Queues, CompletedAreSaved
  <2>4. QED
    BY <1>4, <2>1, <2>2, <2>3 DEF Check
<1>5. ASSUME NEW t \in Ids, GiveUp(t) PROVE Queues'
  BY <1>5 DEF GiveUp, Settle, Goto, TypeOK, Queues, CompletedAreSaved
<1>6. ASSUME NEW t \in Ids, Acquire(t) PROVE Queues'
  BY <1>6 DEF Acquire, Goto, TypeOK, Queues, CompletedAreSaved
<1>7. ASSUME NEW t \in Ids, Ask(t) PROVE Queues'
  <2>1. CASE UNCHANGED <<turns, saved>> /\ Settle(t, FALSE)
    BY <1>7, <2>1 DEF Ask, Settle, Goto, TypeOK, Queues, CompletedAreSaved
  <2>2. CASE /\ turns' = [turns EXCEPT ![SessionOf[t]] = Append(loaded[t], t)]
             /\ saved' = [saved EXCEPT ![SessionOf[t]] = Append(@, t)]
             /\ Settle(t, TRUE)
    <3> DEFINE s == SessionOf[t]
    <3>1. loaded[t] = LastTurns(turns[s]) /\ s \in Sessions /\ Recent(turns[s], saved[s])
      BY <1>7 DEF Ask, Queues, Asks
    <3>2. /\ turns'[s] = Append(LastTurns(turns[s]), t)
          /\ saved'[s] = Append(saved[s], t)
          /\ turns[s] \in File /\ saved[s] \in File
          /\ \A c \in Sessions : c # s => turns'[c] = turns[c] /\ saved'[c] = saved[c]
      BY <2>2, <3>1 DEF TypeOK
    <3>3. /\ pc'[t] = "saving" /\ \A u \in Ids \ {t} : pc'[u] = pc[u]
          /\ \A u \in Ids \ {t} : lock'[u] = lock[u]
          /\ \A u \in Ids \ {t} : loaded'[u] = loaded[u]
          /\ \A u \in Ids \ {t} : status'[u] = status[u]
          /\ UNCHANGED <<contexts, row>>
      BY <1>7, <2>2 DEF Ask, Settle, Goto, TypeOK
    <3>4. \A u \in Ids \ {t} : pc[u] = "asking" => SessionOf[u] \in Sessions /\ SessionOf[u] # s
      BY <1>7 DEF Ask, Queues, Asks
    <3>5. \A u \in Ids : pc'[u] = "asking" => loaded'[u] = LastTurns(turns'[SessionOf[u]])
      BY <3>2, <3>3, <3>4 DEF Queues
    <3>6. \A c \in Sessions : Recent(turns'[c], saved'[c])
      <4>1. Recent(turns'[s], saved'[s])
        BY <3>1, <3>2, RecentAppend
      <4>2. QED
        BY <3>2, <4>1 DEF Queues
    <3>7. /\ Holds(saved'[s], t)
          /\ \A c \in Sessions : \A u \in Ids : Holds(saved[c], u) => Holds(saved'[c], u)
      <4>1. Holds(saved'[s], t) /\ \A u \in Ids : Holds(saved[s], u) => Holds(saved'[s], u)
        BY <3>2, HoldsAppend
      <4>2. \A c \in Sessions : c # s => saved'[c] = saved[c]
        BY <3>2
      <4>3. QED
        BY <4>1, <4>2
    <3>8. \A u \in Ids : SessionOf[u] # None => SessionOf[u] \in Sessions
      BY Constants
    <3> HIDE DEF s
    <3>9. \A u \in Ids : /\ pc'[u] = "saving" /\ status'[u] = "COMPLETED" /\ SessionOf[u] # None
                         => Holds(saved'[SessionOf[u]], u)
      BY <3>3, <3>7, <3>8 DEF Queues, s
    <3>10. CompletedAreSaved'
      BY <3>3, <3>7, <3>8 DEF Queues, CompletedAreSaved
    <3>11. QED
      BY <3>3, <3>5, <3>6, <3>9, <3>10 DEF Queues
  <2>3. QED
    BY <1>7, <2>1, <2>2 DEF Ask
<1>8. ASSUME NEW t \in Ids, Call(t) PROVE Queues'
  BY <1>8 DEF Call, Settle, Goto, TypeOK, Queues, CompletedAreSaved
<1>9. ASSUME NEW t \in Ids, Save(t) PROVE Queues'
  <2>1. \A u \in Ids : row'[u] = "COMPLETED" =>
          \/ row[u] = "COMPLETED"
          \/ u = t /\ status[t] = "COMPLETED"
    <3>1. CASE Put(t, status[t])
      <4>1. row'[t] = status[t] /\ \A u \in Ids \ {t} : Unchanged(u) \/ Pruned(u)
        BY <3>1, PutWrites DEF TypeOK, Status
      <4>2. None # "COMPLETED"
        BY Constants DEF Status, Final
      <4>3. QED
        BY <4>1, <4>2 DEF Unchanged, Pruned
    <3>2. CASE PutFails
      BY <3>2 DEF PutFails
    <3>3. QED
      BY <1>9, <3>1, <3>2 DEF Save
  <2>2. CompletedAreSaved'
    BY <1>9, <2>1 DEF Save, Queues, CompletedAreSaved
  <2>3. \E l \in {"leaving", "resaving"} : pc' = [pc EXCEPT ![t] = l]
    BY <1>9 DEF Save, Goto
  <2>4. \A u \in Ids \ {t} : status'[u] = status[u]
    BY <1>9 DEF Save, TypeOK
  <2>5. QED
    BY <1>9, <2>2, <2>3, <2>4 DEF Save, TypeOK, Queues
<1>10. ASSUME NEW t \in Ids, Resave(t) PROVE Queues'
  <2>1. \A u \in Ids : row'[u] = "COMPLETED" => row[u] = "COMPLETED"
    BY <1>10, NothingCompletes DEF Resave, Records, RecordOf, Status, Final
  <2>2. QED
    BY <1>10, <2>1 DEF Resave, Goto, TypeOK, Queues, CompletedAreSaved
<1>11. ASSUME NEW t \in Ids, Leave(t) \/ Publish(t) PROVE Queues'
  BY <1>11 DEF Leave, Publish, Goto, TypeOK, Queues, CompletedAreSaved
<1>12. ASSUME NEW t \in Ids, Cancel(t) \/ Learn(t) PROVE Queues'
  BY <1>12 DEF Cancel, Learn, Queues, CompletedAreSaved
<1>13. CASE Open
  <2>1. \A u \in Ids : row'[u] = "COMPLETED" => row[u] = "COMPLETED"
    BY <1>13 DEF Open, TypeOK
  <2>2. QED
    BY <1>13, <2>1 DEF Open, Queues, CompletedAreSaved
<1>14. CASE Die
  BY <1>14 DEF Die, Volatile, Queues, CompletedAreSaved
<1>15. CASE Stop \/ CancelAll \/ Drained
  BY <1>15 DEF Stop, CancelAll, Drained, Queues, CompletedAreSaved
<1>16. QED
  BY <1>0, <1>1, <1>2, <1>3, <1>4, <1>5, <1>6, <1>7, <1>8, <1>9, <1>10, <1>11, <1>12,
     <1>13, <1>14, <1>15 DEF Next, Admit, Work

----------------------------------------------------------------------------
(* Records: what clients are told *)

LEMMA RecordsInit == Init => Records
BY Constants DEF Init, Records, RecordOf, Agrees, Status, Unfinished, Final, Worker, Executing, Recording

\* What others write leaves alone what is on record and what was told of u.
LEMMA OthersWrite ==
  ASSUME TypeOK, Records, NEW t \in Ids, NEW s \in Status, Put(t, s) \/ PutFails,
         NEW u \in Ids, u # t,
         pc'[u] = pc[u], shown'[u] = shown[u], status'[u] = status[u], told'[u] = told[u]
  PROVE  RecordOf(u)'
<1>1. Unchanged(u) \/ Pruned(u)
  BY PutWrites DEF Unchanged, PutFails
<1>2. RecordOf(u) /\ pc[u] \in PC /\ status[u] \in Final /\ told[u] \in Final \union {None}
  BY DEF Records, TypeOK
<1>3. CASE Unchanged(u)
  BY <1>2, <1>3 DEF Unchanged, RecordOf, Agrees
<1>4. CASE Pruned(u)
  <2>1. row[u] \notin Unfinished /\ row[u] # Submitted /\ None \notin Final
    BY <1>4, Constants DEF Pruned, Final, Unfinished, Submitted, Working, Status
  <2>2. QED
    BY <1>2, <1>4, <2>1 DEF Pruned, RecordOf, Agrees
<1>5. QED
  BY <1>1, <1>3, <1>4

\* So do steps of others that write nothing.
LEMMA OthersStep ==
  ASSUME TypeOK, Records, NEW u \in Ids, row'[u] = row[u],
         pc'[u] = pc[u], shown'[u] = shown[u], status'[u] = status[u], told'[u] = told[u]
  PROVE  RecordOf(u)'
BY DEF Records, RecordOf, Agrees

LEMMA RecordsStep == TypeOK /\ Owners /\ Records /\ [Next]_vars => Records'
<1> SUFFICES ASSUME TypeOK, Owners, Records, [Next]_vars PROVE Records'
  OBVIOUS
<1> USE DEF process, admission, signals, queues, disk, ghosts, Worker, Executing, Recording, Submitting
<1>0. CASE UNCHANGED vars
  BY <1>0, OthersStep DEF Records, vars
<1>1. ASSUME NEW t \in Ids, Submit(t) \/ Lock(t) \/ Resume(t) \/ Drop(t) PROVE Records'
  <2>1. ASSUME NEW u \in Ids, u # t PROVE RecordOf(u)'
    BY <1>1, <2>1, OthersStep DEF Submit, Lock, Resume, Drop, Goto, TypeOK
  <2>2. RecordOf(t)'
    <3>1. RecordOf(t) /\ UNCHANGED <<row, shown, status, told>>
      BY <1>1 DEF Submit, Lock, Resume, Drop, Records
    <3>2. None \notin Final /\ Submitted \notin Final /\ shown[t] \in Unfinished
      BY <1>1, Constants DEF Submit, Lock, Resume, Drop, Owners, Status, Final, Submitted
    <3>3. \/ pc[t] = "new" /\ pc'[t] = "locking"
          \/ pc[t] \in Submitting /\ pc'[t] \in {"storing", "gone", "detached"}
          \/ pc[t] = "stored" /\ pc'[t] = "starting"
      BY <1>1 DEF Submit, Lock, Resume, Drop, Goto, TypeOK
    <3>4. shown[t] \notin Final /\ Submitted \in Unfinished
      BY <3>2 DEF Unfinished, Final, Submitted, Working
    <3>5. QED
      BY <3>1, <3>2, <3>3, <3>4 DEF RecordOf
  <2>3. QED
    BY <2>1, <2>2 DEF Records
<1>2. ASSUME NEW t \in Ids, Store(t) PROVE Records'
  <2>1. Submitted \in Status /\ (Put(t, Submitted) \/ PutFails)
    BY <1>2 DEF Store, Status, Unfinished
  <2>2. ASSUME NEW u \in Ids, u # t PROVE RecordOf(u)'
    <3>1. pc'[u] = pc[u] /\ UNCHANGED <<shown, status, told>>
      BY <1>2, <2>2 DEF Store, Goto, TypeOK
    <3>2. QED
      BY <2>1, <2>2, <3>1, OthersWrite
  <2>3. /\ row'[t] = Submitted \/ row'[t] = row[t]
        /\ pc'[t] = "stored" => row'[t] = Submitted
    BY <1>2, <2>1, PutWrites DEF Store, PutFails, Goto, TypeOK
  <2>4. pc'[t] \in {"stored", "unstored", "gone"} /\ UNCHANGED <<shown, status, told>>
    BY <1>2 DEF Store, Goto, TypeOK
  <2>5. /\ row[t] \notin Final /\ told[t] = None /\ shown[t] \notin Final
        /\ Submitted \notin Final
    BY <1>2 DEF Store, Records, RecordOf, Owners, TypeOK, Final, Unfinished, Submitted, Working
  <2>6. RecordOf(t)'
    BY <2>3, <2>4, <2>5 DEF RecordOf
  <2>7. QED
    BY <2>2, <2>6 DEF Records
<1>3. ASSUME NEW t \in Ids, Start(t) PROVE Records'
  <2>1. Working \in Status /\ (Put(t, Working) \/ PutFails)
    BY <1>3 DEF Start, Status, Unfinished
  <2>2. ASSUME NEW u \in Ids, u # t PROVE RecordOf(u)'
    <3>1. pc'[u] = pc[u] /\ shown'[u] = shown[u] /\ status'[u] = status[u] /\ told' = told
      BY <1>3, <2>2 DEF Start, Settle, Goto, TypeOK
    <3>2. QED
      BY <2>1, <2>2, <3>1, OthersWrite
  <2>3. row'[t] \in Unfinished
    <3>1. row[t] \in Unfinished
      BY <1>3 DEF Start, Records, RecordOf
    <3>2. QED
      BY <2>1, <3>1, PutWrites DEF PutFails, Unfinished
  <2>4. pc'[t] \in {"checking", "saving"} /\ told'[t] = None
    BY <1>3 DEF Start, Settle, Goto, TypeOK, Records, RecordOf
  <2>5. RecordOf(t)'
    BY <2>3, <2>4 DEF RecordOf, Unfinished, Final
  <2>6. QED
    BY <2>2, <2>5 DEF Records
<1>4. ASSUME NEW t \in Ids, Check(t) \/ GiveUp(t) \/ Acquire(t) \/ Ask(t) \/ Call(t)
      PROVE  Records'
  <2>1. ASSUME NEW u \in Ids, u # t PROVE RecordOf(u)'
    BY <1>4, <2>1, OthersStep DEF Check, GiveUp, Acquire, Ask, Call, Settle, Goto, TypeOK
  <2>2. /\ pc'[t] \in {"queued", "asking", "calling", "saving"}
        /\ pc[t] \in {"checking", "queued", "asking", "calling"}
        /\ UNCHANGED <<row, told>>
    BY <1>4 DEF Check, GiveUp, Acquire, Ask, Call, Settle, Goto, TypeOK
  <2>3. RecordOf(t)'
    BY <2>2 DEF Records, RecordOf
  <2>4. QED
    BY <2>1, <2>3 DEF Records
<1>5. ASSUME NEW t \in Ids, Save(t) PROVE Records'
  <2>1. status[t] \in Final /\ status[t] \in Status /\ (Put(t, status[t]) \/ PutFails)
    BY <1>5 DEF Save, TypeOK, Status
  <2>2. ASSUME NEW u \in Ids, u # t PROVE RecordOf(u)'
    <3>1. pc'[u] = pc[u] /\ shown' = shown /\ status'[u] = status[u] /\ told' = told
      BY <1>5, <2>2 DEF Save, Goto, TypeOK
    <3>2. QED
      BY <2>1, <2>2, <3>1, OthersWrite
  <2>3. told'[t] = None /\ row[t] \in Unfinished
    BY <1>5 DEF Save, Records, RecordOf
  <2>4. CASE Put(t, status[t]) /\ Goto(t, "leaving") /\ UNCHANGED status
    <3>1. row'[t] = status[t] /\ pc'[t] = "leaving" /\ status' = status
      BY <2>1, <2>4, PutWrites DEF Goto, TypeOK
    <3>2. RecordOf(t)'
      BY <2>3, <3>1 DEF RecordOf, Agrees
    <3>3. QED
      BY <2>2, <3>2 DEF Records
  <2>5. CASE PutFails /\ status' = [status EXCEPT ![t] = "FAILED"] /\ Goto(t, "resaving")
    <3>1. row' = row /\ pc'[t] = "resaving" /\ status'[t] = "FAILED"
      BY <2>5 DEF PutFails, Goto, TypeOK
    <3>2. RecordOf(t)'
      BY <2>3, <3>1 DEF RecordOf
    <3>3. QED
      BY <2>2, <3>2 DEF Records
  <2>6. QED
    BY <1>5, <2>4, <2>5 DEF Save
<1>6. ASSUME NEW t \in Ids, Resave(t) PROVE Records'
  <2>1. status[t] \in Status /\ (Put(t, status[t]) \/ PutFails)
    BY <1>6 DEF Resave, TypeOK, Status
  <2>2. ASSUME NEW u \in Ids, u # t PROVE RecordOf(u)'
    <3>1. pc'[u] = pc[u] /\ shown' = shown /\ status' = status /\ told' = told
      BY <1>6, <2>2 DEF Resave, Goto, TypeOK
    <3>2. QED
      BY <2>1, <2>2, <3>1, OthersWrite
  <2>3. told'[t] = None /\ row[t] \in Unfinished /\ status[t] = "FAILED"
    BY <1>6 DEF Resave, Records, RecordOf
  <2>4. row'[t] = status[t] \/ row'[t] = row[t]
    BY <2>1, PutWrites DEF PutFails
  <2>5. pc'[t] = "leaving" /\ status' = status
    BY <1>6 DEF Resave, Goto, TypeOK
  <2>6. RecordOf(t)'
    BY <2>3, <2>4, <2>5 DEF RecordOf, Agrees
  <2>7. QED
    BY <2>2, <2>6 DEF Records
<1>7. ASSUME NEW t \in Ids, Leave(t) \/ Publish(t) PROVE Records'
  <2>1. ASSUME NEW u \in Ids, u # t PROVE RecordOf(u)'
    BY <1>7, <2>1, OthersStep DEF Leave, Publish, Goto, TypeOK
  <2>2. RecordOf(t)'
    BY <1>7 DEF Leave, Publish, Goto, TypeOK, Records, RecordOf, Agrees
  <2>3. QED
    BY <2>1, <2>2 DEF Records
<1>8. ASSUME NEW t \in Ids, Cancel(t) PROVE Records'
  BY <1>8, OthersStep DEF Cancel, Records
<1>9. ASSUME NEW t \in Ids, Learn(t) PROVE Records'
  <2>1. ASSUME NEW u \in Ids, u # t PROVE RecordOf(u)'
    BY <1>9, <2>1, OthersStep DEF Learn, Told, TypeOK
  <2>2. CASE pc[t] = "gone" /\ shown[t] \in Final /\ Told(t, shown[t])
    BY <1>9, <2>2 DEF Learn, Told, TypeOK, Records, RecordOf, Agrees
  <2>3. CASE Answer(t) \in Final /\ Told(t, Answer(t))
    <3>1. t \notin active
      BY <2>3 DEF Answer, Owners, Unfinished, Final, Submitted, Working
    <3>2. row[t] \in Final /\ told' = [told EXCEPT ![t] = row[t]]
      BY <2>3, <3>1 DEF Answer, Told
    <3>3. pc[t] \in {"publishing", "gone"}
      <4>1. None \notin Final /\ Unfinished \intersect Final = {}
        BY Constants DEF Status, Final, Unfinished, Submitted, Working
      <4>2. QED
        BY <3>1, <3>2, <4>1 DEF Records, RecordOf, Owners, TypeOK, PC
    <3>4. RecordOf(t)'
      BY <1>9, <3>2, <3>3 DEF Learn, TypeOK, Records, RecordOf, Agrees
    <3>5. QED
      BY <2>1, <3>4 DEF Records
  <2>4. QED
    BY <1>9, <2>1, <2>2, <2>3 DEF Learn, Records
<1>10. CASE Open
  <2>1. ASSUME NEW t \in Ids PROVE RecordOf(t)'
    <3>1. /\ pc[t] \in {"new", "gone"}
          /\ row'[t] = IF row[t] \in Unfinished THEN "FAILED" ELSE row[t]
          /\ UNCHANGED <<pc, shown, status, told>>
      BY <1>10 DEF Open, Owners
    <3>2. RecordOf(t)
      BY DEF Records
    <3>3. None \notin Unfinished /\ "FAILED" \notin Unfinished /\ Submitted \notin Final
      BY Constants DEF Status, Unfinished, Final, Submitted, Working
    <3>4. CASE pc[t] = "new"
      BY <3>1, <3>2, <3>3, <3>4 DEF RecordOf, Agrees
    <3>5. CASE pc[t] = "gone"
      <4>1. told[t] \in Final \union {None} /\ Unfinished \intersect Final = {}
        BY DEF TypeOK, Unfinished, Final, Submitted, Working
      <4>2. QED
        BY <3>1, <3>2, <3>3, <3>5, <4>1 DEF RecordOf, Agrees
    <3>6. QED
      BY <3>1, <3>4, <3>5
  <2>2. QED
    BY <2>1 DEF Records
<1>11. CASE Die
  <2>1. ASSUME NEW t \in Ids PROVE RecordOf(t)'
    <3>1. /\ pc'[t] = IF pc[t] = "new" THEN "new" ELSE "gone"
          /\ shown'[t] = Submitted
          /\ UNCHANGED <<row, told>>
      BY <1>11 DEF Die, Volatile
    <3>2. RecordOf(t) /\ Submitted \notin Final
      BY DEF Records, Final, Submitted
    <3>3. QED
      BY <3>1, <3>2 DEF RecordOf, Agrees
  <2>2. QED
    BY <2>1 DEF Records
<1>12. CASE Stop \/ CancelAll \/ Drained
  BY <1>12, OthersStep DEF Stop, CancelAll, Drained, Records
<1>13. QED
  BY <1>0, <1>1, <1>2, <1>3, <1>4, <1>5, <1>6, <1>7, <1>8, <1>9, <1>10, <1>11, <1>12
     DEF Next, Admit, Work

----------------------------------------------------------------------------
(* What holds together *)

Inv == TypeOK /\ Asks /\ Owners /\ Records /\ Queues

LEMMA Invariance == Spec => []Inv
<1>1. Init => Inv
  BY TypeInit, AsksInit, OwnersInit, RecordsInit, QueuesInit DEF Inv
<1>2. Inv /\ [Next]_vars => Inv'
  BY TypeStep, AsksStep, OwnersStep, RecordsStep, QueuesStep DEF Inv
<1>3. QED
  BY <1>1, <1>2, PTL DEF Spec

LEMMA SameSessionSameLock == Asks /\ Queues => AsksTakeTurns
BY DEF Asks, Queues, AsksTakeTurns

\* Asks that share a context take turns, whoever cancels or crashes.
THEOREM ContextsAreSerial == Spec => []AsksTakeTurns
<1>1. Inv => AsksTakeTurns
  BY SameSessionSameLock DEF Inv
<1>2. QED
  BY <1>1, Invariance, PTL

\* A turn among the last ContextTurns + 1 saved ones is in the file.
LEMMA RecentHolds ==
  ASSUME NEW file \in File, NEW all \in File, Recent(file, all),
         NEW i \in DOMAIN all, Len(all) - i <= ContextTurns
  PROVE  Holds(file, all[i])
<1>0. /\ Len(file) \in Nat /\ Len(all) \in Nat /\ ContextTurns \in Nat
      /\ DOMAIN file = 1 .. Len(file) /\ i \in 1 .. Len(all)
  BY Constants, LenProperties DEF File
<1> DEFINE j == i - (Len(all) - Len(file))
<1>1. j \in 1 .. Len(file) /\ Len(all) - Len(file) + j = i
  BY <1>0 DEF Recent
<1> HIDE DEF j
<1>2. file[j] = all[i]
  BY <1>1 DEF Recent
<1>3. QED
  BY <1>0, <1>1, <1>2 DEF Holds

LEMMA SavedTurnsAreKept == TypeOK /\ Queues => TurnsAreKept
<1> SUFFICES ASSUME TypeOK, Queues,
                    NEW t \in Ids, row[t] = "COMPLETED", SessionOf[t] # None
             PROVE  \E i \in DOMAIN saved[SessionOf[t]] :
                      /\ saved[SessionOf[t]][i] = t
                      /\ Len(saved[SessionOf[t]]) - i <= ContextTurns
                           => Holds(turns[SessionOf[t]], t)
  BY DEF TurnsAreKept
<1> DEFINE s == SessionOf[t]
<1>1. s \in Sessions
  BY Constants
<1>2. /\ turns[s] \in File /\ saved[s] \in File
      /\ Recent(turns[s], saved[s]) /\ Holds(saved[s], t)
  BY <1>1 DEF TypeOK, Queues, CompletedAreSaved
<1>3. PICK i \in DOMAIN saved[s] : saved[s][i] = t
  BY <1>2 DEF Holds
<1>4. QED
  BY <1>2, <1>3, RecentHolds

\* A completed turn stays in the file of its context until ContextTurns further
\* ones have been saved behind it: asks that overlap overwrite none.
THEOREM CompletedTurnsStay == Spec => []TurnsAreKept
<1>1. Inv => TurnsAreKept
  BY SavedTurnsAreKept DEF Inv
<1>2. QED
  BY <1>1, Invariance, PTL

LEMMA ToldIsOnRecord == TypeOK /\ Owners /\ Records => AnswersAgree
<1> SUFFICES ASSUME TypeOK, Owners, Records, NEW t \in Ids, told[t] # None
             PROVE  \/ Answer(t) \in {told[t], None}
                    \/ told[t] = "FAILED" /\ row[t] \in Unfinished
  BY DEF AnswersAgree
<1>1. pc[t] \in {"publishing", "gone"} /\ Agrees(t, told[t])
  BY DEF Records, RecordOf
<1>2. Answer(t) = row[t]
  BY <1>1 DEF Answer, Owners, Worker, Executing, Recording
<1>3. QED
  BY <1>1, <1>2 DEF Agrees

\* A final answer stays the answer, also across a restart of the service.
THEOREM AnswersLast == Spec => []AnswersAgree
<1>1. Inv => AnswersAgree
  BY ToldIsOnRecord DEF Inv
<1>2. QED
  BY <1>1, Invariance, PTL

\* The record of a task at work is there and says so.
THEOREM WorkIsRecorded == Spec => []WorkIsOnRecord
<1>1. Inv => WorkIsOnRecord
  BY DEF Inv, WorkIsOnRecord, Records, RecordOf, Owners, TypeOK
<1>2. QED
  BY <1>1, Invariance, PTL

\* Records that are final are only written once.
LEMMA FinalStep ==
  Inv /\ [Next]_vars => \A t \in Ids : row[t] \in Final => row'[t] \in {row[t], None}
<1> SUFFICES ASSUME Inv, [Next]_vars, NEW u \in Ids, row[u] \in Final
             PROVE  row'[u] \in {row[u], None}
  OBVIOUS
<1> USE DEF Inv
<1>1. Unfinished \intersect Final = {} /\ Unfinished \subseteq Status /\ Final \subseteq Status
  BY DEF Unfinished, Final, Submitted, Working, Status
<1>2. ASSUME NEW t \in Ids, NEW s \in Status, Put(t, s) \/ PutFails, row[t] \notin Final
      PROVE  row'[u] \in {row[u], None}
  BY <1>2, PutWrites DEF Unchanged, Pruned, PutFails
<1>3. ASSUME NEW t \in Ids, Store(t) PROVE row'[u] \in {row[u], None}
  <2>1. row[t] \notin Final
    BY <1>3 DEF Store, Records, RecordOf, Submitting
  <2>2. Submitted \in Status /\ (Put(t, Submitted) \/ PutFails)
    BY <1>1, <1>3 DEF Store, Unfinished
  <2>3. QED
    BY <1>2, <2>1, <2>2
<1>4. ASSUME NEW t \in Ids, Start(t) PROVE row'[u] \in {row[u], None}
  BY <1>1, <1>2, <1>4 DEF Start, Records, RecordOf, Worker, Unfinished
<1>5. ASSUME NEW t \in Ids, Save(t) \/ Resave(t) PROVE row'[u] \in {row[u], None}
  <2>1. row[t] \notin Final /\ status[t] \in Status
    BY <1>1, <1>5 DEF Save, Resave, Records, RecordOf, Worker, Recording, TypeOK
  <2>2. QED
    BY <1>2, <1>5, <2>1 DEF Save, Resave
<1>6. CASE Open
  BY <1>1, <1>6 DEF Open
<1>7. CASE UNCHANGED row
  BY <1>7
<1>8. QED
  <2>1. CASE UNCHANGED vars
    BY <1>7, <2>1 DEF vars, disk
  <2>2. ASSUME NEW t \in Ids, Admit(t) PROVE row'[u] \in {row[u], None}
    BY <1>3, <1>7, <2>2 DEF Admit, Submit, Lock, Resume, Drop, disk
  <2>3. ASSUME NEW t \in Ids, Work(t) PROVE row'[u] \in {row[u], None}
    BY <1>4, <1>5, <1>7, <2>3 DEF Work, Check, GiveUp, Acquire, Ask, Call, Leave, Publish, disk
  <2>4. ASSUME NEW t \in Ids, Cancel(t) \/ Learn(t) PROVE row'[u] \in {row[u], None}
    BY <1>7, <2>4 DEF Cancel, Learn, disk
  <2>5. CASE Die \/ Stop \/ CancelAll \/ Drained
    BY <1>7, <2>5 DEF Die, Stop, CancelAll, Drained, disk
  <2>6. QED
    BY <1>6, <2>1, <2>2, <2>3, <2>4, <2>5 DEF Next

\* A final record never changes again, a restart included.
THEOREM RecordsSettle == Spec => FinalIsFinal
BY Invariance, FinalStep, PTL DEF Spec, FinalIsFinal

----------------------------------------------------------------------------
(* Permits *)

LEMMA HoldersFinite ==
  IsFiniteSet(Holders) /\ Cardinality(Holders) \in Nat
BY Constants, FS_Subset, FS_CardinalityType DEF Holders

\* The step of one task moves the permit of that task only.
LEMMA PermitMoves ==
  ASSUME TypeOK, Permits, NEW t \in Ids,
         \A u \in Ids \ {t} : pc'[u] = pc[u],
         \/ (t \in Holders <=> t \in Holders') /\ permits' = permits
         \/ t \notin Holders /\ t \in Holders' /\ permits' = permits - 1
         \/ t \in Holders /\ t \notin Holders' /\ permits' = permits + 1
  PROVE  Permits'
<1>1. Cardinality(Holders) \in Nat /\ IsFiniteSet(Holders) /\ permits \in Nat
  BY HoldersFinite DEF TypeOK
<1>2. CASE (t \in Holders <=> t \in Holders') /\ permits' = permits
  <2>1. Holders' = Holders
    BY <1>2 DEF Holders
  <2>2. QED
    BY <1>2, <2>1 DEF Permits
<1>3. CASE t \notin Holders /\ t \in Holders' /\ permits' = permits - 1
  <2>1. Holders' = Holders \union {t}
    BY <1>3 DEF Holders
  <2>2. Cardinality(Holders') = Cardinality(Holders) + 1
    BY <1>1, <1>3, <2>1, FS_AddElement
  <2>3. QED
    BY <1>1, <1>3, <2>2, Constants DEF Permits
<1>4. CASE t \in Holders /\ t \notin Holders' /\ permits' = permits + 1
  <2>1. Holders' = Holders \ {t}
    BY <1>4 DEF Holders
  <2>2. Cardinality(Holders') = Cardinality(Holders) - 1
    BY <1>1, <1>4, <2>1, FS_RemoveElement
  <2>3. QED
    BY <1>1, <1>4, <2>2, Constants DEF Permits
<1>5. QED
  BY <1>2, <1>3, <1>4

LEMMA PermitsInit == Init => Permits
<1> SUFFICES ASSUME Init PROVE Permits
  OBVIOUS
<1>1. Holders = {}
  BY DEF Init, Holders, Submitting, Worker, Executing, Recording
<1>2. QED
  BY <1>1, FS_EmptySet, Constants DEF Init, Permits

LEMMA PermitsStep == TypeOK /\ Owners /\ Permits /\ [Next]_vars => Permits'
<1> SUFFICES ASSUME TypeOK, Owners, Permits, [Next]_vars PROVE Permits'
  OBVIOUS
<1> USE DEF admission, Submitting, Worker, Executing, Recording
<1>1. CASE UNCHANGED <<pc, permits>>
  BY <1>1 DEF Permits, Holders
<1>2. ASSUME NEW t \in Ids, Submit(t) PROVE Permits'
  <2>1. t \notin Holders /\ t \in Holders' /\ \A u \in Ids \ {t} : pc'[u] = pc[u]
    BY <1>2 DEF Submit, Goto, TypeOK, Holders
  <2>2. QED
    BY <1>2, <2>1, PermitMoves DEF Submit
<1>3. ASSUME NEW t \in Ids, Lock(t) \/ Resume(t) PROVE Permits'
  <2>1. t \in Holders /\ \A u \in Ids \ {t} : pc'[u] = pc[u]
    BY <1>3 DEF Lock, Resume, Goto, TypeOK, Holders
  <2>2. \/ t \in Holders' /\ permits' = permits
        \/ t \notin Holders' /\ permits' = permits + 1
    BY <1>3 DEF Lock, Resume, Goto, TypeOK, Holders
  <2>3. QED
    BY <2>1, <2>2, PermitMoves
<1>4. ASSUME NEW t \in Ids, Drop(t) \/ Leave(t) PROVE Permits'
  <2>1. /\ t \in Holders /\ t \notin Holders' /\ permits' = permits + 1
        /\ \A u \in Ids \ {t} : pc'[u] = pc[u]
    BY <1>4 DEF Drop, Leave, Goto, TypeOK, Holders
  <2>2. QED
    BY <2>1, PermitMoves
<1>5. ASSUME NEW t \in Ids, Store(t) PROVE Permits'
  <2>1. /\ (t \in Holders <=> t \in Holders')
        /\ permits' = permits
        /\ \A u \in Ids \ {t} : pc'[u] = pc[u]
    BY <1>5 DEF Store, Goto, TypeOK, Holders
  <2>2. QED
    BY <2>1, PermitMoves
<1>6. ASSUME NEW t \in Ids, Work(t), ~ Leave(t) PROVE Permits'
  <2>1. /\ (t \in Holders <=> t \in Holders')
        /\ permits' = permits
        /\ \A u \in Ids \ {t} : pc'[u] = pc[u]
    BY <1>6 DEF Work, Start, Check, GiveUp, Acquire, Ask, Call, Save, Resave, Publish,
                Settle, Goto, TypeOK, Holders
  <2>2. QED
    BY <2>1, PermitMoves
<1>7. CASE Die
  <2>1. Holders' = {} /\ permits' = Capacity
    BY <1>7 DEF Die, Volatile, Holders
  <2>2. QED
    BY <2>1, FS_EmptySet, Constants DEF Permits
<1>8. QED
  <2>1. CASE UNCHANGED vars
    BY <1>1, <2>1 DEF vars
  <2>2. ASSUME NEW t \in Ids, Admit(t) \/ Work(t) PROVE Permits'
    BY <1>2, <1>3, <1>4, <1>5, <1>6, <2>2 DEF Admit
  <2>3. ASSUME NEW t \in Ids, Cancel(t) \/ Learn(t) PROVE Permits'
    BY <1>1, <2>3 DEF Cancel, Learn
  <2>4. CASE Open \/ Stop \/ CancelAll \/ Drained
    BY <1>1, <2>4 DEF Open, Stop, CancelAll, Drained
  <2>5. QED
    BY <1>7, <2>1, <2>2, <2>3, <2>4 DEF Next

LEMMA HoldersAreCounted == TypeOK /\ Owners /\ Permits => AtMostCapacity
<1> SUFFICES ASSUME TypeOK, Owners, Permits PROVE AtMostCapacity
  OBVIOUS
<1>1. Holders = active \union {t \in Ids : pc[t] \in Submitting \union Worker}
  BY DEF Holders, Owners, TypeOK
<1>2. Cardinality(Holders) <= Capacity
  BY HoldersFinite, Constants DEF Permits, TypeOK
<1>3. QED
  BY <1>1, <1>2 DEF AtMostCapacity

\* Disconnects, failed writes and cancellations neither leak nor duplicate a
\* permit: never more than `capacity` tasks are admitted.
THEOREM CapacityHolds == Spec => []AtMostCapacity
<1>1. Init => Permits
  BY PermitsInit
<1>2. Inv /\ Permits /\ [Next]_vars => Permits'
  BY PermitsStep DEF Inv
<1>3. Inv /\ Permits => AtMostCapacity
  BY HoldersAreCounted DEF Inv
<1>4. QED
  BY <1>1, <1>2, <1>3, Invariance, PTL DEF Spec
=============================================================================
