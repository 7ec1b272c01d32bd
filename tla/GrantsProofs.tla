---------------------------- MODULE GrantsProofs ----------------------------
(***************************************************************************)
(* The grant store of src/security/grants.rs implements the abstract       *)
(* budget, for every number of processes, grants and uses and every        *)
(* sequence of configuration edits.                                        *)
(*                                                                         *)
(* What was read under the lock is what the file holds (ReadsAreFresh), so *)
(* every step is one of the abstract budget's, which keeps what is left    *)
(* and what was used of a grant in balance (BudgetInv).  A grant that is   *)
(* used up or revoked stays so (GoneStays), so the templates a worker has  *)
(* passed are still of no use when it gives up (Tried).                    *)
(***************************************************************************)
EXTENDS Grants, TLAPS

\* What is assumed of the constants, in the form the proofs cite.
LEMMA Constants ==
  /\ MaxUses \in Nat \ {0} /\ NumGrants \in Nat \ {0} /\ MaxEdits \in Nat
  /\ Unlimited \notin Nat /\ Free \notin Workers
  /\ Absent \notin Usage /\ Absent \notin Template /\ Absent \notin Config /\ Absent \notin State
  /\ Revocation \notin Request /\ Configs \subseteq Config /\ Requests \subseteq Request
BY GrantsAssumption

\* A charge is a usage the file can record.
LEMMA ChargeType ==
  ASSUME TypeOK, ReadsAreFresh, NEW w \in Workers, pc[w] = "deciding", ~ IsRevoker(w)
  PROVE  /\ cursor[w] \in GrantIds
         /\ view[w].grants[cursor[w]].uses \in Budget
         /\ Charge(w) \in Usage
<1>1. cursor[w] \in GrantIds /\ view[w] \in Config /\ view[w].grants[cursor[w]] # Absent
  BY DEF ReadsAreFresh, ReadIsFresh, TypeOK, Locked
<1>2. view[w].grants[cursor[w]] \in Template
  BY <1>1 DEF Config
<1>3. view[w].grants[cursor[w]].uses \in Budget
  BY <1>2 DEF Template
<1> DEFINE usage == state[cursor[w]]
           saved == IF usage = Absent THEN Unlimited ELSE usage.left
           r == Abstract!RemainingBudget(view[w].grants[cursor[w]].uses, saved)
<1>4. saved \in Remaining
  <2>1. usage \in Usage \union {Absent}
    BY <1>1 DEF TypeOK, State
  <2>2. QED
    BY <2>1 DEF Usage, Remaining
<1>5. copy[w] = state /\ r # 0
  BY DEF ReadsAreFresh, ReadIsFresh, RemainingBudget
<1>6. r \in Remaining
  BY <1>3, <1>4, Constants DEF Abstract!RemainingBudget, Budget, Remaining
<1>7. Abstract!AfterUse(r) \in Remaining
  BY <1>5, <1>6, Constants DEF Abstract!AfterUse, Remaining
<1>8. Charge(w) = [left |-> Abstract!AfterUse(r), revoked |-> FALSE]
  BY <1>5 DEF Charge, RemainingBudget
<1>9. QED
  BY <1>1, <1>3, <1>7, <1>8 DEF Usage

\* Returning drops a worker's locals and nothing else.
LEMMA AnswerType ==
  ASSUME TypeOK, NEW w \in Workers, NEW outcome \in Answered, Answer(w, outcome)
  PROVE  /\ lock' \in Workers \union {Free}
         /\ pc' \in [Workers -> PC]
         /\ job' \in [Workers -> Requests \union {Revocation}]
         /\ view' \in [Workers -> Config \union {Absent}]
         /\ cursor' \in [Workers -> 1 .. NumGrants + 1]
         /\ copy' \in [Workers -> State \union {Absent}]
BY Constants DEF Answer, Goto, Unlock, TypeOK, PC

\* Types and the freshness of what was read are preserved together: the type of
\* the state file depends on what a worker read before it writes.
LEMMA TypeStep == TypeOK /\ ReadsAreFresh /\ [Next]_vars => TypeOK'
<1> SUFFICES ASSUME TypeOK, ReadsAreFresh, [Next]_vars PROVE TypeOK'
  OBVIOUS
<1>1. ASSUME NEW w \in Workers, NEW request \in Requests, Present(w, request)
      PROVE  TypeOK'
  BY <1>1 DEF Present, Goto, TypeOK, PC
<1>2. ASSUME NEW w \in Workers, NEW request \in Requests, PresentExcluded(w, request)
      PROVE  TypeOK'
  BY <1>2, AnswerType DEF PresentExcluded, TypeOK, Answered
<1>3. ASSUME NEW w \in Workers, NEW g \in GrantIds, RequestRevocation(w, g)
      PROVE  TypeOK'
  BY <1>3, Constants DEF RequestRevocation, Goto, TypeOK, PC, GrantIds
<1>4. ASSUME NEW w \in Workers, LoadTemplates(w) PROVE TypeOK'
  BY <1>4 DEF LoadTemplates, Goto, TypeOK, PC
<1>5. ASSUME NEW w \in Workers, Match(w) PROVE TypeOK'
  <2>1. cursor[w] \in GrantIds /\ cursor[w] + 1 \in 1 .. NumGrants + 1
    BY <1>5, Constants DEF Match, TypeOK, GrantIds
  <2>2. QED
    BY <1>5, <2>1 DEF Match, Goto, TypeOK, PC
<1>6. ASSUME NEW w \in Workers, NoneMatched(w) PROVE TypeOK'
  BY <1>6, AnswerType DEF NoneMatched, TypeOK, Answered
<1>7. ASSUME NEW w \in Workers, AcquireLock(w) PROVE TypeOK'
  BY <1>7 DEF AcquireLock, Goto, TypeOK, PC, Locked
<1>8. ASSUME NEW w \in Workers, LockTimeout(w) PROVE TypeOK'
  BY <1>8, AnswerType DEF LockTimeout, TypeOK, Answered
<1>9. ASSUME NEW w \in Workers, ReadState(w) PROVE TypeOK'
  <2>1. cursor[w] \in GrantIds /\ cursor[w] + 1 \in 1 .. NumGrants + 1
    BY <1>9, Constants DEF ReadState, ReadsAreFresh, ReadIsFresh, Locked, GrantIds
  <2>2. QED
    BY <1>9, <2>1 DEF ReadState, Goto, Unlock, TypeOK, PC, Locked
<1>10. ASSUME NEW w \in Workers, PersistUse(w) PROVE TypeOK'
  <2>1. /\ cursor[w] \in GrantIds /\ Charge(w) \in Usage
        /\ view[w].grants[cursor[w]].uses \in Budget /\ copy[w] = state
    BY <1>10, ChargeType DEF PersistUse, ReadsAreFresh, ReadIsFresh
  <2>2. state' \in State
    BY <1>10, <2>1 DEF PersistUse, TypeOK, State
  <2>3. spent[cursor[w]] \in [1 .. MaxUses -> Nat]
    BY <2>1 DEF TypeOK
  <2>4. Abstract!CountUse(spent[cursor[w]], view[w].grants[cursor[w]].uses)
          \in [1 .. MaxUses -> Nat]
    <3>1. \A b \in 1 .. MaxUses : spent[cursor[w]][b] \in Nat
      BY <2>3
    <3>2. QED
      BY <3>1 DEF Abstract!CountUse
  <2>5. spent' \in [GrantIds -> [1 .. MaxUses -> Nat]]
    BY <1>10, <2>1, <2>4 DEF PersistUse, TypeOK
  <2>6. QED
    BY <1>10, <2>2, <2>5 DEF PersistUse, Goto, TypeOK, PC, Locked
<1>11. ASSUME NEW w \in Workers, PersistRevocation(w) PROVE TypeOK'
  <2>1. cursor[w] \in GrantIds /\ copy[w] = state
    BY <1>11 DEF PersistRevocation, ReadsAreFresh, ReadIsFresh, Locked
  <2>2. [left |-> 0, revoked |-> TRUE] \in Usage
    BY Constants DEF Usage, Remaining
  <2>3. state' \in State
    BY <1>11, <2>1, <2>2 DEF PersistRevocation, TypeOK, State
  <2>4. QED
    BY <1>11, <2>3 DEF PersistRevocation, Goto, TypeOK, PC, Locked
<1>12. ASSUME NEW w \in Workers, Finish(w) PROVE TypeOK'
  BY <1>12, AnswerType DEF Finish, TypeOK, Answered
<1>13. ASSUME NEW w \in Workers, Abort(w) PROVE TypeOK'
  BY <1>13, AnswerType DEF Abort, TypeOK, Answered
<1>14. CASE EditConfig
  BY <1>14, Constants DEF EditConfig, TypeOK
<1>15. CASE SetClock
  BY <1>15 DEF SetClock, TypeOK
<1>16. CASE UNCHANGED vars
  BY <1>16 DEF vars, TypeOK
<1>17. QED
  BY <1>1, <1>2, <1>3, <1>4, <1>5, <1>6, <1>7, <1>8, <1>9, <1>10, <1>11, <1>12,
     <1>13, <1>14, <1>15, <1>16 DEF Next, Step

\* A worker that took no part in a step keeps a fresh read, unless the step
\* wrote the file while the worker was about to.
LEMMA Bystander ==
  ASSUME NEW v \in Workers, ReadIsFresh(v),
         UNCHANGED <<pc[v], job[v], view[v], cursor[v], copy[v]>>,
         lock' = v <=> lock = v,
         state' = state \/ pc[v] # "deciding"
  PROVE  ReadIsFresh(v)'
<1>1. CASE state' = state
  BY <1>1 DEF ReadIsFresh, IsRevoker, RemainingBudget, Abstract!RemainingBudget
<1>2. CASE pc[v] # "deciding"
  BY <1>2 DEF ReadIsFresh, IsRevoker
<1>3. QED
  BY <1>1, <1>2

\* A worker that returned holds nothing.
LEMMA AnsweredIsFresh ==
  ASSUME TypeOK, ReadsAreFresh, NEW w \in Workers, NEW outcome \in Answered,
         Answer(w, outcome), state' = state
  PROVE  ReadsAreFresh'
<1>1. ReadIsFresh(w)'
  BY Constants DEF Answer, Goto, Unlock, ReadIsFresh, TypeOK, Answered, Locked
<1>2. ASSUME NEW v \in Workers, v # w PROVE ReadIsFresh(v)'
  <2>1. UNCHANGED <<pc[v], job[v], view[v], cursor[v], copy[v]>>
    BY <1>2 DEF Answer, Goto, TypeOK
  <2>2. lock' = v <=> lock = v
    BY <1>2, Constants DEF Answer, Unlock
  <2>3. QED
    BY <2>1, <2>2, Bystander DEF ReadsAreFresh
<1>3. QED
  BY <1>1, <1>2 DEF ReadsAreFresh

\* A step of w that moves only w and its own locals, and does not write the
\* file, concerns w alone.
LEMMA OwnStep ==
  ASSUME TypeOK, ReadsAreFresh, NEW w \in Workers, ReadIsFresh(w)',
         \A v \in Workers \ {w} :
           /\ UNCHANGED <<pc[v], job[v], view[v], cursor[v], copy[v]>>
           /\ lock' = v <=> lock = v
           /\ state' = state \/ pc[v] # "deciding"
  PROVE  ReadsAreFresh'
BY Bystander DEF ReadsAreFresh

LEMMA FreshStep == TypeOK /\ ReadsAreFresh /\ [Next]_vars => ReadsAreFresh'
<1> SUFFICES ASSUME TypeOK, ReadsAreFresh, [Next]_vars PROVE ReadsAreFresh'
  OBVIOUS
<1>1. ASSUME NEW w \in Workers, NEW request \in Requests, Present(w, request)
      PROVE  ReadsAreFresh'
  <2>1. ReadIsFresh(w)'
    BY <1>1, Constants
    DEF Present, Goto, ReadsAreFresh, ReadIsFresh, TypeOK, Answered, Locked, IsRevoker
  <2>2. QED
    BY <1>1, <2>1, OwnStep DEF Present, Goto, TypeOK
<1>2. ASSUME NEW w \in Workers, NEW request \in Requests, PresentExcluded(w, request)
      PROVE  ReadsAreFresh'
  BY <1>2, AnsweredIsFresh DEF PresentExcluded, Answered
<1>3. ASSUME NEW w \in Workers, NEW g \in GrantIds, RequestRevocation(w, g)
      PROVE  ReadsAreFresh'
  <2>1. ReadIsFresh(w)'
    BY <1>3, Constants
    DEF RequestRevocation, Goto, ReadsAreFresh, ReadIsFresh, TypeOK, Answered, Locked, IsRevoker
  <2>2. QED
    BY <1>3, <2>1, OwnStep DEF RequestRevocation, Goto, TypeOK
<1>4. ASSUME NEW w \in Workers, LoadTemplates(w) PROVE ReadsAreFresh'
  <2>1. ReadIsFresh(w)'
    BY <1>4, Constants
    DEF LoadTemplates, Goto, ReadsAreFresh, ReadIsFresh, TypeOK, Locked, IsRevoker
  <2>2. QED
    BY <1>4, <2>1, OwnStep DEF LoadTemplates, Goto, TypeOK
<1>5. ASSUME NEW w \in Workers, Match(w) PROVE ReadsAreFresh'
  <2>1. ReadIsFresh(w)'
    <3>1. cursor[w] \in GrantIds
      BY <1>5, Constants DEF Match, TypeOK, GrantIds
    <3>2. QED
      BY <1>5, <3>1
      DEF Match, Evaluate, Goto, ReadsAreFresh, ReadIsFresh, TypeOK, Locked, IsRevoker
  <2>2. QED
    BY <1>5, <2>1, OwnStep DEF Match, Goto, TypeOK
<1>6. ASSUME NEW w \in Workers, NoneMatched(w) PROVE ReadsAreFresh'
  BY <1>6, AnsweredIsFresh DEF NoneMatched, Answered
<1>7. ASSUME NEW w \in Workers, AcquireLock(w) PROVE ReadsAreFresh'
  <2>1. ReadIsFresh(w)'
    BY <1>7 DEF AcquireLock, Goto, ReadsAreFresh, ReadIsFresh, TypeOK, Locked, IsRevoker
  <2>2. QED
    BY <1>7, <2>1, OwnStep, Constants DEF AcquireLock, Goto, TypeOK
<1>8. ASSUME NEW w \in Workers, LockTimeout(w) PROVE ReadsAreFresh'
  BY <1>8, AnsweredIsFresh DEF LockTimeout, Answered
<1>9. ASSUME NEW w \in Workers, ReadState(w) PROVE ReadsAreFresh'
  <2>1. ReadIsFresh(w)'
    <3>1. ReadIsFresh(w) /\ lock = w
      BY <1>9 DEF ReadsAreFresh, ReadIsFresh, ReadState, Locked
    <3>2. CASE pc'[w] = "deciding"
      BY <1>9, <3>1, <3>2
      DEF ReadState, Goto, Unlock, ReadIsFresh, TypeOK, Locked, IsRevoker, RemainingBudget,
          Abstract!RemainingBudget
    <3>3. CASE pc'[w] # "deciding"
      BY <1>9, <3>1, <3>3, Constants
      DEF ReadState, Goto, Unlock, ReadIsFresh, TypeOK, Locked, IsRevoker
    <3>4. QED
      BY <3>2, <3>3
  <2>2. ASSUME NEW v \in Workers \ {w}
        PROVE  /\ UNCHANGED <<pc[v], job[v], view[v], cursor[v], copy[v]>>
               /\ lock' = v <=> lock = v
    BY <1>9, Constants DEF ReadState, Goto, Unlock, TypeOK, ReadsAreFresh, ReadIsFresh, Locked
  <2>3. state' = state
    BY <1>9 DEF ReadState
  <2>4. QED
    BY <2>1, <2>2, <2>3, OwnStep
<1>10. ASSUME NEW w \in Workers, PersistUse(w) \/ PersistRevocation(w)
       PROVE  ReadsAreFresh'
  <2>1. ReadIsFresh(w) /\ pc[w] = "deciding" /\ lock = w
    BY <1>10 DEF ReadsAreFresh, ReadIsFresh, PersistUse, PersistRevocation, Locked
  <2>2. ReadIsFresh(w)'
    BY <1>10, <2>1
    DEF PersistUse, PersistRevocation, Goto, ReadIsFresh, TypeOK, Locked, IsRevoker
  <2>3. ASSUME NEW v \in Workers \ {w}
        PROVE  /\ UNCHANGED <<pc[v], job[v], view[v], cursor[v], copy[v]>>
               /\ lock' = v <=> lock = v
               /\ pc[v] # "deciding"
    BY <1>10, <2>1
    DEF PersistUse, PersistRevocation, Goto, TypeOK, ReadsAreFresh, ReadIsFresh, Locked
  <2>4. QED
    BY <2>2, <2>3, OwnStep
<1>11. ASSUME NEW w \in Workers, Finish(w) PROVE ReadsAreFresh'
  BY <1>11, AnsweredIsFresh DEF Finish, Answered
<1>12. ASSUME NEW w \in Workers, Abort(w) PROVE ReadsAreFresh'
  BY <1>12, AnsweredIsFresh DEF Abort, Answered
<1>13. ASSUME UNCHANGED <<state, lock, pc, job, view, cursor, copy>> PROVE ReadsAreFresh'
  BY <1>13, Bystander DEF ReadsAreFresh
<1>14. QED
  BY <1>1, <1>2, <1>3, <1>4, <1>5, <1>6, <1>7, <1>8, <1>9, <1>10, <1>11, <1>12, <1>13
  DEF Next, Step, EditConfig, SetClock, vars

\* Every variable keeps its type, and whatever a process read under the lock is
\* still what the file holds when it writes (GrantStore::consume, revoke).
THEOREM ReadsStayFresh == Spec => [](TypeOK /\ ReadsAreFresh)
<1>1. Init => TypeOK
  BY Constants DEF Init, TypeOK, State, PC, Answered, GrantIds
<1>2. Init => ReadsAreFresh
  <2>1. Free \notin Workers
    BY Constants
  <2>2. ASSUME Init, NEW w \in Workers PROVE ReadIsFresh(w)
    <3>1. pc[w] = "refused" /\ lock # w
      BY <2>1, <2>2 DEF Init
    <3>2. QED
      BY <3>1 DEF ReadIsFresh, Locked
  <2>3. QED
    BY <2>2 DEF ReadsAreFresh
<1>3. QED
  BY <1>1, <1>2, TypeStep, FreshStep, PTL DEF Spec

\* Every step of every process is a use, a revocation or invisible to the budget.
LEMMA BudgetStep ==
  TypeOK /\ ReadsAreFresh /\ [Next]_vars => [Abstract!Next]_Abstract!gvars
<1> SUFFICES ASSUME TypeOK, ReadsAreFresh, [Next]_vars
             PROVE  [Abstract!Next]_Abstract!gvars
  OBVIOUS
<1>1. ASSUME NEW w \in Workers, PersistUse(w) PROVE Abstract!Next
  <2>1. /\ cursor[w] \in GrantIds /\ Charge(w) \in Usage
        /\ view[w].grants[cursor[w]].uses \in Budget
        /\ copy[w] = state
    BY <1>1, ChargeType DEF PersistUse, ReadsAreFresh, ReadIsFresh
  <2>2. PICK g \in GrantIds, base \in Budget :
          g = cursor[w] /\ base = view[w].grants[cursor[w]].uses
    BY <2>1
  <2> DEFINE saved == IF state[g] = Absent THEN Unlimited ELSE state[g].left
  <2>3. /\ state[g] # Absent => ~ state[g].revoked
        /\ Abstract!RemainingBudget(base, saved) # 0
    BY <1>1, <2>2 DEF PersistUse, ReadsAreFresh, ReadIsFresh, RemainingBudget
  <2>4. Charge(w) = [left |-> Abstract!AfterUse(Abstract!RemainingBudget(base, saved)),
                     revoked |-> FALSE]
    BY <2>1, <2>2 DEF Charge, RemainingBudget
  <2>5. /\ state' = [state EXCEPT ![g] = Charge(w)]
        /\ spent' = [spent EXCEPT ![g] = Abstract!CountUse(@, base)]
        /\ Charge(w) # Absent
    BY <1>1, <2>1, <2>2, Constants DEF PersistUse
  <2>6. state \in [GrantIds -> Usage \union {Absent}]
    BY DEF TypeOK, State
  <2>7. Abstract!Use(g, base)
    <3> DEFINE left == [h \in GrantIds |-> IF state[h] = Absent THEN Unlimited ELSE state[h].left]
               revoked == [h \in GrantIds |-> IF state[h] = Absent THEN FALSE ELSE state[h].revoked]
               r == Abstract!RemainingBudget(base, saved)
    <3>1. left[g] = saved /\ ~ revoked[g]
      BY <2>2, <2>3
    <3>2. /\ state'[g] # Absent
          /\ state'[g].left = Abstract!AfterUse(r)
          /\ state'[g].revoked = FALSE
      BY <2>4, <2>5, <2>6
    <3>3. \A h \in GrantIds \ {g} : state'[h] = state[h]
      BY <2>5, <2>6
    <3>4. left' = [left EXCEPT ![g] = Abstract!AfterUse(r)]
      BY <3>2, <3>3
    <3>5. revoked[g] = FALSE
      BY <2>1, <2>2, <2>3, <2>6 DEF Usage
    <3>6. revoked' = revoked
      BY <3>2, <3>3, <3>5
    <3>7. QED
      BY <2>3, <2>5, <3>1, <3>4, <3>6 DEF Abstract!Use
  <2>8. base \in Abstract!Budget
    BY DEF Abstract!Budget, Budget
  <2>9. QED
    BY <2>7, <2>8 DEF Abstract!Next
<1>2. ASSUME NEW w \in Workers, PersistRevocation(w) PROVE Abstract!Next
  <2> DEFINE disabled == [left |-> 0, revoked |-> TRUE]
  <2>1. cursor[w] \in GrantIds /\ copy[w] = state
    BY <1>2 DEF PersistRevocation, ReadsAreFresh, ReadIsFresh, Locked
  <2>2. PICK g \in GrantIds : g = cursor[w]
    BY <2>1
  <2>3. state \in [GrantIds -> Usage \union {Absent}]
    BY DEF TypeOK, State
  <2>4. disabled \in Usage
    BY Constants DEF Usage, Remaining
  <2>5. state' = [state EXCEPT ![g] = disabled] /\ UNCHANGED spent
    BY <1>2, <2>1, <2>2 DEF PersistRevocation
  <2>6. disabled # Absent
    BY <2>4, Constants
  <2>7. Abstract!Revoke(g)
    BY <2>3, <2>5, <2>6 DEF Abstract!Revoke
  <2>8. QED
    BY <2>7 DEF Abstract!Next
<1>3. ASSUME UNCHANGED <<state, spent>> PROVE UNCHANGED Abstract!gvars
  BY <1>3 DEF Abstract!gvars
<1>4. QED
  BY <1>1, <1>2, <1>3
  DEF Next, Step, Present, PresentExcluded, RequestRevocation, LoadTemplates, Match,
      NoneMatched, AcquireLock, LockTimeout, ReadState, Finish, Abort, EditConfig, SetClock, vars

\* The lock-file protocol implements the atomic budget.
THEOREM Refinement == Spec => ImplementsBudget
<1>1. Init => Abstract!Init
  BY DEF Init, Abstract!Init
<1>2. QED
  BY <1>1, BudgetStep, ReadsStayFresh, PTL DEF Spec, ImplementsBudget, Abstract!Spec

----------------------------------------------------------------------------
(* The abstract budget *)

\* A grant of which a use was charged to budget b has no more than the rest of b
\* left: the two together never exceed b.
Balanced(left, counts) ==
  \A b \in 1 .. MaxUses : counts[b] > 0 => left # Unlimited /\ left + counts[b] <= b

\* The tighter budget is one of the two, and no larger than either.
LEMMA RemainingBudgetType ==
  ASSUME NEW base \in Budget, NEW saved \in Remaining
  PROVE  /\ Abstract!RemainingBudget(base, saved) \in Remaining
         /\ base # Unlimited => /\ Abstract!RemainingBudget(base, saved) # Unlimited
                                /\ Abstract!RemainingBudget(base, saved) <= base
         /\ saved # Unlimited => /\ Abstract!RemainingBudget(base, saved) # Unlimited
                                 /\ Abstract!RemainingBudget(base, saved) <= saved
         /\ Abstract!RemainingBudget(base, saved) = 0 <=> saved = 0
BY Constants DEF Abstract!RemainingBudget, Budget, Remaining

\* A use leaves one less, and an unlimited remainder unlimited.
LEMMA AfterUseType ==
  ASSUME NEW remaining \in Remaining, remaining # 0
  PROVE  /\ Abstract!AfterUse(remaining) \in Remaining
         /\ Abstract!AfterUse(remaining) = Unlimited <=> remaining = Unlimited
         /\ remaining # Unlimited => Abstract!AfterUse(remaining) = remaining - 1
BY Constants DEF Abstract!AfterUse, Remaining

\* A use is counted in every budget it was taken under.
LEMMA CountUseType ==
  ASSUME NEW counts \in [1 .. MaxUses -> Nat], NEW base
  PROVE  Abstract!CountUse(counts, base) \in [1 .. MaxUses -> Nat]
<1>1. \A b \in 1 .. MaxUses : counts[b] \in Nat
  OBVIOUS
<1>2. QED
  BY <1>1 DEF Abstract!CountUse

\* A use keeps the balance, under whatever template it is taken.
LEMMA UseBalanced ==
  ASSUME NEW left \in Remaining, NEW counts \in [1 .. MaxUses -> Nat], NEW base \in Budget,
         Abstract!RemainingBudget(base, left) # 0, Balanced(left, counts)
  PROVE  Balanced(Abstract!AfterUse(Abstract!RemainingBudget(base, left)),
                  Abstract!CountUse(counts, base))
<1> DEFINE r == Abstract!RemainingBudget(base, left)
           next == Abstract!AfterUse(r)
           more == Abstract!CountUse(counts, base)
<1> SUFFICES ASSUME NEW b \in 1 .. MaxUses, more[b] > 0
             PROVE  next # Unlimited /\ next + more[b] <= b
  BY DEF Balanced
<1>1. /\ r \in Remaining
      /\ base # Unlimited => r # Unlimited /\ r <= base
      /\ left # Unlimited => r # Unlimited /\ r <= left
  BY RemainingBudgetType
<1>2. /\ next = Unlimited <=> r = Unlimited
      /\ r # Unlimited => next = r - 1
  BY <1>1, AfterUseType
<1>3. more[b] = IF base # Unlimited /\ base <= b THEN counts[b] + 1 ELSE counts[b]
  BY DEF Abstract!CountUse
<1>4. counts[b] > 0 => left # Unlimited /\ left + counts[b] <= b
  BY DEF Balanced
<1>5. counts[b] \in Nat /\ b \in Nat
  BY Constants
<1> HIDE DEF r, next, more
<1>6. base \in Nat \/ base = Unlimited
  BY Constants DEF Budget
<1>7. (r # Unlimited => r \in Nat) /\ (left # Unlimited => left \in Nat)
  BY <1>1 DEF Remaining
<1>8. CASE counts[b] > 0
  BY <1>1, <1>2, <1>3, <1>4, <1>5, <1>6, <1>7, <1>8
<1>9. CASE counts[b] = 0
  BY <1>1, <1>2, <1>3, <1>5, <1>6, <1>7, <1>9
<1>10. QED
  BY <1>5, <1>8, <1>9

\* What the abstract budget remembers of a grant.
LeftOf(g) == IF state[g] = Absent THEN Unlimited ELSE state[g].left
AbstractLeft == [g \in GrantIds |-> LeftOf(g)]
AbstractRevoked == [g \in GrantIds |-> IF state[g] = Absent THEN FALSE ELSE state[g].revoked]

LEMMA BudgetSteps ==
  /\ Abstract!Init => /\ AbstractLeft = [g \in GrantIds |-> Unlimited]
                      /\ AbstractRevoked = [g \in GrantIds |-> FALSE]
                      /\ spent = [g \in GrantIds |-> [b \in 1 .. MaxUses |-> 0]]
  /\ Abstract!TypeOK <=> /\ AbstractLeft \in [GrantIds -> Remaining]
                         /\ AbstractRevoked \in [GrantIds -> BOOLEAN]
                         /\ spent \in [GrantIds -> [1 .. MaxUses -> Nat]]
  /\ \A g : Abstract!Revoke(g) =>
       /\ AbstractLeft' = [AbstractLeft EXCEPT ![g] = 0]
       /\ AbstractRevoked' = [AbstractRevoked EXCEPT ![g] = TRUE]
       /\ spent' = spent
  /\ \A g, base : Abstract!Use(g, base) =>
       /\ ~ AbstractRevoked[g]
       /\ Abstract!RemainingBudget(base, AbstractLeft[g]) # 0
       /\ AbstractLeft' = [AbstractLeft EXCEPT ![g] =
                              Abstract!AfterUse(Abstract!RemainingBudget(base, AbstractLeft[g]))]
       /\ spent' = [spent EXCEPT ![g] = Abstract!CountUse(@, base)]
       /\ AbstractRevoked' = AbstractRevoked
  /\ UNCHANGED Abstract!gvars =>
       AbstractLeft' = AbstractLeft /\ AbstractRevoked' = AbstractRevoked /\ spent' = spent
BY DEF LeftOf, AbstractLeft, AbstractRevoked, Abstract!Init, Abstract!TypeOK, Abstract!Revoke,
       Abstract!Use, Abstract!gvars, Abstract!Remaining, Remaining

\* The abstract budget keeps its type and its balance.
BudgetInv ==
  /\ AbstractLeft \in [GrantIds -> Remaining]
  /\ AbstractRevoked \in [GrantIds -> BOOLEAN]
  /\ spent \in [GrantIds -> [1 .. MaxUses -> Nat]]
  /\ \A g \in GrantIds : Balanced(AbstractLeft[g], spent[g])

LEMMA BudgetInit == Abstract!Init => BudgetInv
<1> SUFFICES ASSUME Abstract!Init PROVE BudgetInv
  OBVIOUS
<1>1. /\ AbstractLeft = [g \in GrantIds |-> Unlimited]
      /\ AbstractRevoked = [g \in GrantIds |-> FALSE]
      /\ spent = [g \in GrantIds |-> [b \in 1 .. MaxUses |-> 0]]
  BY BudgetSteps
<1>2. ASSUME NEW g \in GrantIds PROVE Balanced(AbstractLeft[g], spent[g])
  BY <1>1 DEF Balanced
<1>3. QED
  BY <1>1, <1>2 DEF BudgetInv, Remaining

LEMMA BudgetNext == BudgetInv /\ [Abstract!Next]_Abstract!gvars => BudgetInv'
<1> SUFFICES ASSUME BudgetInv, [Abstract!Next]_Abstract!gvars PROVE BudgetInv'
  OBVIOUS
<1>1. ASSUME NEW g \in GrantIds, Abstract!Revoke(g) PROVE BudgetInv'
  <2>1. /\ AbstractLeft' = [AbstractLeft EXCEPT ![g] = 0]
        /\ AbstractRevoked' = [AbstractRevoked EXCEPT ![g] = TRUE]
        /\ spent' = spent
    BY <1>1, BudgetSteps
  <2>2. 0 \in Remaining
    BY Constants DEF Remaining
  <2>3. ASSUME NEW h \in GrantIds PROVE Balanced(AbstractLeft'[h], spent'[h])
    <3>1. CASE h # g
      BY <2>1, <3>1 DEF BudgetInv
    <3>2. CASE h = g
      <4> SUFFICES ASSUME NEW b \in 1 .. MaxUses, spent[g][b] > 0
                   PROVE  0 # Unlimited /\ 0 + spent[g][b] <= b
        BY <2>1, <3>2 DEF Balanced, BudgetInv
      <4>1. AbstractLeft[g] # Unlimited /\ AbstractLeft[g] + spent[g][b] <= b
        BY DEF BudgetInv, Balanced
      <4>2. AbstractLeft[g] \in Nat /\ spent[g][b] \in Nat /\ b \in Nat
        BY <4>1, Constants DEF BudgetInv, Remaining
      <4>3. QED
        BY <4>1, <4>2, Constants
    <3>3. QED
      BY <3>1, <3>2
  <2>4. QED
    BY <2>1, <2>2, <2>3 DEF BudgetInv
<1>2. ASSUME NEW g \in GrantIds, NEW base \in Budget, Abstract!Use(g, base) PROVE BudgetInv'
  <2> DEFINE left == AbstractLeft[g]
             next == Abstract!AfterUse(Abstract!RemainingBudget(base, left))
             counts == Abstract!CountUse(spent[g], base)
  <2>1. /\ Abstract!RemainingBudget(base, left) # 0
        /\ AbstractLeft' = [AbstractLeft EXCEPT ![g] = next]
        /\ spent' = [spent EXCEPT ![g] = counts]
        /\ AbstractRevoked' = AbstractRevoked
    BY <1>2, BudgetSteps
  <2>2. left \in Remaining /\ spent[g] \in [1 .. MaxUses -> Nat] /\ Balanced(left, spent[g])
    BY DEF BudgetInv
  <2>3. next \in Remaining /\ counts \in [1 .. MaxUses -> Nat] /\ Balanced(next, counts)
    BY <2>1, <2>2, RemainingBudgetType, AfterUseType, CountUseType, UseBalanced
  <2> HIDE DEF next, counts, left
  <2>4. ASSUME NEW h \in GrantIds PROVE Balanced(AbstractLeft'[h], spent'[h])
    BY <2>1, <2>3 DEF BudgetInv
  <2>5. QED
    BY <2>1, <2>3, <2>4 DEF BudgetInv
<1>3. CASE UNCHANGED Abstract!gvars
  BY <1>3, BudgetSteps DEF BudgetInv
<1>4. QED
  BY <1>1, <1>2, <1>3 DEF Abstract!Next, Abstract!Budget, Budget

LEMMA BudgetInvariance == Abstract!Spec => []BudgetInv
BY BudgetInit, BudgetNext, PTL DEF Abstract!Spec

\* Every step of the abstract budget keeps the types of its counters.
THEOREM BudgetTypeCorrect == Abstract!Spec => []Abstract!TypeOK
<1>1. BudgetInv => Abstract!TypeOK
  BY BudgetSteps DEF BudgetInv
<1>2. QED
  BY <1>1, BudgetInvariance, PTL

\* In the abstract budget, uses taken under templates that allow at most b never
\* exceed b.
THEOREM BudgetNeverExceeded == Abstract!Spec => []Abstract!WithinBudget
<1>1. BudgetInv => Abstract!WithinBudget
  <2> SUFFICES ASSUME BudgetInv, NEW g \in GrantIds, NEW b \in 1 .. MaxUses
               PROVE  spent[g][b] <= b
    BY DEF Abstract!WithinBudget
  <2>1. spent[g][b] \in Nat /\ b \in Nat /\ b > 0
    BY Constants DEF BudgetInv
  <2>2. CASE spent[g][b] = 0
    BY <2>1, <2>2
  <2>3. CASE spent[g][b] > 0
    <3>1. AbstractLeft[g] # Unlimited /\ AbstractLeft[g] + spent[g][b] <= b
      BY <2>3 DEF BudgetInv, Balanced
    <3>2. AbstractLeft[g] \in Nat
      BY <3>1 DEF BudgetInv, Remaining
    <3>3. QED
      BY <2>1, <3>1, <3>2
  <2>4. QED
    BY <2>1, <2>2, <2>3
<1>2. QED
  BY <1>1, BudgetInvariance, PTL

\* Across processes, crashes and edits of the configuration, the uses charged to
\* templates allowing at most b never exceed b.
THEOREM BudgetRespected == Spec => []WithinBudget
BY BudgetNeverExceeded, Refinement, PTL DEF ImplementsBudget, WithinBudget

\* Nothing is charged to a grant once its revocation is in the file, even by a
\* worker that loaded its template before (GrantStore::consume reads the state
\* again under the lock).
THEOREM RevocationIsFinal == Spec => NothingAfterRevocation
<1> DEFINE Charges == \A g \in GrantIds : state[g] # Absent /\ state[g].revoked => spent'[g] = spent[g]
<1>1. TypeOK /\ ReadsAreFresh /\ [Next]_vars => [Charges]_vars
  <2> SUFFICES ASSUME TypeOK, ReadsAreFresh, [Next]_vars,
                      NEW g \in GrantIds, state[g] # Absent, state[g].revoked
               PROVE  spent'[g] = spent[g]
    OBVIOUS
  <2>1. AbstractRevoked[g]
    BY DEF AbstractRevoked
  <2>2. spent \in [GrantIds -> [1 .. MaxUses -> Nat]]
    BY DEF TypeOK
  <2>3. ASSUME NEW h \in GrantIds, NEW base \in Abstract!Budget, Abstract!Use(h, base)
        PROVE  spent'[g] = spent[g]
    <3>1. ~ AbstractRevoked[h] /\ spent' = [spent EXCEPT ![h] = Abstract!CountUse(@, base)]
      BY <2>3, BudgetSteps
    <3>2. QED
      BY <2>1, <2>2, <3>1
  <2>4. ASSUME NEW h \in GrantIds, Abstract!Revoke(h) PROVE spent'[g] = spent[g]
    BY <2>4, BudgetSteps
  <2>5. CASE UNCHANGED Abstract!gvars
    BY <2>5, BudgetSteps
  <2>6. QED
    BY <2>3, <2>4, <2>5, BudgetStep DEF Abstract!Next
<1>2. QED
  BY <1>1, ReadsStayFresh, PTL DEF NothingAfterRevocation, Spec

----------------------------------------------------------------------------
(* The walk over the templates *)

\* The file says that the grant is used up or revoked, and will for ever.
Gone(g) == state[g] # Absent /\ (state[g].revoked \/ state[g].left = 0)

\* The request matches the grant whatever the clock says.
AlwaysMatches(w, g) ==
  \A time \in Times :
    Evaluate(view[w].grants[g], g, job[w], time, view[w].allowDangerous /\ job[w].cli)

Walking == {"scan", "wait"} \union Locked

\* A worker starts at the first template, and every one it has passed was no use.
TriedInOrder(w) ==
  /\ pc[w] \in Answered \union {"load"} => cursor[w] = 1
  /\ pc[w] \in Walking /\ ~ IsRevoker(w) =>
       \A g \in GrantIds : g < cursor[w] /\ AlwaysMatches(w, g) => Gone(g)

Tried == \A w \in Workers : TriedInOrder(w)

\* Nothing is left of a grant exactly when the file says so: templates allow one
\* use at least.
LEMMA NothingLeft ==
  ASSUME NEW usage \in Usage \union {Absent}, NEW base \in Budget
  PROVE  RemainingBudget(base, usage) = 0 <=> usage # Absent /\ usage.left = 0
<1> DEFINE saved == IF usage = Absent THEN Unlimited ELSE usage.left
<1>1. saved \in Remaining /\ (saved = 0 <=> usage # Absent /\ usage.left = 0)
  BY Constants DEF Usage, Remaining
<1>2. RemainingBudget(base, usage) = Abstract!RemainingBudget(base, saved)
  BY DEF RemainingBudget
<1> HIDE DEF saved
<1>3. Abstract!RemainingBudget(base, saved) = 0 <=> saved = 0
  BY <1>1, RemainingBudgetType
<1>4. QED
  BY <1>1, <1>2, <1>3

\* A grant that always matches is configured.
LEMMA MatchesTemplate ==
  ASSUME TypeOK, NEW w \in Workers, view[w] # Absent, NEW g \in GrantIds, AlwaysMatches(w, g)
  PROVE  view[w].grants[g] \in Template
<1>1. view[w] \in Config
  BY DEF TypeOK
<1>2. PICK time \in Times : TRUE
  BY GrantsAssumption
<1>3. view[w].grants[g] # Absent
  BY <1>2 DEF AlwaysMatches, Evaluate
<1>4. QED
  BY <1>1, <1>3 DEF Config

\* What is gone stays gone: a use needs a grant that is not, and the rest of the
\* file is written back as it was read.
LEMMA GoneStays ==
  ASSUME TypeOK, ReadsAreFresh, [Next]_vars, NEW g \in GrantIds, Gone(g)
  PROVE  Gone(g)'
<1>1. state \in [GrantIds -> Usage \union {Absent}]
  BY DEF TypeOK, State
<1>2. ASSUME NEW w \in Workers, PersistUse(w) PROVE Gone(g)'
  <2>1. /\ cursor[w] \in GrantIds /\ copy[w] = state
        /\ state[cursor[w]] # Absent => ~ state[cursor[w]].revoked
        /\ RemainingBudget(view[w].grants[cursor[w]].uses, state[cursor[w]]) # 0
    BY <1>2 DEF PersistUse, ReadsAreFresh, ReadIsFresh, Locked
  <2>2. view[w].grants[cursor[w]].uses \in Budget
    BY <1>2, ChargeType DEF PersistUse
  <2>3. ~ Gone(cursor[w])
    BY <1>1, <2>1, <2>2, NothingLeft DEF Gone
  <2>4. state'[g] = state[g]
    BY <1>1, <1>2, <2>1, <2>3 DEF PersistUse
  <2>5. QED
    BY <2>4 DEF Gone
<1>3. ASSUME NEW w \in Workers, PersistRevocation(w) PROVE Gone(g)'
  <2>1. cursor[w] \in GrantIds /\ copy[w] = state
    BY <1>3 DEF PersistRevocation, ReadsAreFresh, ReadIsFresh, Locked
  <2>2. [left |-> 0, revoked |-> TRUE] \in Usage
    BY Constants DEF Usage, Remaining
  <2>3. state'[g] = state[g] \/ state'[g] = [left |-> 0, revoked |-> TRUE]
    BY <1>1, <1>3, <2>1 DEF PersistRevocation
  <2>4. QED
    BY <2>2, <2>3, Constants DEF Gone
<1>4. ASSUME UNCHANGED state PROVE Gone(g)'
  BY <1>4 DEF Gone
<1>5. QED
  BY <1>2, <1>3, <1>4
  DEF Next, Step, Present, PresentExcluded, RequestRevocation, LoadTemplates, Match,
      NoneMatched, AcquireLock, LockTimeout, ReadState, Finish, Abort, EditConfig, SetClock, vars

\* A worker whose locals do not change has still tried what it tried.
LEMMA TriedStays ==
  ASSUME TypeOK, ReadsAreFresh, [Next]_vars, NEW v \in Workers, TriedInOrder(v),
         UNCHANGED <<job[v], view[v], cursor[v]>>,
         pc'[v] \in Answered \union {"load"} <=> pc[v] \in Answered \union {"load"},
         pc'[v] \in Walking => pc[v] \in Walking
  PROVE  TriedInOrder(v)'
<1>1. \A g \in GrantIds : AlwaysMatches(v, g)' <=> AlwaysMatches(v, g)
  BY DEF AlwaysMatches, Evaluate, IsExpired
<1>2. QED
  BY <1>1, GoneStays DEF TriedInOrder, IsRevoker

\* So has a worker that goes on to the next template, if that one was no use.
LEMMA TriedMore ==
  ASSUME TypeOK, ReadsAreFresh, [Next]_vars, NEW w \in Workers, TriedInOrder(w),
         UNCHANGED <<job[w], view[w]>>, cursor[w] \in GrantIds, cursor'[w] = cursor[w] + 1,
         pc[w] \in Walking, pc'[w] \in Walking,
         ~ IsRevoker(w) /\ AlwaysMatches(w, cursor[w]) => Gone(cursor[w])
  PROVE  TriedInOrder(w)'
<1>1. \A g \in GrantIds : AlwaysMatches(w, g)' <=> AlwaysMatches(w, g)
  BY DEF AlwaysMatches, Evaluate, IsExpired
<1>2. \A g \in GrantIds : g < cursor'[w] => g < cursor[w] \/ g = cursor[w]
  BY Constants DEF GrantIds
<1>3. pc'[w] \notin Answered \union {"load"}
  BY DEF Walking, Answered, Locked
<1>4. QED
  BY <1>1, <1>2, <1>3, GoneStays DEF TriedInOrder, IsRevoker

\* A worker that returned starts anew.
LEMMA AnsweredTries ==
  ASSUME TypeOK, ReadsAreFresh, Tried, [Next]_vars, NEW w \in Workers, NEW outcome \in Answered,
         Answer(w, outcome)
  PROVE  Tried'
<1>1. TriedInOrder(w)'
  BY DEF Answer, Goto, TypeOK, TriedInOrder, Walking, Answered, Locked
<1>2. ASSUME NEW v \in Workers, v # w PROVE TriedInOrder(v)'
  <2>1. UNCHANGED <<pc[v], job[v], view[v], cursor[v]>>
    BY <1>2 DEF Answer, Goto, TypeOK
  <2>2. QED
    BY <2>1, TriedStays DEF Tried
<1>3. QED
  BY <1>1, <1>2 DEF Tried

\* Only w moves.
LEMMA OwnTries ==
  ASSUME TypeOK, ReadsAreFresh, Tried, [Next]_vars, NEW w \in Workers, TriedInOrder(w)',
         \A v \in Workers \ {w} : UNCHANGED <<pc[v], job[v], view[v], cursor[v]>>
  PROVE  Tried'
BY TriedStays DEF Tried

LEMMA TriedStep == TypeOK /\ ReadsAreFresh /\ Tried /\ [Next]_vars => Tried'
<1> SUFFICES ASSUME TypeOK, ReadsAreFresh, Tried, [Next]_vars PROVE Tried'
  OBVIOUS
<1>1. ASSUME NEW w \in Workers, NEW request \in Requests, Present(w, request) PROVE Tried'
  <2>1. TriedInOrder(w)'
    BY <1>1 DEF Present, Goto, TypeOK, Tried, TriedInOrder, Walking, Answered, Locked
  <2>2. QED
    BY <1>1, <2>1, OwnTries DEF Present, Goto, TypeOK
<1>2. ASSUME NEW w \in Workers, NEW g \in GrantIds, RequestRevocation(w, g) PROVE Tried'
  <2>1. TriedInOrder(w)'
    BY <1>2 DEF RequestRevocation, Goto, TypeOK, TriedInOrder, Walking, Answered, Locked, IsRevoker
  <2>2. QED
    BY <1>2, <2>1, OwnTries DEF RequestRevocation, Goto, TypeOK
<1>3. ASSUME NEW w \in Workers, LoadTemplates(w) PROVE Tried'
  <2>1. cursor'[w] = 1 /\ pc'[w] = "scan"
    BY <1>3 DEF LoadTemplates, Goto, TypeOK, Tried, TriedInOrder
  <2>2. TriedInOrder(w)'
    BY <2>1 DEF TriedInOrder, GrantIds, Answered
  <2>3. QED
    BY <1>3, <2>2, OwnTries DEF LoadTemplates, Goto, TypeOK
<1>4. ASSUME NEW w \in Workers, Match(w) PROVE Tried'
  <2>1. cursor[w] \in GrantIds /\ pc[w] = "scan" /\ UNCHANGED <<job, view>>
    BY <1>4, Constants DEF Match, TypeOK, GrantIds
  <2>2. TriedInOrder(w)'
    <3>1. CASE pc'[w] = "wait" /\ UNCHANGED cursor
      BY <2>1, <3>1, TriedStays DEF Tried, Walking, Answered
    <3>2. CASE /\ ~ Evaluate(view[w].grants[cursor[w]], cursor[w], job[w], now,
                             view[w].allowDangerous /\ job[w].cli)
               /\ UNCHANGED pc /\ cursor' = [cursor EXCEPT ![w] = @ + 1]
      <4>1. ~ AlwaysMatches(w, cursor[w])
        BY <3>2 DEF AlwaysMatches, TypeOK
      <4>2. cursor'[w] = cursor[w] + 1
        BY <3>2 DEF TypeOK
      <4>3. QED
        BY <2>1, <3>2, <4>1, <4>2, TriedMore DEF Tried, Walking
    <3>3. QED
      BY <1>4, <3>1, <3>2 DEF Match, Goto, TypeOK
  <2>3. QED
    BY <1>4, <2>2, OwnTries DEF Match, Goto, TypeOK
<1>5. ASSUME NEW w \in Workers, AcquireLock(w) PROVE Tried'
  <2>1. pc[w] = "wait" /\ pc'[w] = "held" /\ UNCHANGED <<job, view, cursor>>
    BY <1>5 DEF AcquireLock, Goto, TypeOK
  <2>2. TriedInOrder(w)'
    BY <2>1, TriedStays DEF Tried, Walking, Answered, Locked
  <2>3. QED
    BY <1>5, <2>2, OwnTries DEF AcquireLock, Goto, TypeOK
<1>6. ASSUME NEW w \in Workers, ReadState(w) PROVE Tried'
  <2> DEFINE template == view[w].grants[cursor[w]]
             usage == state[cursor[w]]
  <2>1. /\ cursor[w] \in GrantIds /\ pc[w] = "held" /\ UNCHANGED <<job, view>>
        /\ view[w] # Absent
    BY <1>6 DEF ReadState, ReadsAreFresh, ReadIsFresh, Locked
  <2>2. TriedInOrder(w)'
    <3>1. CASE pc'[w] = "deciding" /\ UNCHANGED cursor
      BY <2>1, <3>1, TriedStays DEF Tried, Walking, Answered, Locked
    <3>2. CASE /\ ~ IsRevoker(w)
               /\ \/ IsExpired(template, now)
                  \/ usage # Absent /\ usage.revoked
                  \/ RemainingBudget(template.uses, usage) = 0
               /\ pc'[w] = "scan" /\ cursor' = [cursor EXCEPT ![w] = @ + 1]
      <4>1. ASSUME AlwaysMatches(w, cursor[w]) PROVE Gone(cursor[w])
        <5>1. ~ IsExpired(template, now)
          BY <4>1 DEF AlwaysMatches, Evaluate, TypeOK
        <5>2. template.uses \in Budget
          BY <2>1, <4>1, MatchesTemplate DEF Template
        <5>3. usage \in Usage \union {Absent}
          BY <2>1 DEF TypeOK, State
        <5>4. QED
          BY <3>2, <5>1, <5>2, <5>3, NothingLeft DEF Gone
      <4>2. cursor'[w] = cursor[w] + 1
        BY <3>2 DEF TypeOK
      <4>3. QED
        BY <2>1, <3>2, <4>1, <4>2, TriedMore DEF Tried, Walking, Locked
    <3>3. QED
      BY <1>6, <3>1, <3>2 DEF ReadState, Goto, TypeOK
  <2>3. QED
    BY <1>6, <2>2, OwnTries DEF ReadState, Goto, TypeOK
<1>7. ASSUME NEW w \in Workers, PersistUse(w) \/ PersistRevocation(w) PROVE Tried'
  <2>1. pc[w] = "deciding" /\ pc'[w] = "paid" /\ UNCHANGED <<job, view, cursor>>
    BY <1>7 DEF PersistUse, PersistRevocation, Goto, TypeOK
  <2>2. TriedInOrder(w)'
    BY <2>1, TriedStays DEF Tried, Walking, Answered, Locked
  <2>3. QED
    BY <1>7, <2>2, OwnTries DEF PersistUse, PersistRevocation, Goto, TypeOK
<1>8. ASSUME NEW w \in Workers, NEW outcome \in Answered, Answer(w, outcome) PROVE Tried'
  BY <1>8, AnsweredTries
<1>9. ASSUME UNCHANGED <<pc, job, view, cursor>> PROVE Tried'
  BY <1>9, TriedStays DEF Tried
<1>10. QED
  BY <1>1, <1>2, <1>3, <1>4, <1>5, <1>6, <1>7, <1>8, <1>9
  DEF Next, Step, PresentExcluded, NoneMatched, LockTimeout, Finish, Abort, EditConfig, SetClock,
      Answered, vars

\* A worker that gives up has found every grant that matches its request used up
\* or revoked, and so it still is (try_release goes on after a grant that is
\* exhausted).
THEOREM NoneIsHidden == Spec => NoUsableGrantHidden
<1>1. Init => Tried
  BY DEF Init, Tried, TriedInOrder, Walking, Answered, Locked
<1>2. Spec => []Tried
  BY <1>1, TriedStep, ReadsStayFresh, PTL DEF Spec
<1>3. ASSUME TypeOK, ReadsAreFresh, Tried, NEW w \in Workers, NoneMatched(w), NEW g \in GrantIds,
             AlwaysMatches(w, g)
      PROVE  \/ state[g] # Absent /\ state[g].revoked
             \/ RemainingBudget(view[w].grants[g].uses, state[g]) = 0
  <2>1. /\ pc[w] = "scan" /\ ~ IsRevoker(w) /\ view[w] # Absent
        /\ cursor[w] > NumGrants /\ cursor[w] \in Nat
    BY <1>3, Constants DEF NoneMatched, ReadsAreFresh, ReadIsFresh, TypeOK
  <2>2. g < cursor[w]
    BY <2>1, Constants DEF GrantIds
  <2>3. Gone(g)
    BY <1>3, <2>1, <2>2 DEF Tried, TriedInOrder, Walking
  <2>4. view[w].grants[g].uses \in Budget
    BY <1>3, <2>1, MatchesTemplate DEF Template
  <2>5. state[g] \in Usage \union {Absent}
    BY <1>3 DEF TypeOK, State
  <2>6. QED
    BY <2>3, <2>4, <2>5, NothingLeft DEF Gone
<1>4. TypeOK /\ ReadsAreFresh /\ Tried =>
        \A w \in Workers : NoneMatched(w) =>
          \A g \in GrantIds :
            LET template == view[w].grants[g]
                usage    == state[g]
            IN  (\A time \in Times :
                   Evaluate(template, g, job[w], time, view[w].allowDangerous /\ job[w].cli)) =>
                  \/ usage # Absent /\ usage.revoked
                  \/ RemainingBudget(template.uses, usage) = 0
  BY <1>3 DEF AlwaysMatches
<1>5. QED
  BY <1>2, <1>4, ReadsStayFresh, PTL DEF NoUsableGrantHidden, Spec
=============================================================================
