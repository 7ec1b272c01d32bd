------------------------------- MODULE Grants -------------------------------
(***************************************************************************)
(* Approval grants (src/security/grants.rs): time-boxed, counted           *)
(* permissions that release an assessed operation without a prompt.        *)
(*                                                                         *)
(* Every confirmation that may be released runs try_release on a blocking  *)
(* worker of its own process: it reloads the grant templates from the      *)
(* configuration file, walks them in order, and for each matching one runs *)
(* a read-decide-write cycle on the shared state file under flock.  The    *)
(* owner may edit the templates, revoke a grant or change the device clock *)
(* at any moment, and any process may die at any moment.                   *)
(*                                                                         *)
(* A grant's tool, package and risk fields are abstracted to the `scope`   *)
(* and `risk` of a request: the set of grants whose tool and package       *)
(* patterns match it, and the assessed risk compared with max_risk.        *)
(***************************************************************************)
EXTENDS Naturals

CONSTANTS
  Workers,      \* blocking workers of all running nl2sh processes
  NumGrants,    \* grants are tried in configuration order, 1 .. NumGrants
  MaxUses,
  Unlimited,
  Configs,      \* the configurations the owner may write
  Requests,     \* the assessed requests that may be presented
  Times,        \* values of the device's wall clock
  MaxEdits,     \* bound on configuration edits
  Free,         \* nobody holds the lock
  Absent,       \* a grant that is not configured, or not recorded yet
  Revocation    \* the job of a worker that revokes the grant under its cursor

GrantIds == 1 .. NumGrants

\* RiskLevel, in order.
ReadOnly == 0
Mutating == 1
Dangerous == 2
Critical == 3

Budget == (1 .. MaxUses) \union {Unlimited}
Remaining == (0 .. MaxUses) \union {Unlimited}

Template ==
  [uses : Budget, expires : Times \union {Unlimited}, maxRisk : ReadOnly .. Critical]
Config ==
  [grants : [GrantIds -> Template \union {Absent}], allowDangerous : BOOLEAN]
Usage == [left : Remaining, revoked : BOOLEAN]
State == [GrantIds -> Usage \union {Absent}]
Request ==
  [risk : ReadOnly .. Critical, blocked : BOOLEAN, cli : BOOLEAN, scope : SUBSET GrantIds]

ASSUME GrantsAssumption ==
  /\ NumGrants \in Nat \ {0}
  /\ MaxUses \in Nat \ {0}
  /\ MaxEdits \in Nat
  /\ Times \subseteq Nat /\ Times # {}
  /\ Unlimited \notin Nat
  /\ Absent \notin Usage /\ Absent \notin Template
  /\ Absent \notin Config /\ Absent \notin State
  /\ Free \notin Workers
  /\ Revocation \notin Request
  /\ Configs \subseteq Config
  /\ Requests \subseteq Request

VARIABLES
  config,    \* the configuration file
  edits,     \* edits made so far (bounded by MaxEdits)
  now,       \* the wall clock
  state,     \* grants.json
  lock,      \* holder of the lock file
  pc,        \* where each worker is
  job,       \* what it was asked for: a request, or a Revocation
  view,      \* the templates it loaded
  cursor,    \* the grant it is trying
  copy,      \* the state it read under the lock
  spent      \* history: uses persisted under a template allowing at most b

vars == <<config, edits, now, state, lock, pc, job, view, cursor, copy, spent>>

Abstract == INSTANCE GrantBudget WITH
  left <- [g \in GrantIds |->
             IF state[g] = Absent THEN Unlimited ELSE state[g].left],
  revoked <- [g \in GrantIds |->
                IF state[g] = Absent THEN FALSE ELSE state[g].revoked]

\* try_release returned: the grant's id, or no grant or an error.
Answered == {"released", "refused"}
\* Holding the lock file.
Locked == {"held", "deciding", "paid"}
PC == Answered \union Locked \union {"load", "scan", "wait"}

TypeOK ==
  /\ config \in Config
  /\ edits \in 0 .. MaxEdits
  /\ now \in Times
  /\ state \in State
  /\ lock \in Workers \union {Free}
  /\ pc \in [Workers -> PC]
  /\ job \in [Workers -> Requests \union {Revocation}]
  /\ view \in [Workers -> Config \union {Absent}]
  /\ cursor \in [Workers -> 1 .. NumGrants + 1]
  /\ copy \in [Workers -> State \union {Absent}]
  /\ spent \in [GrantIds -> [1 .. MaxUses -> Nat]]

Init ==
  /\ config \in Configs
  /\ edits = 0
  /\ now \in Times
  /\ state = [g \in GrantIds |-> Absent]
  /\ lock = Free
  /\ pc = [w \in Workers |-> "refused"]
  /\ job = [w \in Workers |-> Revocation]
  /\ view = [w \in Workers |-> Absent]
  /\ cursor = [w \in Workers |-> 1]
  /\ copy = [w \in Workers |-> Absent]
  /\ spent = [g \in GrantIds |-> [b \in 1 .. MaxUses |-> 0]]

----------------------------------------------------------------------------
(* Pure matching *)

IsExpired(template, time) ==
  /\ template.expires # Unlimited
  /\ time >= template.expires

\* evaluate, on the one template the loop offers it.
Evaluate(template, g, request, time, allowDangerous) ==
  /\ ~ request.blocked
  /\ request.risk < Critical
  /\ request.risk >= Dangerous => allowDangerous
  /\ template # Absent
  /\ ~ IsExpired(template, time)
  /\ request.risk <= template.maxRisk
  /\ g \in request.scope

\* remaining_budget, with usage as recorded in the state file.
RemainingBudget(base, usage) ==
  Abstract!RemainingBudget(base, IF usage = Absent THEN Unlimited ELSE usage.left)

----------------------------------------------------------------------------
(* A worker's steps *)

Goto(w, label) == pc' = [pc EXCEPT ![w] = label]

Unlock(w) == lock' = IF lock = w THEN Free ELSE lock

\* The worker returns: its locals are gone and its lock guard is dropped.
Answer(w, outcome) ==
  /\ Goto(w, outcome)
  /\ Unlock(w)
  /\ job' = [job EXCEPT ![w] = Revocation]
  /\ view' = [view EXCEPT ![w] = Absent]
  /\ cursor' = [cursor EXCEPT ![w] = 1]
  /\ copy' = [copy EXCEPT ![w] = Absent]

IsRevoker(w) == job[w] = Revocation

\* confirm_assessed presents a request; the unconditional exclusions refuse it
\* before anything is read.
Present(w, request) ==
  /\ pc[w] \in Answered
  /\ ~ request.blocked
  /\ request.risk < Critical
  /\ job' = [job EXCEPT ![w] = request]
  /\ Goto(w, "load")
  /\ UNCHANGED <<config, edits, now, state, lock, view, cursor, copy, spent>>

PresentExcluded(w, request) ==
  /\ pc[w] \in Answered
  /\ request.blocked \/ request.risk >= Critical
  /\ Answer(w, "refused")
  /\ UNCHANGED <<config, edits, now, state, spent>>

\* The configuration is read again for every confirmation.
LoadTemplates(w) ==
  /\ pc[w] = "load"
  /\ view' = [view EXCEPT ![w] = config]
  /\ Goto(w, "scan")
  /\ UNCHANGED <<config, edits, now, state, lock, job, cursor, copy, spent>>

\* The loop over the templates: exhausted ones must not hide later usable ones.
Match(w) ==
  /\ pc[w] = "scan"
  /\ cursor[w] <= NumGrants
  /\ IF Evaluate(view[w].grants[cursor[w]], cursor[w], job[w], now,
                 view[w].allowDangerous /\ job[w].cli)
       THEN Goto(w, "wait") /\ UNCHANGED cursor
       ELSE UNCHANGED pc /\ cursor' = [cursor EXCEPT ![w] = @ + 1]
  /\ UNCHANGED <<config, edits, now, state, lock, job, view, copy, spent>>

NoneMatched(w) ==
  /\ pc[w] = "scan"
  /\ cursor[w] > NumGrants
  /\ Answer(w, "refused")
  /\ UNCHANGED <<config, edits, now, state, spent>>

\* The owner revokes a configured grant from the Web settings.
RequestRevocation(w, g) ==
  /\ pc[w] \in Answered
  /\ config.grants[g] # Absent
  /\ job' = [job EXCEPT ![w] = Revocation]
  /\ cursor' = [cursor EXCEPT ![w] = g]
  /\ view' = [view EXCEPT ![w] = config]
  /\ Goto(w, "wait")
  /\ UNCHANGED <<config, edits, now, state, lock, copy, spent>>

\* Mutant: the lock file is opened but flock is not waited for.
AcquireLock_Unlocked(w) ==
  /\ pc[w] = "wait"
  /\ lock' = w
  /\ Goto(w, "held")
  /\ UNCHANGED <<config, edits, now, state, job, view, cursor, copy, spent>>

AcquireLock(w) ==
  /\ pc[w] = "wait"
  /\ lock = Free
  /\ lock' = w
  /\ Goto(w, "held")
  /\ UNCHANGED <<config, edits, now, state, job, view, cursor, copy, spent>>

\* Mutant: a blocking flock with no deadline.
LockTimeout_Never(w) ==
  /\ pc[w] = "wait"
  /\ lock = w
  /\ Answer(w, "refused")
  /\ UNCHANGED <<config, edits, now, state, spent>>

\* Three seconds of polling found the lock held each time.
LockTimeout(w) ==
  /\ pc[w] = "wait"
  /\ lock # Free
  /\ Answer(w, "refused")
  /\ UNCHANGED <<config, edits, now, state, spent>>

\* Mutant: try_release returns when the first matching grant is exhausted.
ReadState_StopsAtFirst(w) ==
  /\ pc[w] = "held"
  /\ IF IsRevoker(w) \/ RemainingBudget(view[w].grants[cursor[w]].uses, state[cursor[w]]) # 0
       THEN /\ copy' = [copy EXCEPT ![w] = state]
            /\ Goto(w, "deciding")
            /\ UNCHANGED <<lock, cursor>>
       ELSE /\ Unlock(w)
            /\ cursor' = [cursor EXCEPT ![w] = NumGrants + 1]
            /\ Goto(w, "scan")
            /\ UNCHANGED copy
  /\ UNCHANGED <<config, edits, now, state, job, view, spent>>

\* read_state, then the decision: expiry is checked again after the wait for
\* the lock, revocation and the remaining budget against the file.
ReadState(w) ==
  /\ pc[w] = "held"
  /\ LET template == view[w].grants[cursor[w]]
         usage    == state[cursor[w]]
         usable   == /\ ~ IsExpired(template, now)
                     /\ usage # Absent => ~ usage.revoked
                     /\ RemainingBudget(template.uses, usage) # 0
     IN  IF IsRevoker(w) \/ usable
           THEN /\ copy' = [copy EXCEPT ![w] = state]
                /\ Goto(w, "deciding")
                /\ UNCHANGED <<lock, cursor>>
           ELSE /\ Unlock(w)
                /\ cursor' = [cursor EXCEPT ![w] = @ + 1]
                /\ Goto(w, "scan")
                /\ UNCHANGED copy
  /\ UNCHANGED <<config, edits, now, state, job, view, spent>>

\* Mutant: the budget is taken from the template again, so raising it replenishes.
Charge_FromTemplate(w) ==
  [left |-> Abstract!AfterUse(view[w].grants[cursor[w]].uses), revoked |-> FALSE]

\* The usage consume writes back for the grant under the cursor.
Charge(w) ==
  [left |-> Abstract!AfterUse(RemainingBudget(view[w].grants[cursor[w]].uses, copy[w][cursor[w]])),
   revoked |-> FALSE]

\* write_state: the whole map replaces the file by rename.
PersistUse(w) ==
  /\ pc[w] = "deciding"
  /\ ~ IsRevoker(w)
  /\ state' = [copy[w] EXCEPT ![cursor[w]] = Charge(w)]
  /\ spent' = [spent EXCEPT ![cursor[w]] =
                 Abstract!CountUse(@, view[w].grants[cursor[w]].uses)]
  /\ Goto(w, "paid")
  /\ UNCHANGED <<config, edits, now, lock, job, view, cursor, copy>>

\* Mutant: the revoked grant is emptied but not marked.
PersistRevocation_Unmarked(w) ==
  /\ pc[w] = "deciding"
  /\ IsRevoker(w)
  /\ state' = [copy[w] EXCEPT ![cursor[w]] = [left |-> 0, revoked |-> FALSE]]
  /\ Goto(w, "paid")
  /\ UNCHANGED <<config, edits, now, lock, job, view, cursor, copy, spent>>

PersistRevocation(w) ==
  /\ pc[w] = "deciding"
  /\ IsRevoker(w)
  /\ state' = [copy[w] EXCEPT ![cursor[w]] = [left |-> 0, revoked |-> TRUE]]
  /\ Goto(w, "paid")
  /\ UNCHANGED <<config, edits, now, lock, job, view, cursor, copy, spent>>

\* consume (or revoke) returns.
Finish(w) ==
  /\ pc[w] = "paid"
  /\ Answer(w, IF IsRevoker(w) THEN "refused" ELSE "released")
  /\ UNCHANGED <<config, edits, now, state, spent>>

\* A read or a write fails, or the process dies and the kernel drops the lock:
\* the confirmation gets no grant.  A use already persisted stays charged.
Abort(w) ==
  /\ pc[w] \notin Answered
  /\ Answer(w, "refused")
  /\ UNCHANGED <<config, edits, now, state, spent>>

----------------------------------------------------------------------------
(* The owner and the clock *)

EditConfig ==
  /\ edits < MaxEdits
  /\ edits' = edits + 1
  /\ config' \in Configs
  /\ UNCHANGED <<now, state, lock, pc, job, view, cursor, copy, spent>>

\* The device clock may be set to any value, backwards included.
SetClock ==
  /\ now' \in Times
  /\ UNCHANGED <<config, edits, state, lock, pc, job, view, cursor, copy, spent>>

Step(w) ==
  \/ LoadTemplates(w)
  \/ Match(w)
  \/ NoneMatched(w)
  \/ AcquireLock(w)
  \/ LockTimeout(w)
  \/ ReadState(w)
  \/ PersistUse(w)
  \/ PersistRevocation(w)
  \/ Finish(w)

Next ==
  \/ \E w \in Workers :
       \/ \E request \in Requests : Present(w, request) \/ PresentExcluded(w, request)
       \/ \E g \in GrantIds : RequestRevocation(w, g)
       \/ Step(w)
       \/ Abort(w)
  \/ EditConfig
  \/ SetClock

Spec == Init /\ [][Next]_vars

\* Blocking workers keep running: a worker that can take a step takes one.
Fairness == \A w \in Workers : WF_vars(Step(w))
FairSpec == Spec /\ Fairness

----------------------------------------------------------------------------
(* Properties *)

\* Releases charged to templates allowing at most b uses never exceed b, across
\* processes, crashes, edits, removals and re-additions of the grant
\* (GrantStore::consume).
WithinBudget == Abstract!WithinBudget

\* A revocation that has been written is final: nothing is charged to the grant
\* after it, even by a worker that loaded its template before.
NothingAfterRevocation ==
  [][\A g \in GrantIds : state[g] # Absent /\ state[g].revoked => spent'[g] = spent[g]]_vars

\* While a worker is between its read and its write, what it read is still what
\* the file holds, and the grant it is about to charge is configured, not
\* revoked and not exhausted: flock makes the cycle atomic across processes.
ReadIsFresh(w) ==
  /\ pc[w] \in Locked <=> lock = w
  /\ pc[w] \in {"load", "scan"} => ~ IsRevoker(w)
  /\ pc[w] \in Locked \union {"scan", "wait"} => view[w] # Absent
  /\ pc[w] \in Locked \union {"wait"} =>
       /\ cursor[w] \in GrantIds
       /\ view[w].grants[cursor[w]] # Absent
  /\ pc[w] = "deciding" =>
       /\ copy[w] = state
       /\ ~ IsRevoker(w) =>
            LET usage == state[cursor[w]]
            IN  /\ usage # Absent => ~ usage.revoked
                /\ RemainingBudget(view[w].grants[cursor[w]].uses, usage) # 0

ReadsAreFresh == \A w \in Workers : ReadIsFresh(w)

\* The store implements the abstract budget.
ImplementsBudget == Abstract!Spec

\* An exhausted or revoked grant never hides a later usable one: when a worker
\* gives up, no grant that matches its request at any clock reading is usable
\* (budgets only shrink, so it was not usable when it was tried either).
NoUsableGrantHidden ==
  [][\A w \in Workers : NoneMatched(w) =>
       \A g \in GrantIds :
         LET template == view[w].grants[g]
             usage    == state[g]
         IN  (\A time \in Times :
                Evaluate(template, g, job[w], time, view[w].allowDangerous /\ job[w].cli)) =>
               \/ usage # Absent /\ usage.revoked
               \/ RemainingBudget(template.uses, usage) = 0]_vars

\* Every confirmation gets an answer from try_release: the lock wait is bounded.
AlwaysAnswered == \A w \in Workers : (pc[w] \notin Answered) ~> (pc[w] \in Answered)
============================================================================
