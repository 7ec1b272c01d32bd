---------------------------- MODULE GrantBudget ----------------------------
(***************************************************************************)
(* What the approval-grant store promises (docs/en/guide/                  *)
(* security-confirmation.md, "Approval grants"): a grant identifier has a  *)
(* remaining budget that only ever shrinks, a revocation is permanent, and *)
(* releases made under a template that allows b uses never number more     *)
(* than b, whatever happens to the template in between.                    *)
(*                                                                         *)
(* One atomic step per promise.  Grants.tla is the implementation: several *)
(* processes, a lock file, a state file replaced by rename, crashes.       *)
(***************************************************************************)
EXTENDS Naturals

CONSTANTS
  GrantIds,     \* identifiers of the configured approval grants
  MaxUses,      \* the largest finite `uses` a template may carry
  Unlimited     \* a template without `uses`: no finite budget

Budget == (1 .. MaxUses) \union {Unlimited}      \* what a template may say
Remaining == (0 .. MaxUses) \union {Unlimited}   \* what the store may remember

VARIABLES
  left,      \* remembered uses of each grant
  revoked,   \* permanently disabled grants
  spent      \* spent[g][b]: uses of g taken under a template allowing at most b

gvars == <<left, revoked, spent>>

\* remaining_budget: the tighter of the configured and the remembered budget.
RemainingBudget(base, saved) ==
  IF base = Unlimited THEN saved
  ELSE IF saved = Unlimited THEN base
  ELSE IF base <= saved THEN base ELSE saved

\* The remembered count after one more use.
AfterUse(remaining) == IF remaining = Unlimited THEN Unlimited ELSE remaining - 1

\* Count a use taken under a template whose budget is `base`.
CountUse(counts, base) ==
  [b \in 1 .. MaxUses |->
     IF base # Unlimited /\ base <= b THEN counts[b] + 1 ELSE counts[b]]

Init ==
  /\ left = [g \in GrantIds |-> Unlimited]
  /\ revoked = [g \in GrantIds |-> FALSE]
  /\ spent = [g \in GrantIds |-> [b \in 1 .. MaxUses |-> 0]]

Use(g, base) ==
  /\ ~ revoked[g]
  /\ RemainingBudget(base, left[g]) # 0
  /\ left' = [left EXCEPT ![g] = AfterUse(RemainingBudget(base, left[g]))]
  /\ spent' = [spent EXCEPT ![g] = CountUse(@, base)]
  /\ UNCHANGED revoked

Revoke(g) ==
  /\ left' = [left EXCEPT ![g] = 0]
  /\ revoked' = [revoked EXCEPT ![g] = TRUE]
  /\ UNCHANGED spent

Next == \E g \in GrantIds : Revoke(g) \/ \E base \in Budget : Use(g, base)

Spec == Init /\ [][Next]_gvars

----------------------------------------------------------------------------
TypeOK ==
  /\ left \in [GrantIds -> Remaining]
  /\ revoked \in [GrantIds -> BOOLEAN]
  /\ spent \in [GrantIds -> [1 .. MaxUses -> Nat]]

\* Uses taken under templates that allowed at most b uses, at whatever moment
\* those templates were loaded, never exceed b: lowering `uses` tightens, and
\* raising it, removing the grant or adding it again replenishes nothing.
WithinBudget == \A g \in GrantIds, b \in 1 .. MaxUses : spent[g][b] <= b
============================================================================
