----------------------------- MODULE MCApproval -----------------------------
(* Small instances of Approval for TLC. *)
EXTENDS Approval

Read == "read"
Write == "write"
Wipe == "wipe"
Su == "su"

E(risk, root, elevates) == [risk |-> risk, root |-> root, elevates |-> elevates]
FourEffects ==
  [c \in {Read, Write, Wipe, Su} |->
     CASE c = Read  -> E(ReadOnly, FALSE, FALSE)
       [] c = Write -> E(Mutating, FALSE, FALSE)
       [] c = Wipe  -> E(Dangerous, FALSE, FALSE)
       [] c = Su    -> E(Mutating, TRUE, TRUE)]
Scope == {Write, Wipe, Su}

C(front, policy, strict, mode, auto) ==
  [front |-> front, policy |-> policy, strict |-> strict, mode |-> mode, auto |-> auto]
SomeConfigs ==
  { C("web", "risk_only", FALSE, "auto", FALSE), C("web", "always", FALSE, "normal", FALSE),
    C("web", "never", TRUE, "auto", FALSE),
    C("protocol", "never", FALSE, "auto", FALSE), C("protocol", "always", TRUE, "auto", TRUE),
    C("tui", "risk_only", FALSE, "auto", FALSE), C("tui", "always", TRUE, "normal", FALSE) }
=============================================================================
