------------------------------ MODULE MCGrants ------------------------------
(* Small instances of Grants for TLC. *)
EXTENDS Grants

T(uses, expires, maxRisk) == [uses |-> uses, expires |-> expires, maxRisk |-> maxRisk]
R(risk, cli, scope) == [risk |-> risk, blocked |-> FALSE, cli |-> cli, scope |-> scope]

\* Two grants of one state file, both in the scope of an ordinary request; then
\* the budget of the first is raised and the second removed.
TwoGrants ==
  { [grants |-> <<T(1, 1, Mutating), T(2, Unlimited, Mutating)>>, allowDangerous |-> FALSE],
    [grants |-> <<T(Unlimited, Unlimited, Dangerous), Absent>>, allowDangerous |-> TRUE] }
TwoRequests ==
  { R(Mutating, FALSE, {1, 2}), R(Dangerous, TRUE, {1}),
    [risk |-> Mutating, blocked |-> TRUE, cli |-> FALSE, scope |-> {1}] }

Clock == {0, 1}
=============================================================================
