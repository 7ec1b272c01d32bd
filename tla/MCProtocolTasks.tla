-------------------------- MODULE MCProtocolTasks ---------------------------
(* A small instance of ProtocolTasks for TLC. *)
EXTENDS ProtocolTasks, TLC

CONSTANTS t1, t2, t3, s1

\* Three asks that share a context, with room for two at a time.
OneContext == [t \in Ids |-> s1]

\* A direct operation; the others are asks that share a context.
Mixed == [t \in Ids |-> IF t = t1 THEN None ELSE s1]

Symmetry == Permutations(Ids)
=============================================================================
