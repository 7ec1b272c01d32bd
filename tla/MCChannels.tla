----------------------------- MODULE MCChannels -----------------------------
(* Small instances of Channels for TLC. *)
EXTENDS Channels

CONSTANTS wx, alice

\* One sender in the only channel.
OneChannel == [r \in Routes |-> CHOOSE k \in Kinds : TRUE]

\* A task, what may come in while it runs, and the second confirmation.
Dialog == <<{"ask"}, {"new", "cancel", "session", "always"}, {"confirm"}>>
=============================================================================
