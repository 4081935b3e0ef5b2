----------------------------- MODULE MCPresence -----------------------------
(* Instances of Presence for TLC: two sessions and the sweeper. *)
EXTENDS Presence

CONSTANTS s1, s2

TwoSessions == {s1, s2}
AllCommands == {"other", "quit", "enter", "exit", "say", "page", "broadcast", "list", "ban"}
ChatOnly    == {"enter", "say"}
PageOnly    == {"other", "quit", "page"}
=============================================================================
