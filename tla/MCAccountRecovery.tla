------------------------- MODULE MCAccountRecovery -------------------------
(* Instances of AccountRecovery for TLC: the owner and one other session. *)
EXTENDS AccountRecovery

CONSTANTS owner, other

Two == {owner, other}
=============================================================================
