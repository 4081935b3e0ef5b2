----------------------------- MODULE MCSessions -----------------------------
(* Instances of Sessions for TLC: one SSH connection s, one WebSocket w. *)
EXTENDS Sessions

CONSTANTS s, w

OneSsh  == {s}
OneWeb  == {w}
Both    == {s, w}
NoConns == {}
=============================================================================
