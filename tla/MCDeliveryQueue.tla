--------------------------- MODULE MCDeliveryQueue ---------------------------
(* Instances of DeliveryQueue for TLC: batches of two rows, a backoff of 2    *)
(* units where the code has 120 s, 240 s, ... 3 h.                            *)
EXTENDS DeliveryQueue

CONSTANTS d1, d2, d3

TwoRows   == {d1, d2}
ThreeRows == {d1, d2, d3}
=============================================================================
