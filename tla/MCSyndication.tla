---------------------------- MODULE MCSyndication ----------------------------
(* Instances of Syndication for TLC: one post, one or two subscribers. *)
EXTENDS Syndication

CONSTANTS peer1, peer2

OnePeer  == {peer1}
TwoPeers == {peer1, peer2}
=============================================================================
