------------------------------ MODULE MCInbox ------------------------------
(* An instance of Inbox for TLC: a post of z's, x's reply to it, and a note   *)
(* of z's to x's user.  Stories are told one at a time: the board's, the       *)
(* note's, that of a follow asked for again, and that of a report.           *)
EXTENDS Inbox

CONSTANTS root, reply, note

MCHomeOf   == [p \in Posts |-> IF p = reply THEN "x" ELSE "z"]
MCParentOf == [p \in Posts |-> IF p = reply THEN root ELSE None]

Written  == {p \in Posts : said[p] # 0}
OneStory == /\ note \in Written => Written = {note} /\ asks = 0
            /\ asks > 1 => Written = {}
            /\ report # None => Written = {} /\ asks = 0

\* Deliveries under way at once; a queue is drained every few seconds.
MaxFlight == 2
InFlight  == /\ Len(wire[<<"x", "y">>]) + Len(wire[<<"y", "x">>]) <=
                  IF Written = {} THEN 2 * MaxFlight ELSE MaxFlight
             /\ Len(wire[<<"z", "y">>]) + Len(wire[<<"z", "x">>]) <= MaxFlight
=============================================================================
