-------------------------------- MODULE Inbox --------------------------------
(***************************************************************************)
(* What boards say to each other, seen from both ends.  Instance "y" hosts *)
(* a board; instance "x" mirrors it and submits posts of its own; authors  *)
(* on a third server "z" post to the board and are followed from "x".      *)
(* Every server delivers from a persistent queue: at least once, and in    *)
(* order only as long as no attempt fails.  The receiving side is          *)
(* ap_object.rs, the stores behind it services/federation.rs.              *)
(*                                                                         *)
(* An instance keeps what it accepts in four stores (two here at each end  *)
(* would stay empty): posts on its own boards, the timeline, mirrors of    *)
(* other boards, and mail.  A store holds the version of a post's text, or *)
(* 0 where it does not hold the post.                                      *)
(***************************************************************************)
EXTENDS Integers, Sequences, SequencesExt, FiniteSets

CONSTANTS
  Posts,         \* what authors write
  HomeOf,        \* "x" or "z": the server of a post's author
  ParentOf,      \* the post it answers, or None
  Private,       \* those sent to one user of "x" only
  MaxPosts,      \* [limits] max_posts in a window
  AllowDms,      \* [federation] allow_remote_dms
  MaxVer,        \* bound: versions of a text
  MaxAsks,       \* bound: how often x asks to follow
  MaxUpsets      \* bound: lost, repeated or overtaken deliveries, crashes, and
                 \* changes to the domain policy of x

None == "none"

ASSUME InboxAssumption ==
  /\ HomeOf \in [Posts -> {"x", "z"}]
  /\ ParentOf \in [Posts -> Posts \cup {None}]
  /\ None \notin Posts
  /\ Private \subseteq {p \in Posts : HomeOf[p] = "z"}
  /\ {MaxVer, MaxPosts} \subseteq Nat \ {0}
  /\ {MaxAsks, MaxUpsets} \subseteq Nat
  /\ AllowDms \in BOOLEAN

Gone   == MaxVer + 1
Stores == <<"board", "timeline", "mirror", "mail">>   \* as lifecycle tries them
SiteOf == [board |-> "y", timeline |-> "x", mirror |-> "x", mail |-> "x"]
Links  == {<<"x", "y">>, <<"y", "x">>, <<"z", "y">>, <<"z", "x">>}

VARIABLES
  edge,        \* ap_follows at x: the user's follow of the board
  subscribed,  \* ap_follows at y: the same edge, as the board knows it
  accepting,   \* y has stored the edge and is about to queue its Accept
  held,        \* the stores: the version of each post they hold
  under,       \* parent_id of posts on the board, in_reply_to of mirrored ones
  recent,      \* posts the board took in during the current rate window
  due,         \* posts stored on the board and not yet announced
  said,        \* the author's own version; 0 not written yet, Gone withdrawn
  wire,        \* deliveries under way, oldest first
  policy,      \* ap_blocks at x, of each other server
  purged,      \* servers suspended, then purged, and not reinstated since
  asks, upsets,
  report,      \* ap_reports at x: a report from z
  shaken       \* history: <<site, post>> (or <<site, None>>: the follow) whose
               \* deliveries or copies something other than the author disturbed

vars == <<edge, subscribed, accepting, held, under, recent, due, said, wire, policy,
          purged, asks, upsets, report, shaken>>

Msg(act, p, v, up) == [act |-> act, post |-> p, ver |-> v, up |-> up]

Init ==
  /\ edge       = None
  /\ subscribed = FALSE
  /\ accepting  = FALSE
  /\ held       = [s \in Range(Stores) |-> [p \in Posts |-> 0]]
  /\ under      = [s \in {"board", "mirror"} |-> [p \in Posts |-> None]]
  /\ recent     = {}
  /\ due        = {}
  /\ said       = [p \in Posts |-> 0]
  /\ wire       = [l \in Links |-> <<>>]
  /\ policy     = [d \in {"y", "z"} |-> "open"]
  /\ purged     = {}
  /\ asks = 0 /\ upsets = 0
  /\ report     = None
  /\ shaken     = {}

-----------------------------------------------------------------------------
(* Faulty variants, one plausible slip each; no specification uses them.      *)

\* an Accept creates the edge it cannot find
FaultyAccepted == "accepted"

\* replies are stored but not relayed, as before #139
FaultyRelays(p) == held["board"][p] # 0 /\ under["board"][p] = None

\* a mirrored reply keeps its parent only if the mirror has it already
FaultyWireParent(p) == LET up == under["board"][p]
                       IN  IF up # None /\ held["mirror"][up] # 0 THEN up ELSE None

\* the Update's author is compared with the wrong column: nothing matches
FaultyRewritten(s, p, v) == held[s][p]

\* an edit is added to the text it replaces
FaultyAppended(s, p, v) == held[s][p] + v

\* mail is left out of a purge
FaultyPurgeable(d) == {x \in {"timeline", "mirror"} \X Posts :
                         d = HomeOf[x[2]] \/ (x[1] = "mirror" /\ d = "y")}

\* a repeated report is opened again
FaultyRecorded == "open"

\* a relayed Delete is matched against no row
FaultyDropMirrored(p) == held

-----------------------------------------------------------------------------
(* Sending, and what may happen to a delivery.                                *)

Send(l, m)     == wire' = [wire EXCEPT ![l] = Append(@, m)]
Subject(l, m)  == <<l[2], m.post>>

\* A delivery the recipient answers with success; the head unless a retry of an
\* earlier one is still waiting, and again later if the answer got lost.
Received(l, i) ==
  /\ i \in 1 .. Len(wire[l])
  /\ \/ /\ i = 1
        /\ wire' = [wire EXCEPT ![l] = Tail(@)]
        /\ UNCHANGED upsets
     \/ /\ upsets < MaxUpsets
        /\ upsets' = upsets + 1
        /\ wire' = [wire EXCEPT ![l] = IF i = 1 THEN Append(Tail(@), Head(@)) ELSE RemoveAt(@, i)]

\* The disturbance a reception was, if any: one out of turn, or one of several.
Disturbed(l, i) == IF upsets' = upsets THEN {}
                   ELSE {Subject(l, wire[l][j]) : j \in 1 .. i}

\* "ON CONFLICT(ap_id) DO NOTHING": what is held already stays as it is.
Stored(s, p, v) == IF held[s][p] = 0 THEN [held EXCEPT ![s][p] = v] ELSE held

-----------------------------------------------------------------------------
(* x follows the board and leaves it: ap_object::follow and unfollow.         *)

\* follows::request never downgrades an accepted edge.
Requested == IF edge = None THEN "pending" ELSE edge

Follow ==
  /\ asks < MaxAsks
  /\ asks' = asks + 1
  /\ edge' = Requested
  /\ Send(<<"x", "y">>, Msg("Follow", None, 0, None))
  /\ UNCHANGED <<subscribed, accepting, held, under, recent, due, said, policy, purged,
                 upsets, shaken, report>>

\* What the board announces from now on is dropped unread.
Unfollow ==
  /\ edge # None
  /\ edge' = None
  /\ Send(<<"x", "y">>, Msg("Undo", None, 0, None))
  /\ shaken' = shaken \cup {<<"x", p>> : p \in Posts}
  /\ UNCHANGED <<subscribed, accepting, held, under, recent, due, said, policy, purged,
                 asks, upsets, report>>

\* Follow::receive stores the edge ...
ReceiveFollow(i) ==
  LET l == <<"x", "y">> IN
  /\ Received(l, i)
  /\ wire[l][i].act = "Follow"
  /\ subscribed' = TRUE
  /\ accepting'  = TRUE
  /\ shaken' = shaken \cup Disturbed(l, i)
  /\ UNCHANGED <<edge, held, under, recent, due, said, policy, purged, asks, report>>

\* ... and only then queues the Accept.
QueueAccept ==
  /\ accepting
  /\ accepting' = FALSE
  /\ Send(<<"y", "x">>, Msg("Accept", None, 0, None))
  /\ UNCHANGED <<edge, subscribed, held, under, recent, due, said, policy, purged,
                 asks, upsets, shaken, report>>

ReceiveUndo(i) ==
  LET l == <<"x", "y">> IN
  /\ Received(l, i)
  /\ wire[l][i].act = "Undo"
  /\ subscribed' = FALSE
  /\ shaken' = shaken \cup Disturbed(l, i)
  /\ UNCHANGED <<edge, accepting, held, under, recent, due, said, policy, purged, asks, report>>

\* mark_accepted updates an edge that is there; it does not ask which Follow it was.
Accepted == IF edge = None THEN None ELSE "accepted"

ReceiveAccept(i) ==
  LET l == <<"y", "x">> IN
  /\ Received(l, i)
  /\ policy["y"] # "suspend"
  /\ wire[l][i].act = "Accept"
  /\ edge' = Accepted
  /\ shaken' = shaken \cup Disturbed(l, i)
  /\ UNCHANGED <<subscribed, accepting, held, under, recent, due, said, policy, purged,
                 asks, report>>

-----------------------------------------------------------------------------
(* Authors: submissions of x, and posts, edits and withdrawals from z.         *)

\* A Page, or a Note under what it replies to; the object travels whole.
RemoteCreate(p) == Msg("Create", p, 1, ParentOf[p])

\* remote_posting::submit. The budget it checks counts posts on x's own boards.
Submit(p) ==
  /\ HomeOf[p] = "x"
  /\ said[p] = 0
  /\ edge = "accepted"
  /\ said' = [said EXCEPT ![p] = 1]
  /\ Send(<<"x", "y">>, RemoteCreate(p))
  /\ UNCHANGED <<edge, subscribed, accepting, held, under, recent, due, policy, purged,
                 asks, upsets, shaken, report>>

\* z sends to the board and to the author's followers, or to the one addressee.
Tell(m) ==
  wire' = [l \in Links |-> IF l[1] = "z" /\ (l[2] = "y" => m.post \notin Private)
                             THEN Append(wire[l], m) ELSE wire[l]]

Write(p) ==
  /\ HomeOf[p] = "z"
  /\ \/ /\ said[p] = 0
        /\ said' = [said EXCEPT ![p] = 1]
        /\ Tell(Msg("Create", p, 1, ParentOf[p]))
     \/ /\ said[p] \in 1 .. MaxVer - 1
        /\ said' = [said EXCEPT ![p] = @ + 1]
        /\ Tell(Msg("Update", p, said[p] + 1, None))
     \/ /\ said[p] \in 1 .. MaxVer
        /\ said' = [said EXCEPT ![p] = Gone]
        /\ Tell(Msg("Delete", p, 0, None))
  /\ UNCHANGED <<edge, subscribed, accepting, held, under, recent, due, policy, purged,
                 asks, upsets, shaken, report>>

-----------------------------------------------------------------------------
(* The board's side.                                                          *)

OverBudget(p) == Cardinality({q \in recent : HomeOf[q] = HomeOf[p] /\ held["board"][q] # 0})
                   >= MaxPosts

\* receive_board_post up to store_remote_post: over budget or already held, the
\* post is dropped with success; its parent is looked up now or never.
ReceivePost(l, i) ==
  LET m == wire[l][i] IN LET p == m.post IN
  /\ l[2] = "y"
  /\ Received(l, i)
  /\ m.act = "Create"
  /\ IF held["board"][p] = 0 /\ ~OverBudget(p)
       THEN /\ held'   = [held EXCEPT !["board"][p] = m.ver]
            /\ under'  = [under EXCEPT !["board"][p] =
                            IF m.up # None /\ held["board"][m.up] # 0 THEN m.up ELSE None]
            /\ recent' = recent \cup {p}
            /\ due'    = due \cup {p}
       ELSE UNCHANGED <<held, under, recent, due>>
  /\ shaken' = shaken \cup Disturbed(l, i)
                      \cup (IF held'["board"][p] = 0 THEN {<<"y", p>>, <<"x", p>>} ELSE {})
  /\ UNCHANGED <<edge, subscribed, accepting, said, policy, purged, asks, report>>

\* deliver_board_post: a reply with a parent goes out as a Note under it, anything
\* else as a Page; whoever has not been sent its Accept will drop it.
Relays(p)     == held["board"][p] # 0
WireParent(p) == under["board"][p]

BoardAnnounce(p) == Msg("Announced", p, held["board"][p], WireParent(p))

Relay(p) ==
  /\ p \in due
  /\ due' = due \ {p}
  /\ IF Relays(p) /\ subscribed
       THEN Send(<<"y", "x">>, BoardAnnounce(p))
       ELSE UNCHANGED wire
  /\ shaken' = IF accepting \/ ~subscribed THEN shaken \cup {<<"x", p>>} ELSE shaken
  /\ UNCHANGED <<edge, subscribed, accepting, held, under, recent, said, policy, purged,
                 asks, upsets, report>>

\* The foreign key on parent_id keeps a post that has been answered.
Answered(p) == \E q \in Posts : held["board"][q] # 0 /\ under["board"][q] = p

\* The board's Announce of the Delete, which names the post and nothing else.
BoardDelete(p) == Msg("Withdrawn", p, 0, None)

\* A local moderator: prepare_board_delete, delete_message, dispatch.
Moderate(p) ==
  /\ held["board"][p] # 0
  /\ ~Answered(p)
  /\ held' = [held EXCEPT !["board"][p] = 0]
  /\ IF subscribed THEN Send(<<"y", "x">>, BoardDelete(p)) ELSE UNCHANGED wire
  /\ shaken' = shaken \cup {<<"y", p>>}
                      \cup (IF accepting \/ ~subscribed THEN {<<"x", p>>} ELSE {})
  /\ UNCHANGED <<edge, subscribed, accepting, under, recent, due, said, policy, purged,
                 asks, upsets, report>>

WindowPasses ==
  /\ recent # {}
  /\ recent' = {}
  /\ UNCHANGED <<edge, subscribed, accepting, held, under, due, said, wire, policy, purged,
                 asks, upsets, shaken, report>>

-----------------------------------------------------------------------------
(* Edits and withdrawals signed by the author: the first store that holds the  *)
(* post is changed, and no other, and nobody else is told.                    *)

Target(site, p) ==
  LET has == {i \in DOMAIN Stores : SiteOf[Stores[i]] = site /\ held[Stores[i]][p] # 0}
  IN  IF has = {} THEN None ELSE Stores[Min(has)]

Rewritten(s, p, v) == v

ReceiveUpdate(l, i) ==
  LET m == wire[l][i] IN LET s == Target(l[2], m.post) IN
  /\ l[1] = "z"
  /\ l[2] = "x" => policy["z"] # "suspend"
  /\ Received(l, i)
  /\ m.act = "Update"
  /\ held' = IF s = None THEN held ELSE [held EXCEPT ![s][m.post] = Rewritten(s, m.post, m.ver)]
  /\ shaken' = shaken \cup Disturbed(l, i) \cup {<<"x", m.post>> : z \in {l[2]} \cap {"y"}}
  /\ UNCHANGED <<edge, subscribed, accepting, under, recent, due, said, policy, purged,
                 asks, report>>

ReceiveDelete(l, i) ==
  LET m == wire[l][i] IN LET s == Target(l[2], m.post) IN
  /\ l[1] = "z"
  /\ l[2] = "x" => policy["z"] # "suspend"
  /\ Received(l, i)
  /\ m.act = "Delete"
  /\ ~(s = "board" /\ Answered(m.post))
  /\ held' = IF s = None THEN held ELSE [held EXCEPT ![s][m.post] = 0]
  /\ shaken' = shaken \cup Disturbed(l, i) \cup {<<"x", m.post>> : z \in {l[2]} \cap {"y"}}
  /\ UNCHANGED <<edge, subscribed, accepting, under, recent, due, said, policy, purged,
                 asks, report>>

\* What is refused (a suspended sender, a failing statement) is put off behind
\* what else there is to send, and given up in the end.
Refused(l, m) ==
  \/ l[2] = "x" /\ policy[l[1]] = "suspend"
  \/ m.act = "Delete" /\ Target(l[2], m.post) = "board" /\ Answered(m.post)

Refuse(l) ==
  /\ wire[l] # <<>>
  /\ Refused(l, Head(wire[l]))
  /\ \/ wire' = [wire EXCEPT ![l] = Tail(@)]
     \/ Len(wire[l]) > 1 /\ wire' = [wire EXCEPT ![l] = Append(Tail(@), Head(@))]
  /\ shaken' = shaken \cup {Subject(l, m) : m \in Range(wire[l])}
  /\ UNCHANGED <<edge, subscribed, accepting, held, under, recent, due, said, policy, purged,
                 asks, upsets, report>>

-----------------------------------------------------------------------------
(* The mirror's side.                                                         *)

\* Announce::receive: from boards someone here follows, unless silenced.
Heard == edge = "accepted" /\ policy["y"] # "silence"

DropMirrored(p) == [held EXCEPT !["mirror"][p] = 0]

ReceiveAnnounce(i) ==
  LET l == <<"y", "x">> IN LET m == wire[l][i] IN LET p == m.post IN
  /\ Received(l, i)
  /\ policy["y"] # "suspend"
  /\ m.act \in {"Announced", "Withdrawn"}
  /\ CASE ~Heard -> UNCHANGED <<held, under>>
       [] Heard /\ m.act = "Withdrawn" -> held' = DropMirrored(p) /\ UNCHANGED under
       [] OTHER -> /\ held'  = Stored("mirror", p, m.ver)
                   /\ under' = [under EXCEPT !["mirror"][p] = IF held["mirror"][p] = 0 THEN m.up ELSE @]
  /\ shaken' = shaken \cup Disturbed(l, i)
                      \cup (IF policy["y"] = "silence" THEN {<<"x", p>>} ELSE {})
  /\ UNCHANGED <<edge, subscribed, accepting, recent, due, said, policy, purged, asks, report>>

\* Create::receive away from boards: what one user alone is sent is mail, the rest
\* a status. (Its author is followed here.) Silence does not stop mail.
Routed(p)   == IF p \in Private THEN "mail" ELSE "timeline"
TakesMail   == AllowDms
TakesStatus == policy["z"] # "silence"

ReceiveNote(i) ==
  LET l == <<"z", "x">> IN LET m == wire[l][i] IN LET s == Routed(m.post) IN
  /\ Received(l, i)
  /\ policy["z"] # "suspend"
  /\ m.act = "Create"
  /\ LET taken == IF s = "mail" THEN TakesMail ELSE TakesStatus
     IN  /\ held' = IF taken THEN Stored(s, m.post, m.ver) ELSE held
         /\ shaken' = shaken \cup Disturbed(l, i) \cup (IF taken THEN {} ELSE {<<"x", m.post>>})
  /\ UNCHANGED <<edge, subscribed, accepting, under, recent, due, said, policy, purged, asks, report>>

-----------------------------------------------------------------------------
(* x's operator: bbsctl ap-block, ap-unblock and ap-purge.                    *)

SetPolicy(d, kind) ==
  /\ upsets < MaxUpsets
  /\ policy[d] # kind
  /\ upsets' = upsets + 1
  /\ policy' = [policy EXCEPT ![d] = kind]
  /\ purged' = IF kind = "suspend" THEN purged ELSE purged \ {d}
  /\ UNCHANGED <<edge, subscribed, accepting, held, under, recent, due, said, wire, asks, shaken, report>>

\* purge_domain: by the author's server, in mirrors by the board's as well.
Purgeable(d) == {x \in {"timeline", "mirror", "mail"} \X Posts :
                   d = HomeOf[x[2]] \/ (x[1] = "mirror" /\ d = "y")}

Purge(d) ==
  /\ \E s \in DOMAIN SiteOf, p \in Posts : SiteOf[s] = "x" /\ held[s][p] # 0
  /\ held' = [s \in DOMAIN held |-> [p \in Posts |->
                IF <<s, p>> \in Purgeable(d) THEN 0 ELSE held[s][p]]]
  /\ purged' = IF policy[d] = "suspend" THEN purged \cup {d} ELSE purged
  /\ shaken' = shaken \cup {<<"x", p>> : p \in Posts}
  /\ UNCHANGED <<edge, subscribed, accepting, under, recent, due, said, wire, policy, asks,
                 upsets, report>>

\* Flag::receive: a report is recorded once, and nothing is done about it; the
\* operator's ap-resolve closes it.
Recorded == IF report = None THEN "open" ELSE report

ReceiveFlag ==
  /\ policy["z"] # "suspend"
  /\ report' = Recorded
  /\ UNCHANGED <<edge, subscribed, accepting, held, under, recent, due, said, wire, policy,
                 purged, asks, upsets, shaken>>

Resolve ==
  /\ report = "open"
  /\ report' = "resolved"
  /\ UNCHANGED <<edge, subscribed, accepting, held, under, recent, due, said, wire, policy,
                 purged, asks, upsets, shaken>>

-----------------------------------------------------------------------------
(* Faults: a delivery given up, a crash of y between two statements.           *)

GiveUp(l) ==
  /\ wire[l] # <<>>
  /\ upsets < MaxUpsets
  /\ upsets' = upsets + 1
  /\ wire' = [wire EXCEPT ![l] = Tail(@)]
  /\ shaken' = shaken \cup {Subject(l, Head(wire[l]))}
  /\ UNCHANGED <<edge, subscribed, accepting, held, under, recent, due, said, policy, purged,
                 asks, report>>

\* What was stored and not announced will not be: a repeated Create finds it held.
Crash ==
  /\ upsets < MaxUpsets
  /\ due # {} \/ accepting
  /\ upsets' = upsets + 1
  /\ due' = {}
  /\ accepting' = FALSE
  /\ shaken' = shaken \cup {<<"x", p>> : p \in due}
                      \cup (IF accepting THEN {<<"y", None>>} ELSE {})
  /\ UNCHANGED <<edge, subscribed, held, under, recent, said, wire, policy, purged, asks, report>>

-----------------------------------------------------------------------------
Receive(l, i) ==
  \/ ReceiveFollow(i) /\ l = <<"x", "y">>
  \/ ReceiveUndo(i) /\ l = <<"x", "y">>
  \/ ReceiveAccept(i) /\ l = <<"y", "x">>
  \/ ReceiveAnnounce(i) /\ l = <<"y", "x">>
  \/ ReceiveNote(i) /\ l = <<"z", "x">>
  \/ ReceivePost(l, i) \/ ReceiveUpdate(l, i) \/ ReceiveDelete(l, i)

\* The operator at bbsctl: ap-allow to ap-unblock, ap-follow and ap-unfollow,
\* ap-resolve and ap-purge.
ChangePolicy  == \E d \in {"y", "z"}, k \in {"open", "silence", "suspend"} : SetPolicy(d, k)
ChangeFollow  == Follow \/ Unfollow
Clean         == Resolve \/ \E d \in {"y", "z"} : Purge(d)

Next ==
  \/ ChangePolicy \/ ChangeFollow \/ Clean
  \/ QueueAccept \/ WindowPasses \/ Crash \/ ReceiveFlag
  \/ \E p \in Posts : Submit(p) \/ Write(p) \/ Relay(p) \/ Moderate(p)
  \/ \E l \in Links : \/ \E i \in DOMAIN wire[l] : Receive(l, i)
                      \/ Refuse(l) \/ GiveUp(l)

Spec == Init /\ [][Next]_vars

-----------------------------------------------------------------------------
(* Properties. *)

TypeOK ==
  /\ edge \in {None, "pending", "accepted"}
  /\ subscribed \in BOOLEAN /\ accepting \in BOOLEAN
  /\ held \in [Range(Stores) -> [Posts -> 0 .. MaxVer]]
  /\ under \in [{"board", "mirror"} -> [Posts -> Posts \cup {None}]]
  /\ recent \subseteq Posts /\ due \subseteq Posts
  /\ said \in [Posts -> 0 .. Gone]
  /\ \A l \in Links : \A m \in Range(wire[l]) : m.post \in Posts \cup {None}
  /\ policy \in [{"y", "z"} -> {"open", "silence", "suspend"}]
  /\ purged \subseteq {d \in DOMAIN policy : policy[d] = "suspend"}
  /\ report \in {None, "open", "resolved"}
  /\ shaken \subseteq {"x", "y"} \X (Posts \cup {None})

Settled   == shaken \cap ({"x", "y"} \X {None}) = {}   \* the handshake went undisturbed
OnWire(p) == \E l \in Links : \E m \in Range(wire[l]) : m.post = p

\* Once all is delivered, in order and once, both ends of a follow agree on it, also
\* after leaving and asking again with an old Accept still to come (follows::request,
\* mark_accepted, accept, remove).
EdgesAgree ==
  ~accepting /\ ~OnWire(None) /\ Settled
    => (edge = "accepted" <=> subscribed) /\ edge # "pending"

\* The author's last word is what the board, the timeline and the mailbox hold, once
\* what the author sent has arrived in order (Create, Update and Delete::receive).
AuthorsWordHolds ==
  \A p \in Posts, s \in {"board", "timeline", "mail"} :
    /\ ~OnWire(p)
    /\ <<SiteOf[s], p>> \notin shaken
    /\ s = "board" => p \notin Private
    /\ s # "board" => HomeOf[p] = "z" /\ (s = "mail" <=> p \in Private)
    => held[s][p] = IF said[p] = Gone THEN 0 ELSE said[p]

\* A subscriber holds what the board holds, when the board has announced it and
\* nobody but the board's own staff withdrew it (Relay, Announce::receive).
MirrorAgrees ==
  \A p \in Posts \ Private :
    /\ ~OnWire(p)
    /\ p \notin due
    /\ Settled
    /\ <<"x", p>> \notin shaken
    => held["mirror"][p] = held["board"][p]

\* Where a reader sees a post: under its parent if that is held, else as a root.
ShownUnder(s, p) == LET up == under[s][p]
                    IN  IF up # None /\ held[s][up] # 0 THEN up ELSE None

\* A reply hangs under the same post in a mirror as on the board, in whatever order
\* the two were announced (store_remote_post, board_item_for, mirror::thread).
ThreadsJoin ==
  \A p \in Posts :
    LET up == ShownUnder("board", p) IN
    /\ held["mirror"][p] # 0 /\ held["board"][p] # 0 /\ <<"y", p>> \notin shaken
    /\ up # None /\ held["mirror"][up] # 0
    => ShownUnder("mirror", p) = up

\* Once a server is suspended and then purged, nothing it sends comes back, whatever
\* was on its way (AllowlistVerifier, purge_domain).  A delivery is one step here: one
\* let in before the suspension and still being handled is not seen.
PurgedStaysOut ==
  \A d \in purged, p \in Posts :
    /\ d = HomeOf[p] => held["timeline"][p] = 0 /\ held["mail"][p] = 0
    /\ d = "y" => held["mirror"][p] = 0

\* A report that was dealt with is not opened again by its redelivery (record_report).
ResolvedStays == [][report = "resolved" => report' = "resolved"]_vars

\* "A board relays its members' Delete/Update so a post withdrawn upstream doesn't
\* linger in every subscriber's mirror" (docs/FEDERATION.md): with every delivery made
\* at once and in order, no mirror keeps what author and board no longer have.
LingersNowhere ==
  \A p \in Posts :
    said[p] = Gone /\ held["board"][p] = 0 /\ p \notin due /\ ~OnWire(p) /\ upsets = 0
      => held["mirror"][p] = 0

=============================================================================
