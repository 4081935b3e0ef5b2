----------------------------- MODULE Syndication -----------------------------
(***************************************************************************)
(* A post on a federated board, from the hub where it lives to the mirrors *)
(* of the boards that subscribe to it.  The author's session posts, edits  *)
(* and deletes it, an admin's session may delete it; each fans what it did *)
(* out to the subscribers as rows of the DeliveryQueue, and a subscriber   *)
(* applies the activities to its mirror in the order they arrive.          *)
(*                                                                         *)
(* The sessions await the database between their steps, so the two of them *)
(* and the drain interleave.                                               *)
(***************************************************************************)
EXTENDS Naturals, FiniteSets

CONSTANTS
  Inboxes,      \* inboxes of the board's subscribers
  MaxEdits,     \* bound: edits of the post
  AdminActs,    \* may an admin delete the post?
  Lossy,        \* may a POST fail?
  MaxAttempts, Batch, Base, BackoffCap, MaxFaults

\* What the hub announces: the post with its first text, an edit's text, or that
\* it is gone.  Texts are numbered; the first is 0.
Activities == {<<"create", 0>>, <<"delete", 0>>} \cup ({"update"} \X (1 .. MaxEdits))
Deliveries == Activities \X Inboxes

Actors == {"author", "admin"}
Absent == MaxEdits + 1   \* no post, no row

VARIABLES
  post,    \* the hub's row of messages: its text, or Absent
  posted,  \* was it ever posted?
  uri,     \* does the row have its ap_id?
  doing,   \* what each session is in the middle of
  act,     \* the activity it has built
  left,    \* inboxes it has still to enqueue that for
  mirror,  \* each subscriber's row of ap_board_posts: its text, or Absent
  cut,     \* history: what ever disturbed a session's work: a crash, an error, or
           \* a race with the other session
  queue, id, attempts, wait, pass, outcome, up, faults, accepted, posts, fails,
  got, refused

hub == <<post, posted, uri, doing, act, left, cut>>
queueVars == <<queue, id, attempts, wait, pass, outcome, up, faults, accepted,
               posts, fails, got, refused>>
hubVars == <<hub, mirror, queueVars>>

Queue == INSTANCE DeliveryQueue

ASSUME HubAssumption ==
  /\ IsFiniteSet(Inboxes)
  /\ Inboxes # {}      \* without a subscriber nothing is built
  /\ MaxEdits \in Nat
  /\ Queue!QueueAssumption
  /\ Queue!ShiftAssumption

-----------------------------------------------------------------------------
HubInit ==
  /\ post   = Absent
  /\ posted = FALSE
  /\ uri    = FALSE
  /\ doing  = [p \in Actors |-> "idle"]
  /\ act    = [p \in Actors |-> <<"create", 0>>]
  /\ left   = [p \in Actors |-> {}]
  /\ mirror = [i \in Inboxes |-> Absent]
  /\ cut    = {}
  /\ Queue!Init

\* Session p goes from one step of what it is doing to another.
Step(p, from, to) ==
  /\ up
  /\ doing[p] = from
  /\ doing' = [doing EXCEPT ![p] = to]

\* Session p begins something, perhaps while the other is in the middle of its own.
Begin(p, to) ==
  /\ Step(p, "idle", to)
  /\ cut' = IF \E q \in Actors \ {p} : doing[q] # "idle" THEN cut \cup {"race"} ELSE cut

\* It has built an activity for every subscriber.
Address(p, activity) ==
  /\ act'  = [act EXCEPT ![p] = activity]
  /\ left' = [left EXCEPT ![p] = Inboxes]

-----------------------------------------------------------------------------
(* The sessions on the hub. *)

\* submit_post inserts the row.
SubmitPost ==
  /\ Begin("author", "read")
  /\ ~posted
  /\ posted' = TRUE
  /\ post'   = 0
  /\ UNCHANGED <<uri, act, left, mirror, queueVars>>

\* submit_edit changes its text.
Edit ==
  /\ Begin("author", "read")
  /\ post < MaxEdits
  /\ post' = post + 1
  /\ UNCHANGED <<posted, uri, act, left, mirror, queueVars>>

\* Faulty: an edit is not announced.
FaultyRead ==
  \/ /\ Step("author", "read", "mint")
     /\ post = 0
     /\ Address("author", <<"create", 0>>)
     /\ UNCHANGED <<post, posted, uri, mirror, cut, queueVars>>
  \/ /\ Step("author", "read", "idle")
     /\ post # 0
     /\ UNCHANGED <<post, posted, uri, act, left, mirror, cut, queueVars>>

\* deliver_board_post and deliver_board_update load the message, ...
Read ==
  \/ /\ Step("author", "read", "mint")
     /\ post # Absent
     /\ Address("author", IF post = 0 THEN <<"create", 0>> ELSE <<"update", post>>)
     /\ UNCHANGED <<post, posted, uri, mirror, cut, queueVars>>
  \/ /\ Step("author", "read", "idle")
     /\ post = Absent
     /\ UNCHANGED <<post, posted, uri, act, left, mirror, cut, queueVars>>

\* ... make sure that it has its ap_id, ...
Mint ==
  \/ /\ Step("author", "mint", "enqueue")
     /\ post # Absent
     /\ uri' = TRUE
     /\ UNCHANGED <<post, posted, act, left, mirror, cut, queueVars>>
  \/ /\ Step("author", "mint", "idle")
     /\ post = Absent
     /\ left' = [left EXCEPT !["author"] = {}]
     /\ UNCHANGED <<post, posted, uri, act, mirror, cut, queueVars>>

\* Faulty: the fan-out does not end with its last inbox.
FaultyEnqueueNext(p) ==
  \E i \in left[p] :
     /\ doing[p] = "enqueue"
     /\ Queue!Enqueue(<<act[p], i>>)
     /\ left'  = [left EXCEPT ![p] = @ \ {i}]
     /\ UNCHANGED <<post, posted, uri, doing, act, mirror, cut>>

\* ... and enqueue one row per inbox.
EnqueueNext(p) ==
  \E i \in left[p] :
     /\ doing[p] = "enqueue"
     /\ Queue!Enqueue(<<act[p], i>>)
     /\ left'  = [left EXCEPT ![p] = @ \ {i}]
     /\ doing' = [doing EXCEPT ![p] = IF left[p] = {i} THEN "idle" ELSE @]
     /\ UNCHANGED <<post, posted, uri, act, mirror, cut>>

\* Faulty: the withdrawal is built only after the row is gone.
FaultyPrepareLate(p) ==
  /\ Begin(p, "delete")
  /\ p = "admin" => AdminActs
  /\ post # Absent
  /\ UNCHANGED <<post, posted, uri, act, left, mirror, queueVars>>

\* Faulty: the withdrawal is enqueued before the row is deleted.
FaultyPrepareEarly(p) ==
  /\ Begin(p, IF uri THEN "enqueue" ELSE "delete")
  /\ p = "admin" => AdminActs
  /\ post # Absent
  /\ IF uri THEN Address(p, <<"delete", 0>>) ELSE UNCHANGED <<act, left>>
  /\ UNCHANGED <<post, posted, uri, mirror, queueVars>>

\* delete_post builds the withdrawal of a post that has its ap_id, ...
Prepare(p) ==
  /\ Begin(p, "delete")
  /\ p = "admin" => AdminActs
  /\ post # Absent
  /\ IF uri THEN Address(p, <<"delete", 0>>) ELSE UNCHANGED <<act, left>>
  /\ UNCHANGED <<post, posted, uri, mirror, queueVars>>

\* ... deletes the row, and goes on to enqueue what it had built.
Delete(p) ==
  \/ /\ Step(p, "delete", IF left[p] = {} THEN "idle" ELSE "enqueue")
     /\ post # Absent
     /\ post' = Absent
     /\ UNCHANGED <<posted, uri, act, left, mirror, cut, queueVars>>
  \/ /\ Step(p, "delete", "idle")
     /\ post = Absent
     /\ left' = [left EXCEPT ![p] = {}]
     /\ UNCHANGED <<post, posted, uri, act, mirror, cut, queueVars>>

\* The database refuses a statement of it: what it has done so far stays, the
\* rest of its fan-out is only logged.
StatementFails(p) ==
  /\ Step(p, doing[p], "idle")
  /\ doing[p] # "idle"
  /\ faults < MaxFaults
  /\ faults' = faults + 1
  /\ left'   = [left EXCEPT ![p] = {}]
  /\ cut'    = cut \cup {"error"}
  /\ UNCHANGED <<post, posted, uri, act, mirror, queue, id, attempts, wait, pass,
                 outcome, up, accepted, posts, fails, got, refused>>

Session ==
  \/ SubmitPost
  \/ Edit
  \/ Read
  \/ Mint
  \/ \E p \in Actors : EnqueueNext(p) \/ Prepare(p) \/ Delete(p) \/ StatementFails(p)

-----------------------------------------------------------------------------
(* The subscribers. *)

\* mirror::insert (ON CONFLICT DO NOTHING), update_announced, delete_announced.
Apply(activity, text) ==
  CASE activity[1] = "create" -> IF text = Absent THEN activity[2] ELSE text
    [] activity[1] = "update" -> IF text = Absent THEN Absent ELSE activity[2]
    [] activity[1] = "delete" -> Absent

\* A POST of the drain, which the subscriber handles if it arrives.
Post(d, arrives, result) ==
  /\ Queue!Post(d, arrives, result)
  /\ mirror' = [mirror EXCEPT ![d[2]] = IF arrives THEN Apply(d[1], @) ELSE @]
  /\ UNCHANGED hub

Deliver ==
  \E d \in pass : \/ Post(d, TRUE, "ok")
                  \/ Lossy /\ \E arrives \in BOOLEAN : Post(d, arrives, "error")

\* The rest of the drain.  Subscribers are allowed: there is no Refuse.
DrainRest ==
  /\ \/ Queue!StartPass
     \/ \E d \in pass : Queue!MarkDelivered(d) \/ Queue!MarkFailed(d)
     \/ Queue!PassFails
  /\ UNCHANGED <<hub, mirror>>

-----------------------------------------------------------------------------
\* A crash ends the sessions and the pass.
HubCrash ==
  /\ Queue!Crash
  /\ doing' = [p \in Actors |-> "idle"]
  /\ left'  = [p \in Actors |-> {}]
  /\ cut'   = IF \E p \in Actors : doing[p] # "idle" THEN cut \cup {"crash"} ELSE cut
  /\ UNCHANGED <<post, posted, uri, act, mirror>>

Restart == Queue!Restart /\ UNCHANGED <<hub, mirror>>

Elapse == Queue!Elapse /\ UNCHANGED <<hub, mirror>>

HubNext == Session \/ Deliver \/ DrainRest \/ HubCrash \/ Restart \/ Elapse

Fairness ==
  /\ \A p \in Actors : WF_hubVars(EnqueueNext(p)) /\ WF_hubVars(Delete(p))
  /\ WF_hubVars(Read) /\ WF_hubVars(Mint)
  /\ WF_hubVars(Deliver \/ DrainRest)
  /\ WF_hubVars(Restart)
  /\ WF_hubVars(Elapse)

HubSpec == HubInit /\ [][HubNext]_hubVars /\ Fairness

-----------------------------------------------------------------------------
(* Properties. *)

HubTypeOK ==
  /\ post \in 0 .. Absent
  /\ posted \in BOOLEAN
  /\ uri \in BOOLEAN
  /\ doing \in [Actors -> {"idle", "read", "mint", "enqueue", "delete"}]
  /\ act \in [Actors -> Activities]
  /\ left \in [Actors -> SUBSET Inboxes]
  /\ \A p \in Actors : doing[p] = "enqueue" => left[p] # {}
  /\ mirror \in [Inboxes -> 0 .. Absent]
  /\ cut \subseteq {"crash", "error", "race"}

\* Nothing is under way for inbox i any more.
NothingUnderWay(i) ==
  /\ \A p \in Actors : doing[p] = "idle"
  /\ \A d \in queue : d[2] # i

Retried(i) == \E a \in Activities : fails[<<a, i>>] > 0

\* A subscriber that no delivery failed for shows what the hub shows, as long as
\* the sessions' work was not disturbed: other subscribers being down, repeated
\* deliveries and restarts of the drain do not matter to it ("one row per (activity, inbox) ... one dead server can't stall the
\* other 49").
SteadyPeerAgrees ==
  \A i \in Inboxes : NothingUnderWay(i) /\ ~Retried(i) /\ cut = {} => mirror[i] = post

\* Subscribers are told to drop a post only once it is gone on the hub, whoever
\* deletes it and whatever crashes in between.
WithdrawalsAreReal ==
  \A i \in Inboxes : <<<<"delete", 0>>, i>> \in accepted => post = Absent

\* What the comments promise of every subscriber that was reached in the end: an
\* edit refreshes its mirror, and a post that was withdrawn is "withdrawn
\* everywhere" (prepare_board_delete).
Reached(i) == \A d \in accepted : d[2] = i => got[d] > 0

WithdrawnEverywhere ==
  \A i \in Inboxes :
     NothingUnderWay(i) /\ Reached(i) /\ posted /\ post = Absent => mirror[i] = Absent

\* "a restart never silently drops deliveries" (run_delivery_queue): an activity
\* that is enqueued for one subscriber is enqueued for all of them.
RestartDropsNothing ==
  \A a \in Activities :
     /\ \A p \in Actors : doing[p] = "idle"
     /\ "error" \notin cut
     /\ \E i \in Inboxes : <<a, i>> \in accepted
     => \A i \in Inboxes : <<a, i>> \in accepted

\* A change of the post reaches its steady subscribers in the end.
Converges ==
  \A i \in Inboxes :
     (posted /\ cut = {}) ~> (Retried(i) \/ cut # {} \/ mirror[i] = post)

=============================================================================
