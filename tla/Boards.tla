------------------------------- MODULE Boards -------------------------------
(***************************************************************************)
(* The message boards and the voting booth: posts and their threads, who   *)
(* has read what, reactions, polls and votes, and what moderators do.      *)
(* Several sessions, several of them perhaps of one user, the inbox and    *)
(* the operator's bbsctl work on the same tables.                          *)
(*                                                                         *)
(* A service function is a few SQL statements; each is atomic and nothing  *)
(* (but the two transactions of the polls) holds them together.  What a    *)
(* function reads in one statement and acts on in a later one is kept in   *)
(* the session's job.  Foreign keys are enforced, as sqlx does by default: *)
(* a row that would dangle is refused, reactions, options and votes go     *)
(* with the row they belong to, and a post with replies cannot be deleted. *)
(***************************************************************************)
EXTENDS Naturals, Sequences, FiniteSets, SequencesExt

CONSTANTS
  Sessions, UserOf,   \* logged-in sessions, and whose they are
  Users, Admins,      \* local accounts (no guest: it may only read)
  Stranger,           \* the author of posts that peers send
  BoardIds,
  Window, MaxPerWindow,   \* [limits]: the window, and posts, polls or
                          \* reactions a user may make in one
  MaxPosts,           \* bound: rows ever inserted into messages
  MaxNow              \* bound: seconds the clock advances

ASSUME BoardsAssumption ==
  /\ IsFiniteSet(Sessions)
  /\ UserOf \in [Sessions -> Users]
  /\ Admins \subseteq Users
  /\ Stranger \notin Users
  /\ {Window, MaxPerWindow, MaxPosts, MaxNow} \subseteq Nat

Ids     == 1 .. MaxPosts
Options == {1, 2}
None    == 0

VARIABLES
  now,
  posts,    \* rows of messages
  made,     \* the AUTOINCREMENT counter of messages
  lock,     \* boards.locked
  staff,    \* boards whose min_write_role is admin
  seen,     \* user_board_seen: the watermark of a user on a board
  reacts,   \* message_reactions (of one kind)
  poll,     \* the one poll: none yet, open, closed or gone
  votes,    \* poll_votes
  job,      \* what each session is doing, with the values it has read
  shown     \* history: posts a finished visit has shown a user

rows  == <<posts, made>>
booth == <<poll, votes>>
vars  == <<now, rows, lock, staff, seen, reacts, booth, job, shown>>

Idle  == [at |-> "idle"]

Init ==
  /\ now    = 0
  /\ posts  = {}
  /\ made   = 0
  /\ lock   = [b \in BoardIds |-> FALSE]
  /\ staff  = {}
  /\ seen   = [x \in Users \X BoardIds |-> 0]
  /\ reacts = {}
  /\ poll   = "none"
  /\ votes  = [u \in Users |-> None]
  /\ job    = [s \in Sessions |-> Idle]
  /\ shown  = [u \in Users |-> {}]

Becomes(s, j) == job' = [job EXCEPT ![s] = j]
Done(s)       == Becomes(s, Idle)
IsAdmin(s)    == UserOf[s] \in Admins

-----------------------------------------------------------------------------
(* Reading. *)

Post(i)    == CHOOSE p \in posts : p.id = i
Exists(i)  == \E p \in posts : p.id = i
OnBoard(b) == {p \in posts : p.board = b}

\* The posts of S in order: after[p] are those to come after p.
Listing(S, after) ==
  CHOOSE s \in [1 .. Cardinality(S) -> S] :
     \A i, j \in DOMAIN s : i < j => s[j] \in after[s[i]]

\* list_messages: pinned first, then the newest.
Flat(S) ==
  Listing(S, [p \in S |-> {q \in S : \/ p.pinned /\ ~q.pinned
                                     \/ p.pinned = q.pinned /\ p.id > q.id}])

\* A fault: the listing trusts the parent's id.
FaultyParentOn(b, p) == p.parent

\* A reply whose parent is not among the board's posts counts as a root.
ParentOn(b, p) ==
  IF \E q \in OnBoard(b) : q.id = p.parent THEN p.parent ELSE None

Under(b, i) == {p \in OnBoard(b) : ParentOn(b, p) = i}

\* The replies to a post, from the oldest on.
RepliesTo(b, i) ==
  Listing(Under(b, i), [p \in Under(b, i) |-> {q \in Under(b, i) : p.id < q.id}])

\* list_thread: depth first.  The loop pops a post off the stack, lists it and
\* pushes its replies; it ends when the stack is empty.
Pop(b, w) ==
  IF w.stack = <<>> THEN w
  ELSE [order |-> Append(w.order, Head(w.stack)),
        stack |-> RepliesTo(b, Head(w.stack).id) \o Tail(w.stack)]

Walk(b) ==
  LET walk[n \in 0 .. Cardinality(OnBoard(b))] ==
        IF n = 0 THEN [order |-> <<>>, stack |-> Flat(Under(b, None))]
        ELSE Pop(b, walk[n - 1])
  IN walk[Cardinality(OnBoard(b))]

\* unread_counts, by post.
Unread(u, p) == p.author # u /\ p.at > seen[<<u, p.board>>]

\* A row younger than the start of the window counts against the limit.
InWindow(t)   == t + Window >= now
Recent(u)     == Cardinality({p \in posts : p.author = u /\ InWindow(p.at)})
\* A window or a limit of zero disables the limit.
Unlimited     == 0 \in {Window, MaxPerWindow}
\* A fault: one too many.
FaultyMayPost(s) ==
  Unlimited \/ IsAdmin(s) \/ Recent(UserOf[s]) <= MaxPerWindow
MayPost(s)    == Unlimited \/ IsAdmin(s) \/ Recent(UserOf[s]) < MaxPerWindow
RecentReacts(u) == Cardinality({r \in reacts : r.by = u /\ InWindow(r.at)})

-----------------------------------------------------------------------------
(* Posting: post_message looks at the board, the parent and the rate, and   *)
(* then inserts.  Edits and an author's own deletion are one statement.     *)

\* A reply is to a post that was listed, and perhaps deleted since.
CheckBoard(s, b, parent) ==
  /\ job[s] = Idle
  /\ parent <= made
  /\ lock[b] => IsAdmin(s)
  /\ b \in staff => IsAdmin(s)
  /\ Becomes(s, [at |-> IF parent = None THEN "rate" ELSE "parent",
                 board |-> b, parent |-> parent])
  /\ UNCHANGED <<now, rows, lock, staff, seen, reacts, booth, shown>>

\* "A reply must target a message on the same board."
CheckParent(s) ==
  /\ job[s].at = "parent"
  /\ IF \E p \in OnBoard(job[s].board) : p.id = job[s].parent
     THEN Becomes(s, [job[s] EXCEPT !.at = "rate"])
     ELSE Done(s)
  /\ UNCHANGED <<now, rows, lock, staff, seen, reacts, booth, shown>>

CheckRate(s) ==
  /\ job[s].at = "rate"
  /\ IF MayPost(s) THEN Becomes(s, [job[s] EXCEPT !.at = "insert"]) ELSE Done(s)
  /\ UNCHANGED <<now, rows, lock, staff, seen, reacts, booth, shown>>

NewPost(b, u, parent) ==
  [id |-> made + 1, board |-> b, author |-> u, at |-> now, parent |-> parent,
   pinned |-> FALSE, edited |-> FALSE]

InsertPost(s) ==
  /\ job[s].at = "insert"
  /\ IF job[s].parent = None \/ Exists(job[s].parent)
     THEN /\ made < MaxPosts
          /\ posts' = posts \cup
                      {NewPost(job[s].board, UserOf[s], job[s].parent)}
          /\ made' = made + 1
     ELSE UNCHANGED rows
  /\ Done(s)
  /\ UNCHANGED <<now, lock, staff, seen, reacts, booth, shown>>

\* store_remote_post: a peer's post comes past the lock and the roles, held to
\* the same rate.  Its parent may be a post of any board, or one never seen.
StoreRemotePost(b, parent) ==
  /\ made < MaxPosts
  /\ parent # None => Exists(parent)
  /\ Unlimited \/ Recent(Stranger) < MaxPerWindow
  /\ posts' = posts \cup {NewPost(b, Stranger, parent)}
  /\ made' = made + 1
  /\ UNCHANGED <<now, lock, staff, seen, reacts, booth, job, shown>>

OwnHere(s, p) == p.author = UserOf[s] /\ ~lock[p.board]

EditOwnMessage(s, p) ==
  /\ job[s] = Idle
  /\ OwnHere(s, p)
  /\ posts' = (posts \ {p}) \cup {[p EXCEPT !.edited = TRUE]}
  /\ UNCHANGED <<now, made, lock, staff, seen, reacts, booth, job, shown>>

\* A post somebody answered stays: its replies refer to it, and the statement
\* fails.  Reactions go with the post.
Answered(p) == \E q \in posts : q.parent = p.id

DeleteRow(p) ==
  /\ ~Answered(p)
  /\ posts' = posts \ {p}
  /\ reacts' = {r \in reacts : r.post # p.id}

\* delete_message for an admin, delete_own_message for anybody else; then
\* clear_for_message.
DeletePost(s, p) ==
  /\ job[s] = Idle
  /\ IsAdmin(s) \/ OwnHere(s, p)
  /\ DeleteRow(p)
  /\ Becomes(s, [at |-> "clear", post |-> p.id])
  /\ UNCHANGED <<now, made, lock, staff, seen, booth, shown>>

RefuseDelete(s, p) ==
  /\ job[s] = Idle
  /\ IsAdmin(s) \/ OwnHere(s, p)
  /\ Answered(p)
  /\ Becomes(s, [at |-> "refused", post |-> p.id])
  /\ UNCHANGED <<now, rows, lock, staff, seen, reacts, booth, shown>>

ReportRefusal(s) ==
  /\ job[s].at = "refused"
  /\ Done(s)
  /\ UNCHANGED <<now, rows, lock, staff, seen, reacts, booth, shown>>

ClearForMessage(s) ==
  /\ job[s].at = "clear"
  /\ reacts' = {r \in reacts : r.post # job[s].post}
  /\ Done(s)
  /\ UNCHANGED <<now, rows, lock, staff, seen, booth, shown>>

-----------------------------------------------------------------------------
(* A visit to a board: list it, take the time, move the watermark.          *)

ListBoard(s, b) ==
  /\ job[s] = Idle
  /\ Becomes(s, [at |-> "stamp", board |-> b,
                 list |-> {p.id : p \in OnBoard(b)}])
  /\ UNCHANGED <<now, rows, lock, staff, seen, reacts, booth, shown>>

StampVisit(s) ==
  /\ job[s].at = "stamp"
  /\ Becomes(s, [at |-> "mark", board |-> job[s].board,
                 list |-> job[s].list, time |-> now])
  /\ UNCHANGED <<now, rows, lock, staff, seen, reacts, booth, shown>>

\* A fault: the last writer wins.
FaultyWatermark(old, t) == t

\* The watermark only moves forward.
Watermark(old, t) == IF t > old THEN t ELSE old

MarkBoardSeen(s) ==
  LET u == UserOf[s] IN
  /\ job[s].at = "mark"
  /\ seen'  = [seen EXCEPT ![<<u, job[s].board>>] = Watermark(@, job[s].time)]
  /\ shown' = [shown EXCEPT ![u] = @ \cup job[s].list]
  /\ Done(s)
  /\ UNCHANGED <<now, rows, lock, staff, reacts, booth>>

-----------------------------------------------------------------------------
(* Reactions: toggle looks, then removes or adds.                           *)

LookAtReaction(s, i) ==
  /\ job[s] = Idle
  /\ Exists(i)
  /\ LET there == \E r \in reacts : r.post = i /\ r.by = UserOf[s] IN
     /\ there \/ Unlimited \/ IsAdmin(s) \/ RecentReacts(UserOf[s]) < MaxPerWindow
     /\ Becomes(s, [at |-> IF there THEN "unreact" ELSE "react", post |-> i])
  /\ UNCHANGED <<now, rows, lock, staff, seen, reacts, booth, shown>>

\* A fault: foreign keys are off, as the comment on clear_for_message has it.
FaultyReact(s) ==
  LET mine == {r \in reacts : r.post = job[s].post /\ r.by = UserOf[s]} IN
  /\ job[s].at = "react"
  /\ reacts' = IF mine = {}
               THEN reacts \cup
                    {[post |-> job[s].post, by |-> UserOf[s], at |-> now]}
               ELSE reacts
  /\ Done(s)
  /\ UNCHANGED <<now, rows, lock, staff, seen, booth, shown>>

\* The primary key refuses a second reaction of the user, the foreign key one
\* to a post that is gone.
React(s) ==
  LET mine == {r \in reacts : r.post = job[s].post /\ r.by = UserOf[s]} IN
  /\ job[s].at = "react"
  /\ reacts' = IF mine = {} /\ Exists(job[s].post)
               THEN reacts \cup
                    {[post |-> job[s].post, by |-> UserOf[s], at |-> now]}
               ELSE reacts
  /\ Done(s)
  /\ UNCHANGED <<now, rows, lock, staff, seen, booth, shown>>

Unreact(s) ==
  /\ job[s].at = "unreact"
  /\ reacts' = {r \in reacts : ~(r.post = job[s].post /\ r.by = UserOf[s])}
  /\ Done(s)
  /\ UNCHANGED <<now, rows, lock, staff, seen, booth, shown>>

-----------------------------------------------------------------------------
(* Polls.  One is enough to vote in, close and delete; poll and options are *)
(* made, and deleted with the votes, in a transaction.                      *)

CreatePoll(s) ==
  /\ job[s] = Idle
  /\ poll = "none"
  /\ poll' = "open"
  /\ UNCHANGED <<now, rows, lock, staff, seen, reacts, votes, job, shown>>

CheckVote(s, c) ==
  /\ job[s] = Idle
  /\ poll = "open"
  /\ Becomes(s, [at |-> "cast", choice |-> c])
  /\ UNCHANGED <<now, rows, lock, staff, seen, reacts, booth, shown>>

\* The upsert: a user has one vote.  A poll deleted meanwhile refuses it.
CastVote(s) ==
  /\ job[s].at = "cast"
  /\ votes' = IF poll = "gone" THEN votes
              ELSE [votes EXCEPT ![UserOf[s]] = job[s].choice]
  /\ Done(s)
  /\ UNCHANGED <<now, rows, lock, staff, seen, reacts, poll, shown>>

\* By its author, an admin, or bbsctl.
ClosePoll ==
  /\ poll = "open"
  /\ poll' = "closed"
  /\ UNCHANGED <<now, rows, lock, staff, seen, reacts, votes, job, shown>>

DeletePoll ==
  /\ poll \in {"open", "closed"}
  /\ poll' = "gone"
  /\ votes' = [u \in Users |-> None]
  /\ UNCHANGED <<now, rows, lock, staff, seen, reacts, job, shown>>

-----------------------------------------------------------------------------
(* Moderation, from an admin's session or by bbsctl.                        *)

SetLocked(b, on) ==
  /\ lock[b] # on
  /\ lock' = [lock EXCEPT ![b] = on]
  /\ UNCHANGED <<now, rows, staff, seen, reacts, booth, job, shown>>

SetRoles(b) ==
  /\ staff' = IF b \in staff THEN staff \ {b} ELSE staff \cup {b}
  /\ UNCHANGED <<now, rows, lock, seen, reacts, booth, job, shown>>

SetPinned(p) ==
  /\ posts' = (posts \ {p}) \cup {[p EXCEPT !.pinned = ~@]}
  /\ UNCHANGED <<now, made, lock, staff, seen, reacts, booth, job, shown>>

Tick ==
  /\ now < MaxNow
  /\ now' = now + 1
  /\ UNCHANGED <<rows, lock, staff, seen, reacts, booth, job, shown>>

-----------------------------------------------------------------------------
SessionStep(s) ==
  \/ \E b \in BoardIds, i \in Ids \cup {None} : CheckBoard(s, b, i)
  \/ CheckParent(s) \/ CheckRate(s) \/ InsertPost(s)
  \/ \E p \in posts : EditOwnMessage(s, p)
  \/ \E p \in posts : DeletePost(s, p)
  \/ \E p \in posts : RefuseDelete(s, p)
  \/ ReportRefusal(s)
  \/ ClearForMessage(s)
  \/ \E b \in BoardIds : ListBoard(s, b)
  \/ StampVisit(s)
  \/ MarkBoardSeen(s)
  \/ \E i \in Ids : LookAtReaction(s, i)
  \/ React(s)
  \/ Unreact(s)
  \/ CreatePoll(s)
  \/ \E c \in Options : CheckVote(s, c)
  \/ CastVote(s)

\* The operator at bbsctl; an admin's session does the same.
SetBoard == \E b \in BoardIds : SetRoles(b) \/ \E on \in BOOLEAN : SetLocked(b, on)
EndPoll  == ClosePoll \/ DeletePoll

Next ==
  \/ \E s \in Sessions : SessionStep(s)
  \/ \E b \in BoardIds, i \in Ids \cup {None} : StoreRemotePost(b, i)
  \/ EndPoll
  \/ SetBoard
  \/ \E p \in posts : SetPinned(p)
  \/ Tick

Spec == Init /\ [][Next]_vars

-----------------------------------------------------------------------------
(* Properties. *)

\* The types.
TypeOK ==
  /\ now \in 0 .. MaxNow
  /\ posts \subseteq [id : Ids, board : BoardIds, author : Users \cup {Stranger},
                      at : 0 .. MaxNow, parent : Ids \cup {None},
                      pinned : BOOLEAN, edited : BOOLEAN]
  /\ made \in 0 .. MaxPosts
  /\ lock \in [BoardIds -> BOOLEAN]
  /\ staff \subseteq BoardIds
  /\ seen \in [Users \X BoardIds -> 0 .. MaxNow]
  /\ votes \in [Users -> Options \cup {None}]

\* Whatever is deleted, moved by a pin or sent by a peer, a board's listing
\* comes to an end and holds each of its posts once, a reply after the post it
\* answers (list_thread: "so nothing disappears").
EveryPostListed ==
  \A b \in BoardIds :
     LET w == Walk(b)
         t == w.order
     IN
     /\ w.stack = <<>>
     /\ Len(t) = Cardinality(OnBoard(b))
     /\ ToSet(t) = OnBoard(b)
     /\ \A i, j \in DOMAIN t : t[i].parent = t[j].id => j < i

\* The sessions of one user count and insert past each other, and yet at most
\* one post for each of them but one goes beyond the limit of a window.
SessionsOf(u) == {s \in Sessions : UserOf[s] = u}
Within(u, t)  == {p \in posts : p.author = u /\ p.at \in t .. t + Window}
RateBounded ==
  Unlimited \/
  \A u \in Users \ Admins, t \in 0 .. MaxNow :
     Cardinality(Within(u, t)) < MaxPerWindow + Cardinality(SessionsOf(u))

\* What a visit has shown a user never counts as new again, in whatever order
\* the visits of the user's sessions come to move the watermark.
ReadStaysRead ==
  \A u \in Users, p \in posts : p.id \in shown[u] => ~Unread(u, p)

\* No reply, reaction or vote outlives what it belongs to.
NothingDangles ==
  /\ \A p \in posts : p.parent # None => Exists(p.parent)
  /\ \A r \in reacts : Exists(r.post)
  /\ poll \in {"none", "gone"} => \A u \in Users : votes[u] = None

\* "Closing a poll freezes voting": the votes in a closed poll stay as they are.
ClosedIsFrozen == [][poll = "closed" /\ poll' = "closed" => votes' = votes]_vars

\* "Replies whose parent is missing (e.g. deleted) become roots" (list_thread,
\* and migrations/0009): a post can be deleted under its replies.
DeletionsLand == \A s \in Sessions : job[s].at # "refused"

=============================================================================
