# A verification of bbs-rs in TLA+

bbs-rs is a bulletin board served over SSH and over WebSockets, with chat, mail, boards, files and an
ActivityPub federation of its boards. It is one tokio process around one SQLite database; `bbsctl` is a
second process that works on the same database, `bbscfg` a third that edits the configuration file. This
directory models the parts of it whose correctness depends on the order of things: which task does what
first, what is still true after an `await`, what is left after a crash, which way a user came to a screen.
Paths below are relative to the repository's root.

Contents: [the system](#the-system), [the modules](#the-modules), [the runs](#the-runs),
[the proofs](#the-proofs), [deviations](#where-the-code-deviates), [not modelled](#not-modelled),
[what is left to do](#what-is-left-to-do).

## The system

| Component | State | Operations | Hard because | Module |
|---|---|---|---|---|
| Connection lifecycle: `src/ssh/server.rs`, `src/ssh/terminal.rs`, `src/web/mod.rs`, `src/web/terminal.rs`, `app::run` | per connection: handler, event channel (64), app task, output task | shell request / web login, data, disconnect, abort, quit | three tasks share one session id and clean up after each other | `Sessions` |
| Presence registry: `src/services/presence.rs` | `inner` (sessions with their event senders), `chat` (ids in the room), a `RwLock` around each | join, leave, chat_join, chat_leave, chat_send, list, pages, broadcast, kick | fan-outs wait for room in bounded channels with the locks held | `Presence` |
| Sweeper: `ban_sweeper` in `src/ssh/server.rs` | broadcast mark, warned sessions | every 10 s: time limits, resets, broadcasts, auto-bans, kicks | acts on what it read some awaits ago | `Presence`, `AccountRecovery`, `Accounts` |
| Password reset and gate: `src/services/auth.rs`, `src/app/mod.rs` | the reset flag and its copies | reset, gate, sweep, change | several copies of one row; check and update are separate statements | `AccountRecovery` |
| Accounts, mail, blocks, time: `src/services/{auth,admin,keys,mail,blocks,timelimit}.rs` | `users`, keys, `ip_bans`, failed logins, mail, `user_blocks`, `user_time` | register, approve, reject, log in, role, ban, send, block, bank | a session keeps the row it logged in with; a sweep between logins; midnight; a row deleted under what refers to it | `Accounts` |
| Boards and polls: `src/services/{boards,reactions,polls}.rs` | messages, watermarks, reactions, votes | post, edit, delete, pin, lock, visit, react, vote, close | limits, locks and closing are checked before the write they guard | `Boards` |
| Files: `src/services/{files,attachments}.rs`, `src/ssh/sftp.rs` | file rows and blobs on disk | upload, download, remove, attach, add and delete an area | a row and a file that must agree; quota checked before the insert | `Library` |
| App screens: `src/app/mod.rs`, `src/app/state.rs`, `validate_menu` in `src/bin/bbsctl.rs` | screen, forms, menu stack, drafts | one handler per screen and key | paths between screens that skip a check or leave something behind | `Screens` |
| Delivery queue: `queue` in `src/services/federation.rs`, `run_delivery_queue` in `src/web/ap_object.rs` | `ap_deliveries` rows | enqueue, drain a batch, mark delivered, mark failed | crashes, lost answers, retries that overtake | `DeliveryQueue`, `Outbox` |
| Board syndication: `outbound` in `src/services/federation.rs`, the handlers in `src/app/mod.rs` | messages with their ap_id; the mirrors' rows | submit, edit, delete; apply Create, Update, Delete | several statements per change, several sessions, one queue, no order between its rows | `Syndication` |
| Inbound federation: `src/web/ap_object.rs`, `follows`, `mirror`, `lifecycle`, `policy`, `moderation` in `src/services/federation.rs` | follows at both ends, remote posts, mirrors, mail, domain policy, reports | Follow, Accept, Undo, Create, Announce, Update, Delete, Flag; allow, block, purge | duplicated and reordered activities that cross each other | `Inbox` |
| Configuration: `src/config.rs`, `src/reload.rs`, `src/cfg/`, `src/bin/bbscfg.rs` | `bbs.toml`, the current `Settings`, the editor's document and selection | load, watch, SIGHUP, edit, validate, save | four writers and readers of one file; rows that shift under a selection | `ConfigEditor`, `Config` |
| Rendering, text area, templates, input decoding, doors, web pages, feeds, metrics, TLS | local | pure functions and I/O | – | – |

**How they interact.** A transport (the SSH handler or `handle_socket`) authenticates the user, joins the
registry with the sender of a fresh event channel, and spawns `app::run` with the receiver. From then on it
only decodes input into that channel. The app calls services and the registry from its loop, one event at a
time; everything another task wants of a session (a page, a broadcast, a chat line, a ban) reaches it as an
event through the registry. `bbsctl` reaches a session only through the database and the sweeper. An SFTP
session works on the same file tables without an app. Changes to federated boards become rows of
`ap_deliveries`, which a background task POSTs; what comes back arrives at the inbox, which writes the same
tables of posts and mail as the sessions. Sessions take a snapshot of the settings when they begin; the watcher
of `bbs.toml` and SIGHUP swap in new ones for those to come.

**What makes each part correct.** A session that is over is neither online nor in the room; a ban
lands. Calls of the registry return. A flagged account is held at the gate, old sessions
of it end, and its owner can recover it. Behind every session is an account somebody let in; nothing refers
to an account that is gone; no stay goes far beyond the budget of a day. A post that is stored is listed; parallel sessions exceed
a limit by a bounded number; nothing outlives what it belongs to. A file that is listed is there, and a download of it is whole. No key panics a session or gets it to a screen it
has no permission for. Deliveries survive a restart and are not repeated beyond their attempts. A mirror shows what the
hub shows once it has been told everything; both ends of a follow agree. What `bbscfg` wrote is whole and has an origin a
server accepts, and a server runs what its file says.

## The modules

| Module | Models | Composition | Proofs |
|---|---|---|---|
| `Sessions` | the tasks of a connection and how they start and clean up | | `Sessions_proofs` |
| `Presence` | the registry's two locks, its calls, the event channels | | `Presence_proofs` |
| `AccountRecovery` | password reset, gate, sweep, change of password | | `Accounts_proofs` |
| `Outbox` | what the queue promises: at-least-once delivery | | |
| `DeliveryQueue` | `ap_deliveries` and its drain | implements `Outbox` | `DeliveryQueue_proofs` |
| `Syndication` | one post from hub to mirrors | over `DeliveryQueue` by `INSTANCE` | `Inbox_proofs` |
| `Inbox` | follows, posts, replies, mail between three servers, both sides | | `Inbox_proofs` |
| `Accounts` | registration, login, roles, bans, mail and blocks, time | | `Accounts_proofs` |
| `Boards` | posts, threads, watermarks, reactions, the voting booth | | `Boards_proofs` |
| `Library` | file rows, blobs, attachments | | `Library_proofs` |
| `Screens` | one session's screens, forms, menus and drafts | | `Presence_proofs` |
| `ConfigEditor` | `bbscfg`: its screens, its document, its save | | `Config_proofs` |
| `Config` | the file between `bbscfg`, a text editor and the server | extends `ConfigEditor` | `Config_proofs` |

Each `MC…` module extends one of them with the model values, sets and constraints its configurations use.
Three modules of proofs extend two components each: a session's screens go with its presence, the recovery of an account
with accounts, the hub's side of federation with the inbox. So that the two can be extended side by side, what is usually called
`Init`, `Next`, `Spec` and `TypeOK` has a prefix in one of them: `Recovery…` in `AccountRecovery`, `Hub…` in
`Syndication`, `Screens…` in `Screens`. Nothing else ties such a pair together.

Operators named `Faulty…` are plausible slips of a single definition. No specification uses them: each, put in
the place of the definition it imitates, breaks a named property, and so shows that the property looks at
that code. A variable whose comment says *history* is not in the code: it remembers what a property speaks of.

### Sessions

A connection is `Conns`' element; its number is the session id of `BbsServer::new_client` or
`handle_socket`. An SSH connection may open several shells, a WebSocket has one. A shell `<<c, k>>` is the
k-th app task of connection `c`.

| Variable | Code |
|---|---|
| `conn`, `feed` | the handler, and the sender it holds (`events_tx`, `ev_tx`) |
| `inner`, `chat` | the registry's tables, reduced to: whose sender is in the entry of an id, which ids are in the room |
| `app` | how far `app::run` is: first frame, loop, banking, the two halves of `leave`, over |
| `queue` | the channel made in `shell_request` / `handle_socket` |
| `reaper` | `Drop::drop`'s spawned task, or the tail of `handle_socket` |
| `writer` | the task that ships output; a draw fails once it is gone |

`leave` is two steps everywhere because it takes the two locks one after the other. `recv` returns `None`
only when the handler's sender *and* the registry's clone are gone (`EndOfEvents`); that is how a
vanished client ends its app. `abort()` takes effect at the next await, so an aborted app's own actions stay
enabled until `Aborted`. Authentication is in `Accounts`; pty and resize (a `Data` like any other) are
abstracted away. The locks are not in this module: sends wait for room here but no one holds a lock meanwhile.

### Presence

Tasks queue up for a lock in order of arrival, as tokio's fair `RwLock` serves them: a waiting writer holds back
every later reader. A call is a sequence of `Await…`, `Take…` and, for a fan-out, one `Send` per recipient,
with the read lock held to the last of them. Which sessions belong to a page's target is left open
(`Recipients`), as is the order of a hash table. `chat_join` and `chat_leave` are followed by the line that
announces them, as in `open_chat` and `leave_chat`. `chat_roster`, `sessions_snapshot` and `list` differ only in
what they return; `send_to` is a page with one recipient.

### AccountRecovery

Three copies of the flag matter: `users.password_reset_at`, the `User` the connection has kept since it
authenticated (`seen`), and what the sweeper has read (`swept`). Time is in whole seconds, as
`password_reset_at` and the registry's `since` are; a reset and a login may fall into one second. `app::run`
starts with `load_startup_bulletins`, after `App::new` has chosen the screen. `change_password` is two steps
(`Verify`, `SubmitOwn`) with a hash of the new password between them. `Insist` is the owner, who is not in the code:
logs in, obeys the gate, hangs up where there is none.

### DeliveryQueue and Outbox

One row per activity and inbox. `StartPass` is a tick with its `due` query, `Post` is `sign_and_send` with every
outcome (delivered, refused, delivered but the answer lost), `Refuse` the local or disallowed inbox that
counts as delivered, `MarkDelivered` and `MarkFailed` the statements that record it. `Crash` loses the pass and
keeps the rows; `PassFails` is a statement the database refuses. Time is counted per row, down to when it is
due (`wait`), which is `next_attempt_at - now`.

`Outbox` knows no batches, passes, time or crashes: a delivery that was accepted is owed until it has arrived, policy
refuses it, or it has failed `MaxAttempts` times. `Promise == INSTANCE Outbox WITH owed <- queue` maps the rows to what is
owed; a `Post` is an attempt, a mark settles, and everything else stutters.

### Syndication

The hub has one post on a board with subscribers; the author's session posts, edits and deletes, and an admin's
session deletes, each one statement at a time: insert or update the row, load it again (`Read`), mint its id
(`Mint`), enqueue one row per inbox (`EnqueueNext`); or build the withdrawal (`Prepare`), delete the row
(`Delete`), enqueue. A POST that arrives is applied to the mirror at once (`Apply`: insert if absent, update if
present, delete). Texts are numbered by edit. The drain, crashes and time are `DeliveryQueue`'s.

### Inbox

Instance `y` hosts a board, instance `x` mirrors it and submits to it, authors on `z` post to the board, are followed
from `x` and write to its user. Each ordered pair of servers is a link; `wire` is its deliveries under way, which arrive in
order unless one fails (a lost or a repeated answer, an overtaking). `held` is what the four stores that
`lifecycle` tries in turn hold (`messages`, `ap_timeline`, `ap_board_posts`, `mail`), as the version of the author's text.

| Action | Code |
|---|---|
| `Follow`, `Unfollow` | `follow` and `unfollow` in `ap_object.rs`, `follows::request`, `remove` |
| `ReceiveFollow`, `QueueAccept` | `Follow::receive`: the edge first, the Accept after it; a crash may come between |
| `ReceiveAccept`, `ReceiveUndo` | `Accept::receive` (`mark_accepted`), `Undo::receive` |
| `Submit` | `remote_posting::submit` |
| `ReceivePost`, `Relay` | `Create::receive` on a board up to `store_remote_post`; `deliver_board_post` |
| `Moderate` | a local deletion: `prepare_board_delete`, `delete_message`, the Announce of the Delete |
| `ReceiveUpdate`, `ReceiveDelete` | `lifecycle`: the first store that has the post is changed |
| `ReceiveNote` | a status for the timeline, or mail |
| `ReceiveAnnounce` | `Announce::receive` of Create and Delete at a mirror |
| `SetPolicy`, `Purge`, `ReceiveFlag`, `Resolve` | `policy::set`/`unset`, `purge_domain`, `Flag::receive`, `resolve_report` |
| `Refuse`, `GiveUp`, `Crash` | what the queue does with a refusal in the end; a delivery given up; a crash between two statements |

### Accounts

A connection's `conn[c]` is the job it is at and the `User` it was authenticated as, which stays as old as the login;
`time` is what is banked per account and day. Registration asks for the name and inserts in two steps; `send_mail` checks
the block list and inserts in two. `Police`, `Promote` and `EditKeys` are the operator, at `bbsctl` or in an admin's
session.

The sweeper comes round every `SweepPeriod` ticks and goes through its steps with the sessions between them: a snapshot of
who is online (`StartSweep`), a look at each (`LookAt`, `enforce_time_limits`: who is over the budget ends and is banked), the bans
that have run out (`Purge`), the auto-ban (`FindOffender`, `AutoBan`, two statements, on the failed logins that `Refuse`
records), the bans as they are now (`ReadBans`) and the sessions under them (`Kick`). Between two sweeps users come and go as they
like, and no login looks at the budget. A tick never falls into a sweep, which is shorter than one. Whom the sweeper sends `Event::Quit` leaves at
once; what may delay that is in `Sessions` and `Presence`. `Leave` banks, `Vanish` does not: a frame
that cannot be written, or the bridge's abort. `had` is what was banked on the day a session began.

### Boards

Every function is its SQL statements: `CheckBoard` (its row: lock and role), `CheckParent`, `CheckRate` and `InsertPost`; a visit reads, shows and moves the
watermark with the time it began; a reaction looks, then inserts or deletes; a vote finds the poll open, then casts.
Foreign keys are enforced, so that `DeletePost` may be refused. `Walk` is `list_thread`, a `Pop` per turn of its loop: roots
pinned first and newest first, replies below them oldest first, whatever parents are missing. `StoreRemotePost` is a
peer's post coming in, in one step: nothing is said of how many a peer sends, and the foreign key looks at the parent once more.

### Library

SFTP's open (row first, blob created under its id), writes and close, `finish_upload` with its rollback, `add_file` of
`bbsctl` (quota, insert, blob, path), downloads by a handle that was resolved earlier, removal (row first, then the blob),
an area counted empty and deleted, and files staged for a post. `blob` is absent, partial or whole. `WriteFails` is followed by
the rollback, which deletes the row and leaves the blob as it is. `Fails` is any other failure, of a statement or of the disk (also
of the rollback itself, and of `bbsctl`'s `create_dir_all`): the operation ends there, nothing is taken back. `Crash` drops what the
server's workers were doing and leaves rows and disk; `bbsctl` goes on. A limit of 0 is none.

### Screens

`app` is the record of `struct App`'s fields that outlive a key, one action per screen's handler. The services behind a
handler answer freely, as rows appear and vanish under a session that does not look. A form is its number of fields;
`Submit(n, …)` reads field n-1 and panics where there are fewer. Menus are sequences of entries; `BuildMenu`,
`PushSubmenu` and `EscapeMenu` are the menu stack, `ValidateMenu` what `bbsctl validate-menu` accepts.

### ConfigEditor and Config

A document keeps a setting or two of every kind there is (booleans, texts, numbers, enumerations), the doors, the seed
boards and the art of each screen, in the two notations TOML has for lists; text is nothing, fine or odd. The actions from
`MoveSection` to `RequestQuit` are the keys of `cfg/editor.rs`, `WithDoor`, `SetIn`, `DropFrom` and `Swapped` the operations
of `cfg/doc.rs`, `OpenSave` with `Blocking` the validation before a save, `SaveCopy` and `SaveRename` the backup and the
rename. `Config` adds the text editor that truncates or moves the file, the server
that loads, creates a default where none is, and starts its watcher only then, and the two tasks that reload: `Watch`
with its debounce, and `Sighup`.

## The runs

Every run finishes within three minutes on a laptop; "states" are distinct states, "bounds" what keeps an instance finite.

| Run | Instance | States | Shows |
|---|---|---|---|
| `sessions_ssh` | one SSH connection, 2 shells, channel of 2, reliable output, bans | 28 thousand | `NoGhostInChat`, `ClosedSettles`: the room is left, all tasks end |
| `sessions_mixed` | SSH (output may fail) and WebSocket, 1 shell each, bans | 292 thousand | `NoGhostOnline`, `BanLands`: no ghost online, a ban ends every shell |
| `presence` | 2 sessions and the sweeper, every command, channels of 8, one key each | 61 thousand | `RecipientsStay`, `NoGhostInChat`, `CallsReturn`: fan-outs and room are clean, every call returns |
| `queue` | 3 rows, batches of 2, 2 attempts, one fault | 383 thousand | `NothingLost`, `PostsBounded`, `KeepsPromise` (the refinement of `Outbox`), `Drains` |
| `syndication_races` | 1 subscriber, one edit, author and admin, lossy network, one fault | 661 thousand | `WithdrawalsAreReal`, `SteadyPeerAgrees`, `Converges`: a withdrawal is real; the mirror ends up with what the hub shows |
| `recovery` | 2 sessions, 2 resets, 3 seconds, no bulletins | 168 thousand | `GateHolds`, `YoungAreSpared`, `SweepIsThorough`, `Recoverable` |
| `accounts` | 2 connections from one address, 2 seeded accounts and a name to register, days of 4 ticks, a sweep every tick | 499 thousand | `SessionsHaveAccounts`, `OwnersLive`, `OverstayBounded`: no session without an account, nothing left of one that is gone, no stay longer than a period goes a period beyond the budget |
| `boards` | a caller with 2 sessions, a sysop, a peer; 2 boards, 3 posts, one poll | 251 thousand | `EveryPostListed`, `RateBounded`, `NothingDangles`, `ReadStaysRead` |
| `library` | 2 SFTP sessions of one user, `bbsctl`, one area, 2 files, one fault | 2.9 million | `ListedIsThere`, `QuotaHolds`, `TornOnlyMidway` |
| `screens` | each role under 7 configurations (built-in menu, partial ones, trees with and without a cycle) | 1.3 million | `NoPanic`, `GatesHold`, `EscLeadsOut` |
| `inbox` | a post, a reply to it from `x`, a private note; 3 follows, one disturbance | 1.0 million | `EdgesAgree`, `AuthorsWordHolds`, `MirrorAgrees`, `ThreadsJoin` |
| `config` | a federated board or no file; 3 plans of what is edited and what happens | 1.5 million | `SelectionHolds`, `BoardStarts`, `SettledIsCurrent`, `ComesToRest` |

Every module has its type invariant as a theorem; no run repeats it. A few further invariants hold as well and are of less interest, all but the last of them theorems:
`RunningIsRegistered` (`Sessions`, for one shell per connection),
`AreaOfFile` and `LinksAreGood` (`Library`), `ScreensHaveContext` (`Screens`), `PurgedStaysOut` (`Inbox`, where a delivery is one step: one that was let in before the
suspension and is still being handled is not seen), and the action property `ResolvedStays` (`Inbox`). Put
one into the run's configuration to check it. `syndication_races` with `Inboxes <- TwoPeers`, no edits, admin or fault and
`SteadyPeerAgrees` alone shows that a failing subscriber does not disturb the other.

**Bounds.** Two shells are the fewest where one shell's end meets another's start; a channel of two events can
be empty, partly full and full. In `presence`, 8 events are more than two sessions and the sweeper
can have outstanding, so that no send ever blocks: that is what "room in the channels" means;
`presence_chat_paste` shows what happens without it. Three rows and batches of two let a batch be full with another row
waiting. One backoff of two units separates "due" from "not due"; caps of the backoff matter only to the proofs.
Two resets and three seconds allow a reset before, in the same second as, and after a login, and a second reset on
top. Two files of sizes 1 and 2 under a quota of 1 and a limit of 1 let either check refuse and two uploads race; the one fault is a crash, a failed write or a
failed statement. Three
posts on two boards make a thread with a reply to a reply, or one across boards. Two connections and days of four ticks under a
budget of two put parallel sessions on one budget, let a user come back on the same day, and carry a session across midnight. In `screens` the depth cap is 3, so that the cyclic
trees reach it and the others do not. Every such bound is a constant with "bound" in its comment (or `[limits]`, where the
operator sets it), and is a guard of the action it limits.

**Constraints.** Three instances would be too large with everything at once. Their `MC` modules confine a behaviour to a few
*stories*: `boards` to one of the poll, reactions, visits, moved and pinned posts, and locks besides posting, with one session busy at a
time once there are two posts, and none between the statements of its checks beside a story or when all posts are made; `accounts` to two of
people, mail, blocks, keys, roles, bans, bans of the address, to mail and blocks of new people, to time alone (from the fourth tick on with one connection),
or to time with new people, with bans of either kind, for a tick; `inbox` to the
board's posts, the note, repeated follows, or a report, with two deliveries under way. Stories that are not told together touch
different tables, or the same one only through a statement that another story has as well. `config` draws a plan at the start: many changes
of the document, or hand edits and signals besides fewer of them. The constraints cut states, so liveness is
checked only where there are none. Symmetry is used for sessions of the same user, boards, and connections from one address, and
only where invariants are checked.

**Deadlock** is not checked: once clients stop, keys, posts and resets are used up, these systems rest.
That nobody is stuck on the way there is what the liveness properties (`ClosedSettles`, `CallsReturn`, `Drains`, `Converges`,
`Recoverable`, `ComesToRest`) say.

**Fairness.** Weak fairness for the steps of spawned tasks (the tokio scheduler polls what is ready), for the
drain's and the sweeper's ticks (`tokio::time::interval`), for time, and for the restart of a crashed server; for
`Config`'s two reload tasks together, whose debounce ends. Strong
fairness where tokio's queues are first come, first served, and something else may fill the place
now and then: a kick or a fan-out's send waiting for room in a channel, an app's `Event::Quit` behind other keys.
No fairness for users, peers or failures: nobody has to type, a POST need not succeed. `AccountRecovery` assumes an
owner who insists: weakly fair login and hang-up, and strong fairness for obeying a gate that is offered again and
again. The modules that check safety only state none.

**Exclusions in properties.** Some properties hold but for cases the code leaves open on purpose, and name them by history
variables: files whose upload a crash or a failed statement cut short (`stale`), uploads that overlapped (`lapped`), accounts whose role an operator set by hand (`raised`),
deliveries that were lost, repeated or overtaken (`shaken`), a fan-out that was disturbed (`cut`), settings read before a change and stored after it (`lagging`).
The runs contain all of these cases; the properties bound what they can do to the rest.

## The proofs

TLAPS checks these for every value of the constants that satisfies the assumption named in the module: bounds are numbers; what
is counted (connections, sessions, subscribers) is finite; the sysop is not the guest, a tick of the
sweeper takes time, no post is called `None`; there is a subscriber to begin with (the hub builds nothing for nobody). Of a configuration
it is assumed that it parses: the doors and boards of a document and the entries of a menu are lists, a feature is
one of the switches there are. TLC evaluates every assumption on the instance of a run.

| Theorem | Says |
|---|---|
| `Sessions_proofs!TypeCorrect` | types; no event channel overflows |
| `Sessions_proofs!GhostFreeRegistry` | if no WebSocket's output task stops early, no connection that is over stays online |
| `Sessions_proofs!CleanExit` | with SSH only and reliable output, every session leaves the room |
| `Sessions_proofs!RegistryReachesShells` | with one shell per connection, the registry reaches the running shell of every connection that is up |
| `Presence_proofs!TypeCorrect`, `FanoutReachesLive`, `RoomIsLive` | types and capacity; the read lock keeps every pending recipient; no ghost in the room |
| `Presence_proofs!ScreensTypes`, `RecordsAreThere`, `GatesAreHeld`, `EscAlwaysLeadsOut` | types; every screen has the record it works on, nobody sees one without the role and switch it takes; six presses of Esc lead from everywhere to the main menu; a tree that `validate-menu` accepts is entered once |
| `Presence_proofs!OnlyEmptyMenusPanic`, `NoKeyPanics` | the one key that can panic a session is Enter on a menu without entries; where every configured menu has one for every role, none does |
| `Accounts_proofs!RecoveryTypes`, `GateIsShut`, `YoungAreSafe`, `SweepReachesAll` | types; without bulletins the gate holds; the sweeper ends no session younger than every reset; it misses no old one when it has read the latest flag |
| `DeliveryQueue_proofs!TypeCorrect`, `RowsSurvive`, `PeersSpared` | types; nothing is lost; a peer is spared beyond its attempts |
| `DeliveryQueue_proofs!QueueKeepsPromise` | the queue implements `Outbox` |
| `Library_proofs!TypeCorrect`, `ListedFilesAreThere` | types; a file that is listed has its blob in full, but for what was cut short |
| `Library_proofs!QuotaIsKept`, `ReadsAreWhole` | the quota holds for users whose uploads never overlapped; a download is short only beside its own upload |
| `Library_proofs!AreasOutliveFiles`, `AttachmentsAreGood` | no row outlives its area; a post links to no more files than allowed, all there and readable by its author |
| `Accounts_proofs!TypeCorrect`, `SessionsAreAccounts`, `StaysAreBounded`, `OwnersStayAlive` | types; behind every session is an account; no stay longer than a period of the sweep exceeds the budget by one, wherever logins and midnight fall between the sweeper's steps; no mail, key, block or banked time of an account that is gone |
| `Boards_proofs!TypeCorrect`, `RateIsBounded`, `ShownStaysRead` | types; parallel sessions overdraw the rate by at most one post each; what was shown and marked stays read |
| `Boards_proofs!ThreadsAreWhole` | the walk of a board's threads ends, with every post listed once and after the one it answers |
| `Boards_proofs!NothingLeftDangling` | no reply, reaction or vote outlives what it belongs to |
| `Inbox_proofs!TypeCorrect`, `BothEndsAgree`, `LastWordHolds`, `MirrorFollows`, `ThreadsStayJoined`, `PurgedServersStayOut` | types; two ends of a follow, author and stores, board and mirror agree once all is delivered in order; threads stay joined; what a server sends does not come back once it is suspended and purged |
| `Inbox_proofs!HubTypes`, `WithdrawnOnceGone`, `SteadyPeersFollow` | types; a post is withdrawn only once it is gone for good; a mirror whose inbox never failed shows what the hub shows, once nothing is under way, unless a crash, an error or a second session disturbed the hub's work |
| `Config_proofs!TypeCorrect`, `SelectionStays`, `SavedBoardStarts`, `SettledServerIsCurrent` | types; the selection of `bbscfg` is one of what the screen shows; what `bbscfg` wrote passes the server's validation; a server that has settled runs what its file says |

*Sessions.* `NoGhostOnline` is not inductive: that the entry is gone when all is settled depends on who went
last. `OnlineInv` says that once a clean-up is past its first half the entry is gone and no one can register the
id any more (only a live handler can), that a WebSocket's app past its own first half has removed it, and that
apps end by a draw error only where the output may stop. `CleanExit` needs that whoever is in the room has
a live app to take it out. `RunningIsRegistered` needs one fact more: a clean-up is under way only where the connection is closed, so that it never
takes away the entry of one that is up. `MaxShells = 1` is a hypothesis here and no assumption of the module: with two
shells it fails, as in `sessions_second_shell` with this invariant in place of `BanLands`.

*Presence.* `LockInv`: a task sends exactly while recipients are left; recipients are registered; a session
that is offline, gone or half-way through `leave` is not registered. A writer gets `inner` only when nobody sends,
hence when all lists of recipients are empty: that step is the heart of it.

*Screens.* `ScreenInv` speaks of one screen, `MenuInv` of the menus under it. `Around`: the screen shown, and the one a
return field names (`attachBack`, `viewBack`), has its form with as many fields as `Submit` reads, its permission, and its
record; `Draft`: a draft exists where something is composed. These go together, as a handler that returns finds
there what was put there when it left. `MenuInv`: the cursor is on an entry, or the menu shown is the top one and empty
(`CursorHolds`); each level of the stack is the group of the submenu entered on the level above (`TreeHolds`); each submenu
entered lies beneath all entered before (`DescentHolds`), so that where `validate-menu` accepts, none is entered twice. Esc goes down five
levels of screens to the main menu. What
`BuildMenu` returns is its recursive function's value at every length, by the least number at which it would not be.

*AccountRecovery.* The clocks are in order: nothing was read, stamped or flagged later than `last`, and
`last` not later than `now`; whoever is told to quit joined not later than the last reset. `HeldAtGate` says that
a session that owes a new password is on its way to the gate or at it.

*DeliveryQueue.* The rows' counters are tied to the history: attempts counted in the row equal the
errors recorded so far, posts exceed them only by the faults that cut a pass short. The refinement rests on the same invariant:
a row is deleted only after an arrival, a refusal, or the last of its attempts, which is what `Outbox` asks before it settles.

*Library.* `ListedIsThere` and `QuotaHolds` rest on ids that are used once. `Below`: no row or blob has an id that is
still to be given out; `JobsSound`: a worker's job has the values its next step takes; `Removed`:
who unlinks a blob has deleted its row. `Fits` says of a user whose uploads never overlapped that stored bytes plus those of a checked upload fit the quota. Usage is a
sum over a finite set: the first lemmas show, by the least element of a set of naturals, how such a sum changes with one row.
`AreaOfFile` is inductive beside them, because the foreign key refuses both the row of an area that has gone and the deletion of an area in use: the two counts
that go before cannot be relied on. `LinkInv` carries `LinksAreGood` over the steps between check and link: an id that passed the
check is older than the counter and never given to a file of another area, and nobody else adds links to the post.

*Accounts.* `RowsHold`: names are unique, and who is not a plain user without an operator's doing was let in from the start.
`SeenHolds`: the row a connection was authenticated by says no more than the row of now: if it was valid, one of the same id and
name still is, and if not, it was a plain user's; `InsideHolds`: nobody of the latter is inside. For `OverstayBounded`, `Sched` says
that the sweeper comes round in time, and `StayHolds` what a sweep leaves behind: a session it is done with came after
the last sweep, or will be within the bound until the next; one it has still to look at is within the bound now. What is banked on a day only grows, so that what the sweeper reads is
at least what the session had when it came (`had`). `OwnersLive` needs the foreign keys at both ends, of the row
that refers and of the one referred to, and that time is banked for a live account only.

*Boards.* `PostsHold` and `VisitsHold` tie what a session has read to the posts and to the clock: a visit's stamp is not
older than any post it listed, so that a watermark, once moved, is past all that was shown (`SeenHolds`). `RateBounded`
holds because, while a window is open, the posts in it plus the inserts that have passed their check stay below the limit
plus the sessions: a check that passes adds one insert where there were fewer posts than the limit, and an insert turns
one into the other (`RatesHold`). When a window moves on, posts only leave it. A window or a limit of zero switches the check off (`Unlimited`), and the bound with it.

`EveryPostListed` is about what a loop computes from any table. Sorting: a finite set on which an order is total has a listing,
by taking its first member off, and a listing holds each member once (`ListingExists`, `Listed`). The loop's invariant
(`Walking`): what is listed and what is on the stack are different posts; every root and every reply to a listed post is among
them; what a post among them answers is listed, and before it. A turn keeps it, as no reply to the popped post can have been
reached before. Each turn lists one more, so that after as many turns as the board has posts the stack is empty; and
of the posts not listed then, the oldest would be a root or answer a listed one. For that a reply has to be younger than what it
answers (`Older`), which the foreign key gives. It gives `NothingDangles` too, with one thing more: nobody casts a vote before there is
a poll (`Anchored`).

*Inbox.* What a run sees once nothing is on the wire follows from what is said while something is: `IInv` states for
each subject (a post, or the follow) what the messages about it in a queue will bring. `EdgeHolds`: the last of Follow and Undo
agrees with the user's wish, and whoever waits for an Accept has one coming. `WordHolds`: a Create about a post comes first
and finds nothing, a Delete comes last, the last message brings the author's word. `MirrorHolds` says the same of the
board's announcements, and that they come after the Accept. `HangsHold`: where a post hangs on the board is where its
announcements will hang it, none of which precedes the post itself. A delivery that is lost, repeated or overtaken marks its
subject in `shaken`, and of such a subject nothing is said. The proof first shows for every kind of change of a queue (the
first message taken, another removed, one appended) what becomes of "first", "last" and "before" (`Same`, `Took`, `Sent`);
each receive, send and failure is then one lemma over these. TLC confirms `IInv`
over the instance of `inbox` from a module that extends `MCInbox` and `Inbox_proofs`.

*Syndication.* `RowsHold` and `InTurn`: the rows of an inbox that never failed go out in the order of their ids, so that what
has left the queue has arrived and what has arrived is no later than what is still queued. `PostHolds`: a withdrawal is built or
under way only when the post's row is gone. `TurnsTaken` and `Told` hold while the hub's work was disturbed by no crash, error or second session
(`cut`): the ids follow the post's history, the Create first, and an inbox that nobody owes a row has been sent the latest. `Shown`: the
mirror shows the highest of what arrived. Without retries these meet: when the queue is empty, the highest that
arrived is the latest. TLC confirmed `HubInv` on the instances with races and with crashes before it was proved.

*Config.* `Fits` bounds the selection by the screen and the document: a row of a list exists while its fields, or the text
editor over one of them, are open. `EditorInv`: what is being saved is the document that was validated, and had no blocking
issue; hence `BoardStarts`, which says no more than that: a server may still find a port in use or a key missing. `Fresh`: while no event waits in the watcher's channel, the server runs what the file says, or the
watcher is about to store it; a setting stored late is marked `lagging`.

What the proofs changed in the models: `After` of `ConfigEditor` did not say what follows a value written by hand that is none of
the options (the code takes it for the first); nothing kept the features of a configuration in `Screens` among the switches there
are; and `Syndication` has no sense without a subscriber.

What only TLC checks: liveness (`ClosedSettles`, `BanLands`, `CallsReturn`, `Drains`, `Converges`, `Recoverable`, `ComesToRest`), as
fairness and `ENABLED` are beyond the prover, and the further invariants named under [the runs](#the-runs) that are not called
theorems there. Every invariant and every action property of the passing runs is a theorem.

## Where the code deviates

Each configuration below ends in a counterexample: a property that a document or comment of the repository states, and that the
code does not keep.

| Configuration | Refutes | What happens |
|---|---|---|
| `presence_chat_paste` | `BanLands` | `chat_send` (`src/services/presence.rs:98`) sends to the sender's own channel, which only the sender empties. With 64 keys waiting there the send never returns, both locks stay held, and no session can join, leave, be paged or be banned any more (`README.md:399-400`) |
| `recovery_bulletins` | `GateHolds` | `load_startup_bulletins` (`src/app/mod.rs:812`, called at 4333) replaces the change-password screen (`src/app/mod.rs:271-273`, `README.md:391-393`) |
| `syndication_retry` | `WithdrawnEverywhere` | a Create that failed once is retried after the Delete, and the post is back at the mirror for good (`src/services/federation.rs:1546-1547`) |
| `syndication_crash` | `RestartDropsNothing` | a crash between two rows of a fan-out drops the rest (`src/web/ap_object.rs:1433-1435`) |
| `sessions_second_shell` | `BanLands` | a second shell on one connection hides the first from bans (`src/ssh/server.rs:217`, `README.md:65`) |
| `sessions_web_time` | `TimeIsBanked` | a closed browser's time is never banked (`src/web/mod.rs:503`, `README.md:433`) |
| `inbox_withdrawn` | `LingersNowhere` | an author's Delete that reaches the board is applied there and not announced: the post, which the board had announced before, stays on its mirrors (`docs/FEDERATION.md:355-357`) |
| `accounts_rejected` | `ActiveIsKept` | a pending account that was given a role may log in, and reject deletes it under its session (`src/services/admin.rs:94-97`) |
| `boards_answered` | `DeletionsLand` | a post with replies cannot be deleted: `parent_id` is a foreign key without `ON DELETE` (`migrations/0009_message_threads.sql`, `src/services/boards.rs:136-138`) |
| `screens_draft` | `DraftStartsClean` | files staged while a post is edited stay staged when the edit is sent, and go out with the next mail (`src/app/mod.rs`, "Files staged for the post/mail currently being composed") |
| `screens_archive` | `ArchiveIsCurrent` | an archive opened as an attachment is listed without becoming the current file: its entries are looked up in another file, and Esc leads into the file library (`README.md:531-533`) |
| `screens_typo` | `NoPanic` | a configured menu with no entry available is shown empty, and Enter indexes it (`src/app/mod.rs:680`) |
| `config_hup` | `ReloadIsCurrent` | a change of the file between the load at start and the watcher's start is missed (`src/lib.rs:42-50`), and a SIGHUP may store an older text over a newer one (`src/reload.rs:134-145`) |
| `config_inline` | `EntriesAreKept` | doors in inline notation look absent to `bbscfg`, and adding one drops the others (`door_add` in `src/cfg/doc.rs:441`; "hand-written sections are preserved", `src/bin/bbscfg.rs:41-42`) |

Others need another instance of the same modules; a line in a configuration is enough.

| Instance | Refutes | What happens |
|---|---|---|
| `accounts_rejected` with that property | `NoAdminBlocked` | who was blocked as a user stays blocked as an admin (`src/services/blocks.rs:1-6`) |
| the same with that one | `ManualBansStay` | the auto-ban, having counted the failures before, overwrites a permanent ban with one that expires (`src/bin/bbsctl.rs:580`) |
| `sessions_mixed` with `Conns`, `Web` and `Frail` the WebSocket | `NoGhostOnline` | a draw error ends the web app before it leaves; `handle_socket` believes it has ("the app loop already left presence", `src/web/mod.rs:499`) |
| `sessions_mixed` so, but without `Frail`; or `sessions_ssh` with the connection in `Frail` | `NoGhostInChat` | the app enters the room after the clean-up has left it, and does not get to leave it (`src/services/presence.rs:79-80`) |
| `presence_chat_paste` with `PageOnly` and two keys | `BanLands` | a page waits for room in the channel of a session that waits for the page's lock in order to leave |
| `syndication_retry` with an admin, no lossy network | `WithdrawnEverywhere` | an admin's delete crosses the author's fan-out |
| `accounts` with that invariant | `BudgetBounds` | no login looks at the budget (`src/services/auth.rs:72-94`): coming back after each kick gains up to a period of the sweep, as often as one likes ("a connected-time budget per day", `README.md:432`) |
| `accounts` with that property | `BlockedMailStops` | mail that has passed the check of the block list arrives after the block (`src/services/mail.rs`; `src/services/blocks.rs:1-6`) |
| `boards` with that property | `ClosedIsFrozen` | `vote` upserts into a poll that was closed after its `SELECT` (`src/services/polls.rs:123-162`; "Closing a poll freezes voting", `migrations/0030_polls.sql:3`) |
| `library` with that invariant | `NoOrphan` | a failed write leaves what it wrote on disk when its row is taken back (`src/ssh/sftp.rs:153-156`, `src/bin/bbsctl.rs:806-809`), as do a removal during the upload, a file that cannot be deleted, and a crash; nothing looks for such a blob |
| `recovery` with one reset, always forced | `OldEnd` | the gate is obeyed before the next sweep, and the old session is not ended (`README.md:394-395`) |
| the same | `NextIsHeld` | a connection that authenticated before the reset opens its shell after it (`README.md:390-391`) |
| the same | `VerifiedIsReplaced` | a reset is overwritten by a change of password that was verified against the old one (`src/services/auth.rs:259`) |

And a few were met while reading the code, and no run shows them:

- The first retry is after 120 s; the comment at `src/services/federation.rs:1075` says one minute.
- `Settings::load` writes the default file where it finds none (`src/config.rs:858`): an editor that moves the file away
  to replace it can lose what it writes.
- `bbscfg` saves over edits made since it loaded the file, and keeps one backup; with `[[seed.boards]]` as tables, adding a
  board panics (`src/cfg/doc.rs:233`).
- The web side reads `[federation]` from the current settings at each request (`src/web/activitypub.rs:51-53`), though
  `src/reload.rs:11-14` lists what needs a restart.
- The lock of a board does not stop posts of peers (`store_remote_post`), and the rate limit in `remote_posting` counts rows that
  a remote submission does not add to (`src/services/federation.rs:2103-2107`).
- The ids of posts on remote boards and of local messages are minted from two counters in one namespace
  (`src/services/federation.rs:340` and 2160).
- `ensure_person_keys` (`src/services/federation.rs:140`) looks for a key pair and stores one in two statements. Two first
  uses at once each mint one, and what the earlier signs cannot be verified with the key the later stored.
- The copy of the database and of the files that `bbsctl backup` makes are of different moments.

## Not modelled

- Rendering, text editing, templates, themes, input decoding, TLS, web pages, feeds, metrics, finger: pure functions or I/O
  without state of their own.
- Doors: a child process behind pipes; `Screens` has the hand-over of the terminal and its return.
- Cryptography, signatures, the minting of actors' keys, WebFinger, HTML conversion: values the models do not look into. A signature is taken to say who
  signed.
- Full-text search, listings and statistics: queries that change nothing. Bulletins, one-liners, profiles,
  statuses: single statements.
- The relay of queued broadcasts and the purge of old login rows in the sweeper, `bbsctl migrate` and `backup`, the seeding
  of a new database.
- Parts of what is modelled: a registry entry's names and addresses; remote polls and likes, which the
  code does not have; the rest of `bbs.toml`'s settings, of which `ConfigEditor` keeps a few of each kind; hotkeys of menus.

## What is left to do

A model of actor identities (slugs, ids, keys) would cover the two hazards of `src/services/federation.rs` that no property reaches.
A delivery that is checked in one step and stored in another would make `PurgedStaysOut` say more. Liveness would need a
prover that reasons about fairness and `ENABLED`.
