------------------------------ MODULE Sessions ------------------------------
(***************************************************************************)
(* The life of a connection of the board: how an SSH connection or a       *)
(* WebSocket starts shells (instances of the app loop), registers them in  *)
(* the shared presence registry, feeds them events, and how everything is  *)
(* taken down again when the user quits, is banned, or just disappears.    *)
(*                                                                         *)
(* Three tasks share one session id: the transport's handler (the russh    *)
(* handler, or handle_socket), the app task it spawned, and the clean-up   *)
(* that runs when the connection goes away.  Each removes the id from the  *)
(* registry when it is done, in two steps (Presence::leave), so the order  *)
(* in which they do it is what this module is about.                       *)
(*                                                                         *)
(* Sends into an app's event channel wait for room here, but nobody holds  *)
(* a lock meanwhile: module Presence models the registry's locks.          *)
(***************************************************************************)
EXTENDS Naturals, Sequences

CONSTANTS
  Conns,        \* connections; the connection number is the session id
  Web,          \* the connections that are WebSockets, the others are SSH
  MaxShells,    \* bound: shells one SSH connection opens (channels)
  Cap,          \* capacity of an app's event channel (64 in the code)
  Frail,        \* those whose output task may stop before the app does
  Banning       \* may a ban of the connection's user or address happen?

ASSUME SessionsAssumption ==
  /\ Web \subseteq Conns
  /\ MaxShells \in Nat \ {0}
  /\ Cap \in Nat \ {0}
  /\ Frail \subseteq Conns
  /\ Banning \in BOOLEAN

VARIABLES
  conn,    \* is the handler of the connection alive?
  feed,    \* the shell whose event sender the handler holds, 0 for none
  inner,   \* the shell whose event sender the registry entry holds, 0: no entry
  chat,    \* session ids in the chat room
  app,     \* progress of each shell's app task
  inChat,  \* shells whose app shows the chat screen
  queue,   \* each shell's event channel
  reaper,  \* progress of the clean-up that follows a disconnect
  writer,  \* is the task that ships a connection's output still running?
  banned,  \* connections whose user or address is banned
  banked   \* shells whose connected time was added to the user's daily total

vars == <<conn, feed, inner, chat, app, inChat, queue, reaper, writer,
          banned, banked>>

Ssh    == Conns \ Web
Shells == Conns \X (1 .. MaxShells)
Events == {"key", "quit"}

Live     == {"start", "loop", "bank", "leave", "leaveChat"}
Finished == {"done", "failed", "aborted"}

-----------------------------------------------------------------------------
Init ==
  /\ conn   = [c \in Conns |-> "idle"]
  /\ feed   = [c \in Conns |-> 0]
  /\ inner  = [c \in Conns |-> 0]
  /\ chat   = {}
  /\ app    = [a \in Shells |-> "none"]
  /\ inChat = {}
  /\ queue  = [a \in Shells |-> << >>]
  /\ reaper = [c \in Conns |-> "none"]
  /\ writer = [c \in Conns |-> TRUE]
  /\ banned = {}
  /\ banked = {}

Move(a, from, to) == app[a] = from /\ app' = [app EXCEPT ![a] = to]

\* The receiving half of the channel is dropped when app::run returns.
Drop(a) == queue' = [queue EXCEPT ![a] = << >>]

\* What follows an event that does not end the session: the next frame is drawn.
\* A draw into a stopped output task fails, and that ends run at once: the time
\* is not banked and the registry is not left.
Drawn(a, rest) ==
  /\ app'   = [app EXCEPT ![a] = IF writer[a[1]] THEN "loop" ELSE "failed"]
  /\ queue' = [queue EXCEPT ![a] = IF writer[a[1]] THEN rest ELSE << >>]

Receives(a, event) ==
  /\ app[a] = "loop"
  /\ queue[a] # << >>
  /\ Head(queue[a]) = event

-----------------------------------------------------------------------------
(* Faulty variants of actions, one plausible slip each.  No specification uses *)
(* them; substituted for the action they imitate they break a property.       *)

\* the handler feeds the channel without waiting for room
FaultyData(c) ==
  LET a == <<c, feed[c]>> IN
  /\ conn[c] = "open"
  /\ feed[c] # 0
  /\ app[a] \in Live
  /\ Len(queue[a]) <= Cap
  /\ queue' = [queue EXCEPT ![a] = Append(@, "key")]
  /\ UNCHANGED <<conn, feed, inner, chat, app, inChat, reaper, writer,
                 banned, banked>>

\* no Drop implementation: the app is trusted to leave
FaultyDisconnect(c) ==
  /\ c \in Ssh
  /\ conn[c] = "open"
  /\ conn'   = [conn EXCEPT ![c] = "closed"]
  /\ feed'   = [feed EXCEPT ![c] = 0]
  /\ reaper' = [reaper EXCEPT ![c] = "done"]
  /\ UNCHANGED <<inner, chat, app, inChat, queue, writer, banned, banked>>

\* the clean-up forgets the registry entry
FaultyReaperLeave(c) ==
  /\ reaper[c] = "leave"
  /\ reaper' = [reaper EXCEPT ![c] = "leaveChat"]
  /\ UNCHANGED <<conn, feed, inner, chat, app, inChat, queue, writer, banned,
                 banked>>

\* the app leaves the chat room but not the registry
FaultyAppLeave(a) ==
  /\ Move(a, "leave", "leaveChat")
  /\ UNCHANGED <<conn, feed, inner, chat, inChat, queue, reaper, writer,
                 banned, banked>>

\* leave forgets the chat room
FaultyAppLeaveChat(a) ==
  /\ Move(a, "leaveChat", "done")
  /\ Drop(a)
  /\ UNCHANGED <<conn, feed, inner, chat, inChat, reaper, writer, banned, banked>>

\* the app loop ignores Event::Quit
FaultyQuit(a) ==
  /\ Receives(a, "key")
  /\ Move(a, "loop", "bank")
  /\ queue' = [queue EXCEPT ![a] = Tail(@)]
  /\ UNCHANGED <<conn, feed, inner, chat, inChat, reaper, writer, banned, banked>>

\* a kick forgets the entry it has just signalled
FaultyKick(c) ==
  LET a == <<c, inner[c]>> IN
  /\ c \in banned
  /\ inner[c] # 0
  /\ app[a] \in Live
  /\ Len(queue[a]) < Cap
  /\ queue' = [queue EXCEPT ![a] = Append(@, "quit")]
  /\ inner' = [inner EXCEPT ![c] = 0]
  /\ UNCHANGED <<conn, feed, chat, app, inChat, reaper, writer, banned, banked>>

-----------------------------------------------------------------------------
(* The transport. *)

\* An SSH client opens a channel and asks for a shell: a new event channel
\* replaces the one the handler fed, the registry entry of the id is
\* overwritten, and an app is spawned.
ShellRequest(c, k) ==
  /\ c \in Ssh
  /\ conn[c] \in {"idle", "open"}
  /\ app[<<c, k>>] = "none"
  /\ \A i \in 1 .. (k - 1) : app[<<c, i>>] # "none"
  /\ conn'  = [conn EXCEPT ![c] = "open"]
  /\ feed'  = [feed EXCEPT ![c] = k]
  /\ inner' = [inner EXCEPT ![c] = k]
  /\ app'   = [app EXCEPT ![<<c, k>>] = "start"]
  /\ UNCHANGED <<chat, inChat, queue, reaper, writer, banned, banked>>

\* A browser logs in over its WebSocket: join the registry, spawn the app.
WsLogin(c) ==
  /\ c \in Web
  /\ conn[c] = "idle"
  /\ conn'  = [conn EXCEPT ![c] = "open"]
  /\ feed'  = [feed EXCEPT ![c] = 1]
  /\ inner' = [inner EXCEPT ![c] = 1]
  /\ app'   = [app EXCEPT ![<<c, 1>>] = "start"]
  /\ UNCHANGED <<chat, inChat, queue, reaper, writer, banned, banked>>

\* The client types: the decoded key goes to the shell the handler feeds.
Data(c) ==
  LET a == <<c, feed[c]>> IN
  /\ conn[c] = "open"
  /\ feed[c] # 0
  /\ app[a] \in Live
  /\ Len(queue[a]) < Cap
  /\ queue' = [queue EXCEPT ![a] = Append(@, "key")]
  /\ UNCHANGED <<conn, feed, inner, chat, app, inChat, reaper, writer,
                 banned, banked>>

\* The connection is gone: russh drops the handler, and with it the sender it
\* held; Drop spawns Presence::leave.
Disconnect(c) ==
  /\ c \in Ssh
  /\ conn[c] = "open"
  /\ conn'   = [conn EXCEPT ![c] = "closed"]
  /\ feed'   = [feed EXCEPT ![c] = 0]
  /\ reaper' = [reaper EXCEPT ![c] = "leave"]
  /\ UNCHANGED <<inner, chat, app, inChat, queue, writer, banned, banked>>

\* The input half of handle_socket's select! ends first (the browser closed,
\* or its event channel did): abort the app task and leave.
WsInputEnded(c) ==
  /\ c \in Web
  /\ conn[c] = "open"
  /\ conn'   = [conn EXCEPT ![c] = "closed"]
  /\ reaper' = [reaper EXCEPT ![c] = "leave"]
  /\ UNCHANGED <<feed, inner, chat, app, inChat, queue, writer, banned, banked>>

\* The app half of the select! ends first: nothing is cleaned up, the app is
\* expected to have left the registry itself.
WsAppEnded(c) ==
  /\ c \in Web
  /\ conn[c] = "open"
  /\ app[<<c, 1>>] \in Finished
  /\ conn'   = [conn EXCEPT ![c] = "closed"]
  /\ feed'   = [feed EXCEPT ![c] = 0]
  /\ reaper' = [reaper EXCEPT ![c] = "done"]
  /\ UNCHANGED <<inner, chat, app, inChat, queue, writer, banned, banked>>

\* The output task of the connection stops because a write to the client
\* failed: for SSH the russh session has ended by then.
WriterStops(c) ==
  /\ c \in Frail
  /\ writer[c]
  /\ conn[c] = "closed" \/ (c \in Web /\ conn[c] = "open")
  /\ writer' = [writer EXCEPT ![c] = FALSE]
  /\ UNCHANGED <<conn, feed, inner, chat, app, inChat, queue, reaper, banned,
                 banked>>

\* Presence::leave of the clean-up: first the registry entry, then the room.
ReaperLeave(c) ==
  /\ reaper[c] = "leave"
  /\ inner'  = [inner EXCEPT ![c] = 0]
  /\ reaper' = [reaper EXCEPT ![c] = "leaveChat"]
  /\ UNCHANGED <<conn, feed, chat, app, inChat, queue, writer, banned, banked>>

ReaperLeaveChat(c) ==
  /\ reaper[c] = "leaveChat"
  /\ chat'   = chat \ {c}
  /\ feed'   = [feed EXCEPT ![c] = 0]
  /\ reaper' = [reaper EXCEPT ![c] = "done"]
  /\ UNCHANGED <<conn, inner, app, inChat, queue, writer, banned, banked>>

-----------------------------------------------------------------------------
(* The app task (app::run). *)

\* The first frame, before the loop.
Start(a) ==
  /\ app[a] = "start"
  /\ Drawn(a, queue[a])
  /\ UNCHANGED <<conn, feed, inner, chat, inChat, reaper, writer, banned, banked>>

\* A key that changes neither the chat room nor the session.
PlainKey(a) ==
  /\ Receives(a, "key")
  /\ Drawn(a, Tail(queue[a]))
  /\ UNCHANGED <<conn, feed, inner, chat, inChat, reaper, writer, banned, banked>>

\* The menu's chat entry, and Esc on the chat screen.
ChatKey(a) ==
  /\ Receives(a, "key")
  /\ \/ /\ a \in inChat
        /\ chat' = chat \ {a[1]}
        /\ inChat' = inChat \ {a}
     \/ /\ a \notin inChat
        /\ chat' = chat \cup {a[1]}
        /\ inChat' = inChat \cup {a}
  /\ Drawn(a, Tail(queue[a]))
  /\ UNCHANGED <<conn, feed, inner, reaper, writer, banned, banked>>

\* Ctrl-C, the menu's Quit, or Event::Quit from the sweeper: leave the loop.
Quit(a) ==
  /\ Receives(a, "key") \/ Receives(a, "quit")
  /\ Move(a, "loop", "bank")
  /\ queue' = [queue EXCEPT ![a] = Tail(@)]
  /\ UNCHANGED <<conn, feed, inner, chat, inChat, reaper, writer, banned, banked>>

\* recv returns None once the channel is empty and every sender is gone: the
\* handler's, and the clone in the registry.
EndOfEvents(a) ==
  /\ queue[a] = << >>
  /\ feed[a[1]] # a[2]
  /\ inner[a[1]] # a[2]
  /\ Move(a, "loop", "bank")
  /\ UNCHANGED <<conn, feed, inner, chat, inChat, queue, reaper, writer,
                 banned, banked>>

BankTime(a) ==
  /\ Move(a, "bank", "leave")
  /\ banked' = banked \cup {a}
  /\ UNCHANGED <<conn, feed, inner, chat, inChat, queue, reaper, writer, banned>>

AppLeave(a) ==
  /\ Move(a, "leave", "leaveChat")
  /\ inner' = [inner EXCEPT ![a[1]] = 0]
  /\ UNCHANGED <<conn, feed, chat, inChat, queue, reaper, writer, banned, banked>>

AppLeaveChat(a) ==
  /\ Move(a, "leaveChat", "done")
  /\ chat' = chat \ {a[1]}
  /\ Drop(a)
  /\ UNCHANGED <<conn, feed, inner, inChat, reaper, writer, banned, banked>>

\* abort() takes effect at the task's next await: an app that was being polled
\* goes on until then, so its other actions stay enabled up to here.
Aborted(a) ==
  /\ a[1] \in Web
  /\ conn[a[1]] = "closed"
  /\ app[a] \in Live
  /\ app' = [app EXCEPT ![a] = "aborted"]
  /\ Drop(a)
  /\ UNCHANGED <<conn, feed, inner, chat, inChat, reaper, writer, banned, banked>>

-----------------------------------------------------------------------------
(* Bans. *)

Ban(c) ==
  /\ Banning
  /\ conn[c] = "open"
  /\ banned' = banned \cup {c}
  /\ UNCHANGED <<conn, feed, inner, chat, app, inChat, queue, reaper, writer,
                 banked>>

\* A sweep reaches the banned session through its registry entry.
Kick(c) ==
  LET a == <<c, inner[c]>> IN
  /\ c \in banned
  /\ inner[c] # 0
  /\ app[a] \in Live
  /\ Len(queue[a]) < Cap
  /\ queue' = [queue EXCEPT ![a] = Append(@, "quit")]
  /\ UNCHANGED <<conn, feed, inner, chat, app, inChat, reaper, writer, banned,
                 banked>>

-----------------------------------------------------------------------------
AppStep(a) ==
  \/ Start(a)
  \/ PlainKey(a)
  \/ ChatKey(a)
  \/ Quit(a)
  \/ EndOfEvents(a)
  \/ BankTime(a)
  \/ AppLeave(a)
  \/ AppLeaveChat(a)
  \/ Aborted(a)

ReaperStep(c) == ReaperLeave(c) \/ ReaperLeaveChat(c)

Next ==
  \/ \E c \in Conns, k \in 1 .. MaxShells : ShellRequest(c, k)
  \/ \E c \in Conns : \/ WsLogin(c)
                      \/ Data(c)
                      \/ Disconnect(c)
                      \/ WsInputEnded(c)
                      \/ WsAppEnded(c)
                      \/ WriterStops(c)
                      \/ ReaperStep(c)
                      \/ Ban(c)
                      \/ Kick(c)
  \/ \E a \in Shells : AppStep(a)

\* Spawned tasks are scheduled; the sweeper runs every tick, and a channel
\* hands its free slots to waiting senders first come first served, so a kick
\* is not overtaken for ever.  Clients owe the board nothing.
Fairness ==
  /\ \A a \in Shells : WF_vars(AppStep(a))
  /\ \A c \in Conns : WF_vars(ReaperStep(c)) /\ WF_vars(WsAppEnded(c))
  /\ \A c \in Conns : SF_vars(Kick(c))

Spec == Init /\ [][Next]_vars /\ Fairness

-----------------------------------------------------------------------------
(* Properties. *)

\* The types, and no event channel ever holds more than its capacity.
TypeOK ==
  /\ conn   \in [Conns -> {"idle", "open", "closed"}]
  /\ feed   \in [Conns -> 0 .. MaxShells]
  /\ inner  \in [Conns -> 0 .. MaxShells]
  /\ chat   \subseteq Conns
  /\ app    \in [Shells -> {"none"} \cup Live \cup Finished]
  /\ inChat \subseteq Shells
  /\ queue  \in [Shells -> Seq(Events)]
  /\ \A a \in Shells : Len(queue[a]) <= Cap
  /\ reaper \in [Conns -> {"none", "leave", "leaveChat", "done"}]
  /\ writer \in [Conns -> BOOLEAN]
  /\ banned \subseteq Conns
  /\ banked \subseteq Shells

\* Everything that runs on behalf of a connection has come to its end.
Settled(c) ==
  /\ conn[c] = "closed"
  /\ reaper[c] = "done"
  /\ \A k \in 1 .. MaxShells : app[<<c, k>>] \in {"none"} \cup Finished

\* A connection that is over is not listed as online, whichever of its tasks
\* happened to clean up last ("the app loop already left presence",
\* web/mod.rs; "Backstop presence cleanup", ssh/server.rs).
NoGhostOnline == \A c \in Conns : Settled(c) => inner[c] = 0

\* ... and is no ghost member of the chat room (Presence::leave).
NoGhostInChat == \A c \in Conns : Settled(c) => c \notin chat

\* While a connection is up and its shell runs, the registry reaches that shell:
\* pages, broadcasts and bans find the session through this entry (Presence::join).
\* It takes one shell per connection: with two, the end of one hides the other.
RunningIsRegistered ==
  \A c \in Conns, k \in 1 .. MaxShells :
     conn[c] = "open" /\ app[<<c, k>>] \in {"start", "loop"} => inner[c] = k

\* A session's time is banked when it ends ("A session's time is banked when it ends",
\* README.md): not where drawing fails or the app is aborted.
TimeIsBanked == \A a \in Shells : app[a] \in Finished => a \in banked

\* A ban ends every shell of the banned connection.
BanLands ==
  \A c \in Conns, k \in 1 .. MaxShells :
     (c \in banned /\ app[<<c, k>>] \in Live) ~> app[<<c, k>>] \in Finished

\* A connection that goes away is cleaned up to the end: no task is left waiting
\* for events that cannot come any more.
ClosedSettles == \A c \in Conns : conn[c] = "closed" ~> Settled(c)

=============================================================================
