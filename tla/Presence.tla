------------------------------ MODULE Presence ------------------------------
(***************************************************************************)
(* The presence registry under concurrency.  It is two reader-writer locks *)
(* (inner: the live sessions, chat: who is in the room) around tables that *)
(* hold every session's bounded event channel.  Joining and leaving take a *)
(* lock to write.  A fan-out (a chat line, a page, a broadcast, a kick)    *)
(* takes inner to read and keeps it while it waits for room in each        *)
(* recipient's channel, one after the other.                               *)
(*                                                                         *)
(* The locks are tokio's: requests are served strictly in order of         *)
(* arrival, so a waiting writer holds back every later reader.             *)
(*                                                                         *)
(* A session here is one app loop, handling one event at a time; the       *)
(* clean-up of a connection that just vanishes is in module Sessions.      *)
(***************************************************************************)
EXTENDS Naturals, Sequences, FiniteSets

CONSTANTS
  Sessions,   \* sessions that come and go
  sweeper,    \* the ban sweeper's task
  Commands,   \* what a key press may ask an app to do
  Cap,        \* capacity of an event channel (64 in the code)
  MaxKeys     \* bound: keys typed by each session's user

ASSUME PresenceAssumption ==
  /\ IsFiniteSet(Sessions)
  /\ sweeper \notin Sessions
  /\ Commands \subseteq {"other", "quit", "enter", "exit", "say", "page",
                         "broadcast", "list", "ban"}
  /\ Cap \in Nat \ {0}
  /\ MaxKeys \in Nat

VARIABLES
  inner,    \* sessions in the registry
  chat,     \* sessions in the chat room
  queue,    \* each session's event channel
  at,       \* where each task is
  op,       \* the registry call it is executing
  to,       \* the recipients a fan-out still has to reach, nearest first
  innerQ,   \* tasks waiting for the lock of inner, in order of arrival
  chatQ,    \* tasks waiting for the lock of chat
  typed,    \* keys typed so far
  banned    \* sessions of banned users

vars == <<inner, chat, queue, at, op, to, innerQ, chatQ, typed, banned>>

Tasks  == Sessions \cup {sweeper}
Events == {"key", "note", "quit"}

\* Calls that hold inner to read while they send, and calls that write a lock.
Fanouts      == {"say", "page", "broadcast", "ban", "kick", "list"}
InnerWriters == {"join", "leave"}
ChatWriters  == {"enter", "exit", "leave"}

-----------------------------------------------------------------------------
Init ==
  /\ inner  = {}
  /\ chat   = {}
  /\ queue  = [s \in Sessions |-> << >>]
  /\ at     = [p \in Tasks |-> IF p = sweeper THEN "idle" ELSE "offline"]
  /\ op     = [p \in Tasks |-> "none"]
  /\ to     = [p \in Tasks |-> << >>]
  /\ innerQ = << >>
  /\ chatQ  = << >>
  /\ typed  = [s \in Sessions |-> 0]
  /\ banned = {}

\* Faulty: a fan-out lets go of the lock before it sends.
FaultyInnerReaders == {}

\* Who holds a lock to read.  A chat line takes chat first and inner second;
\* both are held until its last recipient has the line.
InnerReaders == {p \in Tasks : at[p] = "send"}

ChatReaders  == {p \in Tasks : op[p] = "say" /\ at[p] \in {"waitInner", "send"}}

\* A task calls the registry and queues up for the first lock it needs.
AwaitInner(p, call) ==
  /\ at'     = [at EXCEPT ![p] = "waitInner"]
  /\ op'     = [op EXCEPT ![p] = call]
  /\ innerQ' = Append(innerQ, p)
  /\ UNCHANGED chatQ

AwaitChat(p, call) ==
  /\ at'    = [at EXCEPT ![p] = "waitChat"]
  /\ op'    = [op EXCEPT ![p] = call]
  /\ chatQ' = Append(chatQ, p)
  /\ UNCHANGED innerQ

\* p is the longest waiting task in q: tokio serves it next.
First(p, q) == q # << >> /\ Head(q) = p

\* The call returns to the app loop or to the sweeper; guards are dropped.
Return(p) ==
  /\ at' = [at EXCEPT ![p] = "idle"]
  /\ op' = [op EXCEPT ![p] = "none"]

\* The orders in which a fan-out may visit a set: a hash table's.
Orders(S) == {f \in [1 .. Cardinality(S) -> S] :
                \A i, j \in DOMAIN f : f[i] = f[j] => i = j}

Receive(s, event) ==
  /\ at[s] = "idle"
  /\ queue[s] # << >>
  /\ Head(queue[s]) = event
  /\ queue' = [queue EXCEPT ![s] = Tail(@)]

-----------------------------------------------------------------------------
(* Faulty variants of actions; no specification uses them. *)

\* the loop treats Event::Quit like any event that only asks for a redraw
FaultyQuit(s) ==
  \/ /\ Receive(s, "quit")
     /\ UNCHANGED <<inner, chat, at, op, to, innerQ, chatQ, typed, banned>>
  \/ /\ Receive(s, "key") /\ "quit" \in Commands
     /\ AwaitInner(s, "leave")
     /\ UNCHANGED <<inner, chat, to, typed, banned>>

\* leave forgets the room
FaultyTakeChatToLeave(p) ==
  /\ at[p] = "waitChat"
  /\ op[p] = "leave"
  /\ First(p, chatQ)
  /\ ChatReaders = {}
  /\ chatQ' = Tail(chatQ)
  /\ at'    = [at EXCEPT ![p] = "gone"]
  /\ op'    = [op EXCEPT ![p] = "none"]
  /\ queue' = [queue EXCEPT ![p] = << >>]
  /\ UNCHANGED <<inner, chat, to, innerQ, typed, banned>>

-----------------------------------------------------------------------------
(* The app loop and its user. *)

\* shell_request: register before the app is spawned.  The user got past the
\* login's ban check earlier, so a ban may have come in between.
Connect(s) ==
  /\ at[s] = "offline"
  /\ AwaitInner(s, "join")
  /\ UNCHANGED <<inner, chat, queue, to, typed, banned>>

\* The transport decodes a key and sends it to the app's channel.
Type(s) ==
  /\ s \in inner
  /\ typed[s] < MaxKeys
  /\ Len(queue[s]) < Cap
  /\ typed' = [typed EXCEPT ![s] = @ + 1]
  /\ queue' = [queue EXCEPT ![s] = Append(@, "key")]
  /\ UNCHANGED <<inner, chat, at, op, to, innerQ, chatQ, banned>>

\* A toast or a chat line is drawn; a key may do nothing to the registry.
Redraw(s) ==
  /\ \/ Receive(s, "note")
     \/ Receive(s, "key") /\ "other" \in Commands
  /\ UNCHANGED <<inner, chat, at, op, to, innerQ, chatQ, typed, banned>>

\* The room: enter it from the menu, leave it or talk from the chat screen.
ChatKey(s, call) ==
  /\ call \in Commands \cap {"enter", "exit", "say"}
  /\ (call = "enter") <=> (s \notin chat)
  /\ Receive(s, "key")
  /\ AwaitChat(s, call)
  /\ UNCHANGED <<inner, chat, to, typed, banned>>

\* The sysop bans another user from the admin screen, and kicks them at once.
BanKey(s) ==
  /\ "ban" \in Commands
  /\ s \notin chat
  /\ Receive(s, "key")
  /\ \E t \in Sessions \ {s} : banned' = banned \cup {t}
  /\ AwaitInner(s, "ban")
  /\ UNCHANGED <<inner, chat, to, typed>>

\* Who's online; a page to a user; a sysop's broadcast.
FanoutKey(s, call) ==
  /\ call \in Commands \cap {"list", "page", "broadcast"}
  /\ s \notin chat
  /\ Receive(s, "key")
  /\ AwaitInner(s, call)
  /\ UNCHANGED <<inner, chat, to, typed, banned>>

\* The loop ends on Event::Quit or on the user's wish, and run calls leave.
Quit(s) ==
  /\ \/ Receive(s, "quit")
     \/ Receive(s, "key") /\ "quit" \in Commands
  /\ AwaitInner(s, "leave")
  /\ UNCHANGED <<inner, chat, to, typed, banned>>

-----------------------------------------------------------------------------
(* The registry. *)

\* The recipients a call may have, seen with inner held to read: for a page or a
\* ban, the sessions of some user other than the caller.
Recipients(p, call) ==
  {S \in SUBSET inner :
     /\ call = "say" => S = chat \cap inner
     /\ call \in {"page", "ban"} => p \notin S
     /\ call = "ban" => S \subseteq banned
     /\ call = "broadcast" => S = inner
     /\ call = "kick" => S = inner \cap banned
     /\ call = "list" => S = {}}

TakeInnerToWrite(p) ==
  /\ at[p] = "waitInner"
  /\ op[p] \in InnerWriters
  /\ First(p, innerQ)
  /\ InnerReaders = {}
  /\ innerQ' = Tail(innerQ)
  /\ \/ /\ op[p] = "join"
        /\ inner' = inner \cup {p}
        /\ Return(p)
        /\ UNCHANGED chatQ
     \/ /\ op[p] = "leave"
        /\ inner' = inner \ {p}
        /\ at'    = [at EXCEPT ![p] = "waitChat"]
        /\ chatQ' = Append(chatQ, p)
        /\ UNCHANGED op
  /\ UNCHANGED <<chat, queue, to, typed, banned>>

\* leave keeps the write guard of inner while it waits for chat
FaultyTakeInnerToRead(p) ==
  /\ at[p] = "waitInner"
  /\ op[p] \in Fanouts
  /\ First(p, innerQ)
  /\ \A l \in Tasks : ~(op[l] = "leave" /\ at[l] = "waitChat")
  /\ innerQ' = Tail(innerQ)
  /\ \E S \in Recipients(p, op[p]) : \E f \in Orders(S) :
       \/ f = << >> /\ Return(p) /\ UNCHANGED to
       \/ /\ f # << >>
          /\ to' = [to EXCEPT ![p] = f]
          /\ at' = [at EXCEPT ![p] = "send"]
          /\ UNCHANGED op
  /\ UNCHANGED <<inner, chat, queue, chatQ, typed, banned>>

TakeInnerToRead(p) ==
  /\ at[p] = "waitInner"
  /\ op[p] \in Fanouts
  /\ First(p, innerQ)
  /\ innerQ' = Tail(innerQ)
  /\ \E S \in Recipients(p, op[p]) : \E f \in Orders(S) :
       \/ f = << >> /\ Return(p) /\ UNCHANGED to
       \/ /\ f # << >>
          /\ to' = [to EXCEPT ![p] = f]
          /\ at' = [at EXCEPT ![p] = "send"]
          /\ UNCHANGED op
  /\ UNCHANGED <<inner, chat, queue, chatQ, typed, banned>>

\* leave's second half; run then returns and the channel's receiver is gone.
TakeChatToLeave(p) ==
  /\ at[p] = "waitChat"
  /\ op[p] = "leave"
  /\ First(p, chatQ)
  /\ ChatReaders = {}
  /\ chatQ' = Tail(chatQ)
  /\ chat'  = chat \ {p}
  /\ at'    = [at EXCEPT ![p] = "gone"]
  /\ op'    = [op EXCEPT ![p] = "none"]
  /\ queue' = [queue EXCEPT ![p] = << >>]
  /\ UNCHANGED <<inner, to, innerQ, typed, banned>>

\* chat_join and chat_leave; the app goes on to announce it (chat_send).
TakeChatToWrite(p) ==
  /\ at[p] = "waitChat"
  /\ op[p] \in {"enter", "exit"}
  /\ First(p, chatQ)
  /\ ChatReaders = {}
  /\ chat'  = IF op[p] = "enter" THEN chat \cup {p} ELSE chat \ {p}
  /\ chatQ' = Append(Tail(chatQ), p)
  /\ op'    = [op EXCEPT ![p] = "say"]
  /\ UNCHANGED <<inner, queue, at, to, innerQ, typed, banned>>

TakeChatToRead(p) ==
  /\ at[p] = "waitChat"
  /\ op[p] = "say"
  /\ First(p, chatQ)
  /\ chatQ'  = Tail(chatQ)
  /\ at'     = [at EXCEPT ![p] = "waitInner"]
  /\ innerQ' = Append(innerQ, p)
  /\ UNCHANGED <<inner, chat, queue, op, to, typed, banned>>

\* Faulty: the call does not return with its last send.
FaultySend(p) ==
  LET t == Head(to[p]) IN
  /\ at[p] = "send"
  /\ Len(queue[t]) < Cap
  /\ queue' = [queue EXCEPT ![t] = Append(@, IF op[p] \in {"ban", "kick"} THEN "quit" ELSE "note")]
  /\ to'    = [to EXCEPT ![p] = Tail(@)]
  /\ UNCHANGED <<inner, chat, at, op, innerQ, chatQ, typed, banned>>

\* One send of a fan-out, as soon as the recipient's channel has room.
Send(p) ==
  LET t == Head(to[p]) IN
  /\ at[p] = "send"
  /\ Len(queue[t]) < Cap
  /\ queue' = [queue EXCEPT ![t] = Append(@, IF op[p] \in {"ban", "kick"} THEN "quit" ELSE "note")]
  /\ to'    = [to EXCEPT ![p] = Tail(@)]
  /\ IF Len(to[p]) = 1 THEN Return(p) ELSE UNCHANGED <<at, op>>
  /\ UNCHANGED <<inner, chat, innerQ, chatQ, typed, banned>>

-----------------------------------------------------------------------------
(* Bans. *)

\* bbsctl ban, from another process.
Ban(s) ==
  /\ banned' = banned \cup {s}
  /\ UNCHANGED <<inner, chat, queue, at, op, to, innerQ, chatQ, typed>>

\* A tick of the sweeper.  Ticks are 10 s apart: it does not come round again
\* before a banned session has had the time to take its Quit out of the channel.
Sweep ==
  /\ at[sweeper] = "idle"
  /\ \E s \in banned \cap inner : \A i \in DOMAIN queue[s] : queue[s][i] # "quit"
  /\ AwaitInner(sweeper, "kick")
  /\ UNCHANGED <<inner, chat, queue, to, typed, banned>>

-----------------------------------------------------------------------------
AppStep(s) ==
  \/ Redraw(s)
  \/ Quit(s)
  \/ BanKey(s)
  \/ \E call \in Commands : ChatKey(s, call) \/ FanoutKey(s, call)

RegistryStep(p) ==
  \/ TakeInnerToWrite(p)
  \/ TakeInnerToRead(p)
  \/ TakeChatToLeave(p)
  \/ TakeChatToWrite(p)
  \/ TakeChatToRead(p)

Next ==
  \/ \E s \in Sessions : Connect(s) \/ Type(s) \/ AppStep(s) \/ Ban(s)
  \/ \E p \in Tasks : RegistryStep(p) \/ Send(p)
  \/ Sweep

Fairness ==
  /\ \A s \in Sessions : WF_vars(AppStep(s))
  /\ \A p \in Tasks : WF_vars(RegistryStep(p)) /\ SF_vars(Send(p))
  /\ SF_vars(Sweep)

Spec == Init /\ [][Next]_vars /\ Fairness

-----------------------------------------------------------------------------
(* Properties. *)

Types ==
  /\ inner \subseteq Sessions
  /\ chat \subseteq Sessions
  /\ queue \in [Sessions -> Seq(Events)]
  /\ \A s \in Sessions : Len(queue[s]) <= Cap
  /\ op[sweeper] \in {"none", "kick"}
  /\ at \in [Tasks -> {"offline", "idle", "waitInner", "waitChat", "send", "gone"}]
  /\ op \in [Tasks -> {"none"} \cup Fanouts \cup InnerWriters \cup ChatWriters]
  /\ to \in [Tasks -> Seq(Sessions)]
  /\ innerQ \in Seq(Tasks)
  /\ chatQ \in Seq(Tasks)
  /\ typed \in [Sessions -> 0 .. MaxKeys]
  /\ banned \subseteq Sessions

\* A task is sending exactly as long as somebody is left to reach.
Sending == \A p \in Tasks : at[p] = "send" <=> to[p] # << >>

\* The types, the capacity of the channels, and what it is to be sending.
TypeOK == Types /\ Sending

\* Nobody a fan-out still has to reach can leave the registry, and so drop the
\* receiver, before it was reached: the read lock keeps leave out.
RecipientsStay ==
  \A p \in Tasks : \A i \in DOMAIN to[p] :
     to[p][i] \in inner /\ at[to[p][i]] \notin {"offline", "gone"}

\* The room holds no session that is over (Presence::leave).
NoGhostInChat == \A s \in chat : at[s] # "gone"

\* Every call of the registry returns.
CallsReturn ==
  \A p \in Tasks : at[p] \in {"waitInner", "waitChat", "send"}
                     ~> at[p] \in {"idle", "gone"}

\* A ban drops the live session of the banned user.
BanLands == \A s \in Sessions : (s \in banned /\ s \in inner) ~> at[s] = "gone"

=============================================================================
