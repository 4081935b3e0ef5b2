--------------------------- MODULE Presence_proofs ---------------------------
(***************************************************************************)
(* What holds of the presence registry for every number of sessions, every *)
(* channel capacity and every mix of commands: the type invariant, that a  *)
(* fan-out never sends to a session that is gone, and that the chat room   *)
(* keeps no session whose app loop is over.  Then, of the screens of one   *)
(* such loop, for every configuration: that no key panics but Enter on an  *)
(* empty menu, that every screen shown has its permission and its record,  *)
(* and that Esc leads out.                                                 *)
(***************************************************************************)
EXTENDS Presence, Screens, FiniteSetTheorems, SequenceTheorems, WellFoundedInduction, TLAPS

Places == {"offline", "idle", "waitInner", "waitChat", "send", "gone"}
Calls  == {"none"} \cup Fanouts \cup InnerWriters \cup ChatWriters

USE DEF Tasks, Events, Fanouts, InnerWriters, ChatWriters, Places, Calls

-----------------------------------------------------------------------------
(* What the operators of the model return. *)

\* A visiting order is a sequence over the set it visits.
LEMMA OrdersAreSequences ==
  ASSUME NEW S, IsFiniteSet(S), NEW f \in Orders(S)
  PROVE  f \in Seq(S)
  <1>1. Cardinality(S) \in Nat
    BY FS_CardinalityType
  <1>2. f \in [1 .. Cardinality(S) -> S]
    BY DEF Orders
  <1> QED
    BY <1>1, <1>2

\* A fan-out reaches only registered sessions.
LEMMA RecipientsRegistered ==
  ASSUME Types, NEW p \in Tasks, op[p] \in Fanouts,
         NEW S \in Recipients(p, op[p])
  PROVE  S \subseteq inner /\ IsFiniteSet(S)
  <1>1. S \subseteq inner
    BY DEF Recipients
  <1>2. inner \subseteq Sessions
    BY DEF Types
  <1>3. IsFiniteSet(S)
    BY <1>1, <1>2, FS_Subset, PresenceAssumption
  <1> QED
    BY <1>1, <1>3

\* The order of a fan-out is a sequence of registered sessions.
LEMMA FanoutOrders ==
  ASSUME Types, NEW p \in Tasks, op[p] \in Fanouts,
         NEW S \in Recipients(p, op[p]), NEW f \in Orders(S)
  PROVE  f \in Seq(inner) /\ f \in Seq(Sessions)
  <1>1. S \subseteq inner /\ IsFiniteSet(S)
    BY RecipientsRegistered
  <1>2. f \in Seq(S)
    BY <1>1, OrdersAreSequences
  <1>3. inner \subseteq Sessions
    BY DEF Types
  <1> QED
    BY <1>1, <1>2, <1>3

\* Adding to a channel that has room keeps it a channel within its capacity.
LEMMA Enqueue ==
  ASSUME Types, NEW s \in Sessions, NEW e \in Events, Len(queue[s]) < Cap,
         queue' = [queue EXCEPT ![s] = Append(@, e)]
  PROVE  queue' \in [Sessions -> Seq(Events)]
         /\ \A t \in Sessions : Len(queue'[t]) <= Cap
  <1>1. queue \in [Sessions -> Seq(Events)] /\ Cap \in Nat
    BY PresenceAssumption DEF Types
  <1>2. Append(queue[s], e) \in Seq(Events)
    BY <1>1
  <1>3. Len(Append(queue[s], e)) = Len(queue[s]) + 1 /\ Len(queue[s]) \in Nat
    BY <1>1
  <1>4. queue' \in [Sessions -> Seq(Events)]
    BY <1>1, <1>2
  <1>5. ASSUME NEW t \in Sessions PROVE Len(queue'[t]) <= Cap
    <2>1. CASE t = s
      BY <2>1, <1>1, <1>3
    <2>2. CASE t # s
      BY <2>2, <1>1 DEF Types
    <2> QED
      BY <2>1, <2>2
  <1> QED
    BY <1>4, <1>5

\* Receiving takes one event away and leaves the channel well-formed.
LEMMA Dequeue ==
  ASSUME Types, NEW s \in Sessions, NEW e, Receive(s, e)
  PROVE  queue' \in [Sessions -> Seq(Events)]
         /\ \A t \in Sessions : Len(queue'[t]) <= Cap
  <1>1. queue \in [Sessions -> Seq(Events)] /\ Cap \in Nat
    BY PresenceAssumption DEF Types
  <1>2. queue[s] # << >> /\ queue' = [queue EXCEPT ![s] = Tail(@)]
    BY DEF Receive
  <1>3. Tail(queue[s]) \in Seq(Events)
    BY <1>1, <1>2
  <1>4. Len(Tail(queue[s])) = Len(queue[s]) - 1 /\ Len(queue[s]) \in Nat
    BY <1>1, <1>2
  <1>5. queue' \in [Sessions -> Seq(Events)]
    BY <1>1, <1>2, <1>3
  <1>6. ASSUME NEW t \in Sessions PROVE Len(queue'[t]) <= Cap
    <2>0. Len(queue[t]) <= Cap
      BY DEF Types
    <2>1. CASE t = s
      BY <2>0, <2>1, <1>1, <1>2, <1>4
    <2>2. CASE t # s
      BY <2>0, <2>2, <1>1, <1>2
    <2> QED
      BY <2>1, <2>2
  <1> QED
    BY <1>5, <1>6

\* A task that queues up for a lock leaves the tasks' state well-formed.
LEMMA AwaitTypes ==
  ASSUME Types, NEW p \in Tasks, NEW call \in Calls,
         p = sweeper => call = "kick",
         AwaitInner(p, call) \/ AwaitChat(p, call)
  PROVE  /\ at' \in [Tasks -> Places]
         /\ op' \in [Tasks -> Calls]
         /\ op'[sweeper] \in {"none", "kick"}
         /\ innerQ' \in Seq(Tasks)
         /\ chatQ' \in Seq(Tasks)
  <1>1. at \in [Tasks -> Places] /\ op \in [Tasks -> Calls]
    BY DEF Types
  <1>2. innerQ \in Seq(Tasks) /\ chatQ \in Seq(Tasks)
    BY DEF Types
  <1>3. Append(innerQ, p) \in Seq(Tasks) /\ Append(chatQ, p) \in Seq(Tasks)
    BY <1>2
  <1>4. innerQ' \in Seq(Tasks) /\ chatQ' \in Seq(Tasks)
    BY <1>2, <1>3 DEF AwaitInner, AwaitChat
  <1>5. at' \in [Tasks -> Places] /\ op' \in [Tasks -> Calls]
    BY <1>1 DEF AwaitInner, AwaitChat
  <1>6. op'[sweeper] \in {"none", "kick"}
    BY <1>1 DEF AwaitInner, AwaitChat, Types
  <1> QED
    BY <1>4, <1>5, <1>6

\* The task at the head of a queue may be taken off it.
LEMMA ServedTypes ==
  ASSUME NEW q \in Seq(Tasks), NEW p \in Tasks, First(p, q)
  PROVE  Tail(q) \in Seq(Tasks) /\ Append(Tail(q), p) \in Seq(Tasks)
  BY DEF First

-----------------------------------------------------------------------------
(* Type correctness. *)

LEMMA TypeInit == Init => Types
  <1> SUFFICES ASSUME Init PROVE Types
    OBVIOUS
  <1>1. queue = [s \in Sessions |-> << >>] /\ to = [p \in Tasks |-> << >>]
    BY DEF Init
  <1>2. \A s \in Sessions : Len(queue[s]) <= Cap
    BY <1>1, PresenceAssumption
  <1> QED
    BY <1>1, <1>2, PresenceAssumption DEF Init, Types

\* The steps of the app loop.
LEMMA TypeApp ==
  ASSUME Types, NEW s \in Sessions, AppStep(s)
  PROVE  Types'
  <1>0. s \in Tasks /\ s # sweeper
    BY PresenceAssumption
  <1>1. CASE Redraw(s)
    <2>1. PICK e : Receive(s, e)
      BY <1>1 DEF Redraw
    <2> QED
      BY <1>1, <2>1, Dequeue DEF Redraw, Types
  <1>2. CASE Quit(s)
    <2>1. PICK e : Receive(s, e)
      BY <1>2 DEF Quit
    <2>2. AwaitInner(s, "leave") /\ UNCHANGED <<inner, chat, to, typed, banned>>
      BY <1>2 DEF Quit
    <2> QED
      BY <1>0, <2>1, <2>2, Dequeue, AwaitTypes DEF Types
  <1>3. CASE BanKey(s)
    <2>1. /\ Receive(s, "key")
          /\ AwaitInner(s, "ban")
          /\ banned' \subseteq Sessions
          /\ UNCHANGED <<inner, chat, to, typed>>
      BY <1>3 DEF BanKey, Types
    <2> QED
      BY <1>0, <2>1, Dequeue, AwaitTypes DEF Types
  <1>4. ASSUME NEW call \in Commands, ChatKey(s, call) \/ FanoutKey(s, call)
        PROVE  Types'
    <2>1. /\ call \in Calls
          /\ Receive(s, "key")
          /\ AwaitChat(s, call) \/ AwaitInner(s, call)
          /\ UNCHANGED <<inner, chat, to, typed, banned>>
      BY <1>4 DEF ChatKey, FanoutKey
    <2> QED
      BY <1>0, <2>1, Dequeue, AwaitTypes DEF Types
  <1> QED
    BY <1>1, <1>2, <1>3, <1>4 DEF AppStep

\* The steps that take a lock.
LEMMA TypeRegistry ==
  ASSUME Types, NEW p \in Tasks, RegistryStep(p)
  PROVE  Types'
  <1>0. /\ at \in [Tasks -> Places] /\ op \in [Tasks -> Calls]
        /\ innerQ \in Seq(Tasks) /\ chatQ \in Seq(Tasks)
        /\ queue \in [Sessions -> Seq(Events)] /\ to \in [Tasks -> Seq(Sessions)]
        /\ op[sweeper] \in {"none", "kick"}
    BY DEF Types
  <1>1. CASE TakeInnerToWrite(p)
    <2>1. p \in Sessions
      BY <1>0, <1>1 DEF TakeInnerToWrite
    <2>2. innerQ' \in Seq(Tasks)
      BY <1>0, <1>1, ServedTypes DEF TakeInnerToWrite
    <2>3. Append(chatQ, p) \in Seq(Tasks)
      BY <1>0
    <2>4. at' \in [Tasks -> Places] /\ op' \in [Tasks -> Calls]
          /\ op'[sweeper] \in {"none", "kick"} /\ chatQ' \in Seq(Tasks)
      BY <1>0, <1>1, <2>3 DEF TakeInnerToWrite, Return
    <2>5. inner' \subseteq Sessions
          /\ UNCHANGED <<chat, queue, to, typed, banned>>
      BY <1>1, <2>1 DEF TakeInnerToWrite, Types
    <2> QED
      BY <2>2, <2>4, <2>5 DEF Types
  <1>2. CASE TakeInnerToRead(p)
    <2>1. innerQ' \in Seq(Tasks)
      BY <1>0, <1>2, ServedTypes DEF TakeInnerToRead
    <2>2. PICK S \in Recipients(p, op[p]) : \E f \in Orders(S) :
            \/ f = << >> /\ Return(p) /\ UNCHANGED to
            \/ /\ f # << >>
               /\ to' = [to EXCEPT ![p] = f]
               /\ at' = [at EXCEPT ![p] = "send"]
               /\ UNCHANGED op
      BY <1>2 DEF TakeInnerToRead
    <2>2a. PICK f \in Orders(S) :
            \/ f = << >> /\ Return(p) /\ UNCHANGED to
            \/ /\ f # << >>
               /\ to' = [to EXCEPT ![p] = f]
               /\ at' = [at EXCEPT ![p] = "send"]
               /\ UNCHANGED op
      BY <2>2
    <2>3. f \in Seq(Sessions)
      BY <1>2, FanoutOrders DEF TakeInnerToRead
    <2>4. at' \in [Tasks -> Places] /\ op' \in [Tasks -> Calls]
          /\ op'[sweeper] \in {"none", "kick"} /\ to' \in [Tasks -> Seq(Sessions)]
      BY <1>0, <2>2a, <2>3 DEF Return
    <2>5. UNCHANGED <<inner, chat, queue, chatQ, typed, banned>>
      BY <1>2 DEF TakeInnerToRead
    <2> QED
      BY <2>1, <2>4, <2>5 DEF Types
  <1>3. CASE TakeChatToLeave(p)
    <2>1. p \in Sessions
      BY <1>0, <1>3 DEF TakeChatToLeave
    <2>2. chatQ' \in Seq(Tasks)
      BY <1>0, <1>3, ServedTypes DEF TakeChatToLeave
    <2>3. queue' \in [Sessions -> Seq(Events)]
      BY <1>0, <1>3 DEF TakeChatToLeave
    <2>4. ASSUME NEW s \in Sessions PROVE Len(queue'[s]) <= Cap
      <3>1. CASE s = p
        BY <3>1, <1>0, <1>3, PresenceAssumption DEF TakeChatToLeave
      <3>2. CASE s # p
        BY <3>2, <1>0, <1>3 DEF TakeChatToLeave, Types
      <3> QED
        BY <3>1, <3>2
    <2>5. at' \in [Tasks -> Places] /\ op' \in [Tasks -> Calls]
          /\ op'[sweeper] \in {"none", "kick"}
      BY <1>0, <1>3 DEF TakeChatToLeave
    <2>6. chat' \subseteq Sessions /\ UNCHANGED <<inner, to, innerQ, typed, banned>>
      BY <1>3 DEF TakeChatToLeave, Types
    <2> QED
      BY <2>2, <2>3, <2>4, <2>5, <2>6 DEF Types
  <1>4. CASE TakeChatToWrite(p)
    <2>1. p \in Sessions
      BY <1>0, <1>4 DEF TakeChatToWrite
    <2>2. chatQ' \in Seq(Tasks)
      BY <1>0, <1>4, ServedTypes DEF TakeChatToWrite
    <2>3. op' \in [Tasks -> Calls] /\ op'[sweeper] \in {"none", "kick"}
      BY <1>0, <1>4 DEF TakeChatToWrite
    <2>4. chat' \subseteq Sessions
          /\ UNCHANGED <<inner, queue, at, to, innerQ, typed, banned>>
      BY <1>4, <2>1 DEF TakeChatToWrite, Types
    <2> QED
      BY <2>2, <2>3, <2>4 DEF Types
  <1>5. CASE TakeChatToRead(p)
    <2>1. chatQ' \in Seq(Tasks)
      BY <1>0, <1>5, ServedTypes DEF TakeChatToRead
    <2>2. innerQ' \in Seq(Tasks)
      BY <1>0, <1>5 DEF TakeChatToRead
    <2>3. at' \in [Tasks -> Places]
          /\ UNCHANGED <<inner, chat, queue, op, to, typed, banned>>
      BY <1>0, <1>5 DEF TakeChatToRead
    <2> QED
      BY <2>1, <2>2, <2>3 DEF Types
  <1> QED
    BY <1>1, <1>2, <1>3, <1>4, <1>5 DEF RegistryStep

LEMMA TypeSend ==
  ASSUME Types, NEW p \in Tasks, Send(p), to[p] # << >>
  PROVE  Types'
  <1> DEFINE t == Head(to[p])
  <1>1. /\ at \in [Tasks -> Places] /\ op \in [Tasks -> Calls]
        /\ to \in [Tasks -> Seq(Sessions)]
        /\ op[sweeper] \in {"none", "kick"}
    BY DEF Types
  <1>2. t \in Sessions /\ Tail(to[p]) \in Seq(Sessions)
    BY <1>1
  <1>3. PICK e \in Events : queue' = [queue EXCEPT ![t] = Append(@, e)]
    BY DEF Send
  <1>4. queue' \in [Sessions -> Seq(Events)]
        /\ \A s \in Sessions : Len(queue'[s]) <= Cap
    BY <1>2, <1>3, Enqueue DEF Send
  <1>5. to' \in [Tasks -> Seq(Sessions)]
    BY <1>1, <1>2 DEF Send
  <1>6. at' \in [Tasks -> Places] /\ op' \in [Tasks -> Calls]
        /\ op'[sweeper] \in {"none", "kick"}
    BY <1>1 DEF Send, Return
  <1>7. UNCHANGED <<inner, chat, innerQ, chatQ, typed, banned>>
    BY DEF Send
  <1> QED
    BY <1>4, <1>5, <1>6, <1>7 DEF Types

LEMMA TypeStep == Types /\ Sending /\ [Next]_vars => Types'
  <1> SUFFICES ASSUME Types, Sending, [Next]_vars PROVE Types'
    OBVIOUS
  <1>1. ASSUME NEW s \in Sessions, Connect(s) PROVE Types'
    <2>1. s \in Tasks /\ s # sweeper
      BY PresenceAssumption
    <2>2. AwaitInner(s, "join") /\ UNCHANGED <<inner, chat, queue, to, typed, banned>>
      BY <1>1 DEF Connect
    <2> QED
      BY <2>1, <2>2, AwaitTypes DEF Types
  <1>2. ASSUME NEW s \in Sessions, Type(s) PROVE Types'
    <2>1. queue' \in [Sessions -> Seq(Events)]
          /\ \A t \in Sessions : Len(queue'[t]) <= Cap
      BY <1>2, Enqueue DEF Type
    <2>2. typed' \in [Sessions -> 0 .. MaxKeys]
      <3>1. typed \in [Sessions -> 0 .. MaxKeys] /\ MaxKeys \in Nat
        BY PresenceAssumption DEF Types
      <3>2. typed[s] \in 0 .. MaxKeys /\ typed[s] < MaxKeys
        BY <1>2, <3>1 DEF Type
      <3>3. typed[s] + 1 \in 0 .. MaxKeys
        BY <3>1, <3>2
      <3>4. typed' = [typed EXCEPT ![s] = typed[s] + 1]
        BY <1>2 DEF Type
      <3> QED
        BY <3>1, <3>3, <3>4
    <2> QED
      BY <1>2, <2>1, <2>2 DEF Type, Types
  <1>3. ASSUME NEW s \in Sessions, AppStep(s) PROVE Types'
    BY <1>3, TypeApp
  <1>4. ASSUME NEW s \in Sessions, Ban(s) PROVE Types'
    BY <1>4 DEF Ban, Types
  <1>5. ASSUME NEW p \in Tasks, RegistryStep(p) PROVE Types'
    BY <1>5, TypeRegistry
  <1>6. ASSUME NEW p \in Tasks, Send(p) PROVE Types'
    BY <1>6, TypeSend DEF Send, Sending
  <1>7. CASE Sweep
    <2>1. AwaitInner(sweeper, "kick") /\ UNCHANGED <<inner, chat, queue, to, typed, banned>>
      BY <1>7 DEF Sweep
    <2> QED
      BY <2>1, AwaitTypes DEF Types
  <1>8. CASE UNCHANGED vars
    BY <1>8 DEF vars, Types
  <1> QED
    BY <1>1, <1>2, <1>3, <1>4, <1>5, <1>6, <1>7, <1>8 DEF Next

-----------------------------------------------------------------------------
(* The lock discipline.  A fan-out holds inner to read while recipients are *)
(* left, so no session leaves the registry meanwhile; and an app loop is    *)
(* over only after its session left the registry, and then the room.        *)

\* A session that has left the registry, or was never in it, is not in it.
OutsideInner ==
  \A s \in Sessions :
     at[s] \in {"offline", "gone"} \/ (at[s] = "waitChat" /\ op[s] = "leave")
       => s \notin inner

\* Whoever is left to reach is registered.
ReachesRegistered == \A p \in Tasks : \A i \in DOMAIN to[p] : to[p][i] \in inner

LockInv ==
  /\ Types
  /\ Sending
  /\ OutsideInner
  /\ ReachesRegistered
  /\ NoGhostInChat

LEMMA LockInit == Init => LockInv
  <1> SUFFICES ASSUME Init PROVE LockInv
    OBVIOUS
  <1>1. Types
    BY TypeInit
  <1>2. Sending /\ OutsideInner /\ ReachesRegistered /\ NoGhostInChat
    BY PresenceAssumption
       DEF Init, Sending, OutsideInner, ReachesRegistered, NoGhostInChat
  <1> QED
    BY <1>1, <1>2 DEF LockInv

\* A task that was not sending and queues up for a lock disturbs nothing.
LEMMA LockAwait ==
  ASSUME LockInv, NEW p \in Tasks, at[p] \in {"idle", "offline"},
         NEW call,
         AwaitInner(p, call) \/ (AwaitChat(p, call) /\ call # "leave"),
         UNCHANGED <<inner, chat, to>>
  PROVE  Sending' /\ OutsideInner' /\ ReachesRegistered' /\ NoGhostInChat'
  <1>1. at \in [Tasks -> Places] /\ op \in [Tasks -> Calls] /\ chat \subseteq Sessions
    BY DEF LockInv, Types
  <1>2. Sending'
    BY <1>1 DEF LockInv, Sending, AwaitInner, AwaitChat
  <1>3. OutsideInner'
    BY <1>1, PresenceAssumption DEF LockInv, OutsideInner, AwaitInner, AwaitChat
  <1>4. ReachesRegistered'
    BY DEF LockInv, ReachesRegistered
  <1>5. NoGhostInChat'
    BY <1>1 DEF LockInv, NoGhostInChat, AwaitInner, AwaitChat
  <1> QED
    BY <1>2, <1>3, <1>4, <1>5

LEMMA LockApp ==
  ASSUME LockInv, NEW s \in Sessions, AppStep(s)
  PROVE  Sending' /\ OutsideInner' /\ ReachesRegistered' /\ NoGhostInChat'
  <1>0. s \in Tasks
    OBVIOUS
  <1>1. CASE Redraw(s)
    BY <1>1 DEF Redraw, LockInv, Sending, OutsideInner, ReachesRegistered, NoGhostInChat
  <1>2. CASE Quit(s)
    <2>1. at[s] = "idle" /\ AwaitInner(s, "leave") /\ UNCHANGED <<inner, chat, to>>
      BY <1>2 DEF Quit, Receive
    <2> QED
      BY <1>0, <2>1, LockAwait
  <1>3. CASE BanKey(s)
    <2>1. at[s] = "idle" /\ AwaitInner(s, "ban") /\ UNCHANGED <<inner, chat, to>>
      BY <1>3 DEF BanKey, Receive
    <2> QED
      BY <1>0, <2>1, LockAwait
  <1>4. ASSUME NEW call \in Commands, ChatKey(s, call) \/ FanoutKey(s, call)
        PROVE  Sending' /\ OutsideInner' /\ ReachesRegistered' /\ NoGhostInChat'
    <2>1. at[s] = "idle" /\ call # "leave" /\ UNCHANGED <<inner, chat, to>>
          /\ (AwaitInner(s, call) \/ AwaitChat(s, call))
      BY <1>4 DEF ChatKey, FanoutKey, Receive
    <2> QED
      BY <1>0, <2>1, LockAwait
  <1> QED
    BY <1>1, <1>2, <1>3, <1>4 DEF AppStep

LEMMA LockRegistry ==
  ASSUME LockInv, NEW p \in Tasks, RegistryStep(p)
  PROVE  Sending' /\ OutsideInner' /\ ReachesRegistered' /\ NoGhostInChat'
  <1>0. /\ at \in [Tasks -> Places] /\ op \in [Tasks -> Calls]
        /\ to \in [Tasks -> Seq(Sessions)]
        /\ inner \subseteq Sessions /\ chat \subseteq Sessions
        /\ Sending /\ OutsideInner /\ ReachesRegistered /\ NoGhostInChat
    BY DEF LockInv, Types
  <1>1. CASE TakeInnerToWrite(p)
    <2>1. ASSUME NEW q \in Tasks PROVE at[q] # "send" /\ to[q] = << >>
      BY <1>0, <1>1 DEF TakeInnerToWrite, InnerReaders, Sending
    <2>2. to' = to
      BY <1>1 DEF TakeInnerToWrite
    <2>3. Sending'
      BY <1>0, <1>1, <2>1, <2>2 DEF TakeInnerToWrite, Return, Sending
    <2>4. ReachesRegistered'
      BY <2>1, <2>2 DEF ReachesRegistered
    <2>5. OutsideInner'
      BY <1>0, <1>1 DEF TakeInnerToWrite, Return, OutsideInner
    <2>6. NoGhostInChat'
      BY <1>0, <1>1 DEF TakeInnerToWrite, Return, NoGhostInChat
    <2> QED
      BY <2>3, <2>4, <2>5, <2>6
  <1>2. CASE TakeInnerToRead(p)
    <2>0. at[p] = "waitInner" /\ op[p] \in Fanouts /\ UNCHANGED <<inner, chat>>
      BY <1>2 DEF TakeInnerToRead
    <2>1. PICK S \in Recipients(p, op[p]) : \E f \in Orders(S) :
            \/ f = << >> /\ Return(p) /\ UNCHANGED to
            \/ /\ f # << >>
               /\ to' = [to EXCEPT ![p] = f]
               /\ at' = [at EXCEPT ![p] = "send"]
               /\ UNCHANGED op
      BY <1>2 DEF TakeInnerToRead
    <2>2. PICK f \in Orders(S) :
            \/ f = << >> /\ Return(p) /\ UNCHANGED to
            \/ /\ f # << >>
               /\ to' = [to EXCEPT ![p] = f]
               /\ at' = [at EXCEPT ![p] = "send"]
               /\ UNCHANGED op
      BY <2>1
    <2>3. f \in Seq(inner)
      BY <2>0, FanoutOrders DEF LockInv
    <2>4. to[p] = << >>
      BY <1>0, <2>0 DEF Sending
    <2>5. Sending'
      BY <1>0, <2>2, <2>4 DEF Return, Sending
    <2>6. ASSUME NEW q \in Tasks, NEW i \in DOMAIN to'[q] PROVE to'[q][i] \in inner
      <3>1. CASE to' = to
        BY <1>0, <2>6, <3>1 DEF ReachesRegistered
      <3>2. CASE to' = [to EXCEPT ![p] = f] /\ q = p
        <4>1. to'[q] = f
          BY <1>0, <3>2
        <4> QED
          BY <2>3, <2>6, <4>1
      <3>3. CASE to' = [to EXCEPT ![p] = f] /\ q # p
        <4>1. to'[q] = to[q]
          BY <1>0, <3>3
        <4> QED
          BY <1>0, <2>6, <4>1 DEF ReachesRegistered
      <3> QED
        BY <2>2, <3>1, <3>2, <3>3
    <2>7. OutsideInner'
      BY <1>0, <2>0, <2>2 DEF Return, OutsideInner
    <2>8. NoGhostInChat'
      BY <1>0, <2>0, <2>2 DEF Return, NoGhostInChat
    <2> QED
      BY <2>0, <2>5, <2>6, <2>7, <2>8 DEF ReachesRegistered
  <1>3. CASE TakeChatToLeave(p)
    BY <1>0, <1>3 DEF TakeChatToLeave, Sending, OutsideInner, ReachesRegistered,
                      NoGhostInChat
  <1>4. CASE TakeChatToWrite(p)
    BY <1>0, <1>4 DEF TakeChatToWrite, Sending, OutsideInner, ReachesRegistered,
                      NoGhostInChat
  <1>5. CASE TakeChatToRead(p)
    BY <1>0, <1>5 DEF TakeChatToRead, Sending, OutsideInner, ReachesRegistered,
                      NoGhostInChat
  <1> QED
    BY <1>1, <1>2, <1>3, <1>4, <1>5 DEF RegistryStep

LEMMA LockSend ==
  ASSUME LockInv, NEW p \in Tasks, Send(p)
  PROVE  Sending' /\ OutsideInner' /\ ReachesRegistered' /\ NoGhostInChat'
  <1>0. /\ at \in [Tasks -> Places] /\ op \in [Tasks -> Calls]
        /\ to \in [Tasks -> Seq(Sessions)] /\ chat \subseteq Sessions
        /\ Sending /\ OutsideInner /\ ReachesRegistered /\ NoGhostInChat
    BY DEF LockInv, Types
  <1>1. /\ at[p] = "send" /\ UNCHANGED <<inner, chat>>
        /\ to' = [to EXCEPT ![p] = Tail(@)]
        /\ IF Len(to[p]) = 1 THEN Return(p) ELSE UNCHANGED <<at, op>>
    BY DEF Send
  <1>2. to[p] \in Seq(Sessions) /\ to[p] # << >>
    BY <1>0, <1>1 DEF Sending
  <1>3. Tail(to[p]) = << >> <=> Len(to[p]) = 1
    <2>1. Tail(to[p]) \in Seq(Sessions) /\ Len(Tail(to[p])) = Len(to[p]) - 1
      BY <1>2
    <2>2. Tail(to[p]) = << >> <=> Len(Tail(to[p])) = 0
      BY <2>1, EmptySeq
    <2>3. Len(to[p]) \in Nat
      BY <1>2
    <2> QED
      BY <2>1, <2>2, <2>3
  <1>4. \A i \in DOMAIN Tail(to[p]) : i + 1 \in DOMAIN to[p]
                                      /\ Tail(to[p])[i] = to[p][i + 1]
    BY <1>2
  <1>5. Sending'
    BY <1>0, <1>1, <1>3 DEF Return, Sending
  <1>6. ASSUME NEW q \in Tasks, NEW i \in DOMAIN to'[q] PROVE to'[q][i] \in inner
    <2>1. CASE q = p
      BY <2>1, <1>0, <1>1, <1>4, <1>6 DEF ReachesRegistered
    <2>2. CASE q # p
      BY <2>2, <1>0, <1>1, <1>6 DEF ReachesRegistered
    <2> QED
      BY <2>1, <2>2
  <1>7. OutsideInner' /\ NoGhostInChat'
    BY <1>0, <1>1 DEF Return, OutsideInner, NoGhostInChat
  <1> QED
    BY <1>1, <1>5, <1>6, <1>7 DEF ReachesRegistered

LEMMA LockStep == LockInv /\ [Next]_vars => LockInv'
  <1> SUFFICES ASSUME LockInv, [Next]_vars PROVE LockInv'
    OBVIOUS
  <1> DEFINE Rest == Sending /\ OutsideInner /\ ReachesRegistered /\ NoGhostInChat
  <1>1. Types'
    BY TypeStep DEF LockInv
  <1>2. ASSUME NEW s \in Sessions, Connect(s) PROVE Rest'
    <2>1. s \in Tasks /\ at[s] = "offline" /\ AwaitInner(s, "join")
          /\ UNCHANGED <<inner, chat, to>>
      BY <1>2 DEF Connect
    <2> QED
      BY <2>1, LockAwait
  <1>3. ASSUME NEW s \in Sessions, Type(s) \/ Ban(s) PROVE Rest'
    BY <1>3 DEF Type, Ban, LockInv, Sending, OutsideInner, ReachesRegistered, NoGhostInChat
  <1>4. ASSUME NEW s \in Sessions, AppStep(s) PROVE Rest'
    BY <1>4, LockApp
  <1>5. ASSUME NEW p \in Tasks, RegistryStep(p) PROVE Rest'
    BY <1>5, LockRegistry
  <1>6. ASSUME NEW p \in Tasks, Send(p) PROVE Rest'
    BY <1>6, LockSend
  <1>7. ASSUME Sweep PROVE Rest'
    <2>1. at[sweeper] = "idle" /\ AwaitInner(sweeper, "kick")
          /\ UNCHANGED <<inner, chat, to>>
      BY <1>7 DEF Sweep
    <2>2. sweeper \in Tasks /\ at[sweeper] \in {"idle", "offline"}
      BY <2>1
    <2> QED
      BY <2>1, <2>2, LockAwait
  <1>8. ASSUME UNCHANGED vars PROVE Rest'
    BY <1>8 DEF vars, LockInv, Sending, OutsideInner, ReachesRegistered, NoGhostInChat
  <1>9. Rest'
    BY <1>2, <1>3, <1>4, <1>5, <1>6, <1>7, <1>8 DEF Next
  <1> QED
    BY <1>1, <1>9 DEF LockInv

\* The sessions a fan-out has yet to reach are registered and their app loops
\* still run.
LEMMA LockReaches == LockInv => RecipientsStay
  BY DEF LockInv, Types, OutsideInner, ReachesRegistered, RecipientsStay

LEMMA LockAlways == Spec => []LockInv
  BY LockInit, LockStep, PTL DEF Spec

-----------------------------------------------------------------------------
(* The theorems. *)

\* Every variable keeps its type, and no event channel holds more than its
\* capacity, whatever the number of sessions and the commands.
THEOREM TypeCorrect == Spec => []TypeOK
  <1>1. LockInv => TypeOK
    BY DEF LockInv, TypeOK
  <1> QED
    BY <1>1, LockAlways, PTL

\* chat_send, send_to_user, broadcast and kick never send into the channel of a
\* session that has left: the read lock they hold keeps Presence::leave out.
THEOREM FanoutReachesLive == Spec => []RecipientsStay
  BY LockReaches, LockAlways, PTL

\* Presence::leave leaves no ghost member behind in the chat room, as long as it
\* is called by the app loop that joined.
THEOREM RoomIsLive == Spec => []NoGhostInChat
  <1>1. LockInv => NoGhostInChat
    BY DEF LockInv
  <1> QED
    BY <1>1, LockAlways, PTL

-----------------------------------------------------------------------------
(* Screens: what the operators of the model return.                         *)

\* A set of naturals that holds 0 and with each number the next holds them all.
LEMMA NatsIn ==
  ASSUME NEW T, 0 \in T, \A n \in Nat : n \in T => n + 1 \in T
  PROVE  \A n \in Nat : n \in T
  <1> DEFINE R == {ss \in Nat \X Nat : ss[1] < ss[2]}
  <1>1. IsWellFoundedOn(R, Nat)
    BY NatLessThanWellFounded, Zenon DEF OpToRel
  <1>2. ASSUME NEW n \in Nat \ {0} PROVE <<n - 1, n>> \in R
    <2>1. <<n - 1, n>>[1] < <<n - 1, n>>[2] /\ <<n - 1, n>> \in Nat \X Nat
      OBVIOUS
    <2> QED
      BY <2>1, Zenon
  <1> HIDE DEF R
  <1> SUFFICES ASSUME Nat \ T # {} PROVE FALSE
    OBVIOUS
  <1>3. PICK n \in Nat \ T : \A m \in Nat \ T : <<m, n>> \notin R
    <2>1. Nat \ T \subseteq Nat
      OBVIOUS
    <2> QED
      BY <1>1, <2>1, WFMin
  <1>4. n # 0 /\ n - 1 \in Nat /\ (n - 1) + 1 = n
    BY <1>3
  <1>5. n - 1 \in T
    BY <1>2, <1>3, <1>4
  <1> QED
    BY <1>3, <1>4, <1>5

\* A group shown is the available part of the group written.
LEMMA GroupsShow ==
  ASSUME NEW c, NEW role, NEW T, NEW es \in Seq(T)
  PROVE  BuildGroup(es, c, role) \in Seq({e \in T : Available(e, c, role)})
  <1> DEFINE Shown == {e \in T : Available(e, c, role)}
             Longer(s, e) == IF Available(e, c, role) THEN Append(s, e) ELSE s
             Solves(f, n) == f = [m \in 0 .. n |-> IF m = 0 THEN <<>> ELSE Longer(f[m - 1], es[m])]
             Done == {n \in Nat : \E f : Solves(f, n)}
  <1>1. 0 \in Done
    <2>1. Solves([m \in 0 .. 0 |-> <<>>], 0)
      OBVIOUS
    <2> QED
      BY <2>1
  <1>2. ASSUME NEW n \in Nat, n \in Done PROVE n + 1 \in Done
    <2>1. PICK f : Solves(f, n)
      BY <1>2
    <2> DEFINE g == [m \in 0 .. n + 1 |-> IF m = n + 1 THEN Longer(f[n], es[n + 1]) ELSE f[m]]
    <2>2. \A m \in 0 .. n : g[m] = f[m]
      OBVIOUS
    <2>3. ASSUME NEW m \in 0 .. n + 1
          PROVE  g[m] = IF m = 0 THEN <<>> ELSE Longer(g[m - 1], es[m])
      <3>1. CASE m = n + 1
        <4>1. g[n] = f[n]
          BY <2>2
        <4>2. m - 1 = n /\ m # 0
          BY <3>1
        <4> HIDE DEF Longer
        <4> QED
          BY <3>1, <4>1, <4>2
      <3>2. CASE m \in 0 .. n
        <4>1. f[m] = IF m = 0 THEN <<>> ELSE Longer(f[m - 1], es[m])
          <5> HIDE DEF Longer
          <5> QED BY <2>1, <3>2
        <4>2. m # 0 => g[m - 1] = f[m - 1]
          BY <3>2, <2>2
        <4> HIDE DEF Longer, g
        <4> QED
          BY <2>2, <3>2, <4>1, <4>2
      <3> QED
        BY <3>1, <3>2
    <2>4. Solves(g, n + 1)
      <3>1. g = [m \in 0 .. n + 1 |-> g[m]]
        OBVIOUS
      <3> HIDE DEF g, Longer
      <3> QED
        BY <2>3, <3>1
    <2> HIDE DEF Solves, g
    <2> QED
      BY <2>4
  <1>3. \A n \in Nat : n \in Done
    <2> HIDE DEF Done
    <2> QED BY <1>1, <1>2, NatsIn
  <1>4. Len(es) \in Nat
    OBVIOUS
  <1> DEFINE kept == CHOOSE f : Solves(f, Len(es))
  <1>5. Solves(kept, Len(es))
    <2> HIDE DEF Solves
    <2> QED BY <1>3, <1>4
  <1>6. BuildGroup(es, c, role) = kept[Len(es)]
    BY DEF BuildGroup
  <1> HIDE DEF kept
  <1> DEFINE Good == {n \in Nat : n <= Len(es) => kept[n] \in Seq(Shown)}
  <1>7. 0 \in Good
    BY <1>5, <1>4
  <1>8. ASSUME NEW n \in Nat, n \in Good PROVE n + 1 \in Good
    <2> SUFFICES ASSUME n + 1 <= Len(es) PROVE kept[n + 1] \in Seq(Shown)
      OBVIOUS
    <2>1. kept[n] \in Seq(Shown)
      BY <1>8, <1>4
    <2>2. es[n + 1] \in T
      OBVIOUS
    <2>3. kept[n + 1] = Longer(kept[n], es[n + 1])
      <3>1. n + 1 \in 0 .. Len(es) /\ n + 1 # 0 /\ (n + 1) - 1 = n
        BY <1>4
      <3> HIDE DEF Longer
      <3> QED BY <1>5, <3>1
    <2>4. CASE Available(es[n + 1], c, role)
      <3>1. es[n + 1] \in Shown
        BY <2>2, <2>4
      <3> HIDE DEF Shown
      <3> QED
        BY <2>1, <2>3, <2>4, <3>1
    <2>5. CASE ~Available(es[n + 1], c, role)
      BY <2>1, <2>3, <2>5
    <2> QED
      BY <2>4, <2>5
  <1>9. \A n \in Nat : n \in Good
    <2> HIDE DEF Good
    <2> QED BY <1>7, <1>8, NatsIn
  <1> QED
    BY <1>4, <1>6, <1>9

-----------------------------------------------------------------------------
(* Screens: the invariant.  ScreenInv is about the screen shown and the     *)
(* fields that say where Esc returns to, MenuInv about the stack of menus.  *)

Roles == {"guest", "user", "admin"}
Fields ==
  {"role", "quit", "panicked", "force", "screen", "form", "menu", "sel", "stack", "poll",
   "rboard", "board", "message", "edit", "pending", "attachBack", "viewBack", "file",
   "archive", "textBack", "profile", "profileBack", "mail", "page", "fed", "door", "chat"}
ScreenNames ==
  {"Bulletins", "Oneliners", "Polls", "Chat", "Timeline", "RemoteBoards", "BoardList",
   "Mailbox", "MailSysop", "WhoOnline", "Stats", "SearchInput", "SearchResults",
   "Doors", "FileAreas", "Keys", "Register", "Help", "AdminUsers", "ReadBulletin",
   "ComposeOneliner", "ViewPoll", "ComposePoll", "FollowRemote", "RemoteBoardPosts",
   "ComposeRemotePost", "MessageList", "ReadMessage", "ComposePost", "ReadMail",
   "ComposeMail", "ConfirmDeleteMail", "MailSearchInput", "MailSearchResults",
   "ComposePage", "IgnoreList", "EditProfile", "FileList", "FileDetail", "EditFileDesc",
   "ArchiveList", "AddKey", "ChangePassword", "AdminLogins", "AdminAudit",
   "AdminFederation", "ComposeFederation", "ComposeBroadcast", "Profile", "FileView",
   "AttachPicker", "Attachments", "MainMenu"}

FieldsHold ==
  /\ config \in Configs
  /\ DOMAIN app = Fields
  /\ app.role \in Roles
  /\ app.screen \in ScreenNames
  /\ app.form \in 0 .. PollForm
  /\ "own" \in {app.message, app.edit} => ~Guest
  /\ app.pending \subseteq Files
  /\ app.file \in Files \cup {None}
  /\ app.archive \in Files \cup {None}
  /\ app.profileBack \in {"MainMenu", "WhoOnline"}
  /\ app.viewBack \in {"ReadMessage", "ReadMail"}
  /\ app.attachBack \in {"ComposePost", "ComposeMail"}
  /\ app.textBack \in {"FileDetail", "Attachments", "ArchiveList"}

\* The form has the fields that the submission from screen s reads.
Filled(s) ==
  /\ s = "ComposePoll" => app.form >= PollForm
  /\ s = "EditProfile" => app.form >= ProfileForm
  /\ s = "Register" => app.form >= 3
  /\ s = "ChangePassword" => app.form >= PasswordForm(app.force)
  /\ s \in {"ComposeRemotePost", "ComposeMail"} => app.form >= 2
  /\ s \in {"ComposeOneliner", "FollowRemote", "ComposePost", "SearchInput", "EditFileDesc",
            "MailSearchInput", "MailSysop", "ComposePage", "AddKey", "ComposeBroadcast",
            "ComposeFederation"} => app.form >= 1

\* What GatesHold says, of screen s.
Gate(s) ==
  /\ s \in {"AdminUsers", "AdminLogins", "AdminAudit", "AdminFederation", "ComposeFederation",
            "ComposeBroadcast"} => Admin
  /\ s \in {"Mailbox", "ReadMail", "ComposeMail", "ConfirmDeleteMail", "MailSearchInput",
            "MailSearchResults"} => ~Guest /\ "mail" \in config.features
  /\ s \in {"Keys", "AddKey"} => ~Guest /\ "keys" \in config.features
  /\ s = "MailSysop" => ~Guest /\ "mail_sysop" \in config.features
  /\ s \in {"ComposeOneliner", "ComposePoll", "FollowRemote", "ComposeRemotePost",
            "ComposePost",
            "ComposePage", "EditProfile", "IgnoreList", "ChangePassword",
                      "AttachPicker"} => ~Guest
  /\ s \in {"Oneliners", "ComposeOneliner"} => "oneliners" \in config.features
  /\ s \in {"Polls", "ViewPoll", "ComposePoll"} => "polls" \in config.features
  /\ s = "Chat" => "chat" \in config.features
  /\ s \in {"WhoOnline", "ComposePage"} => "who" \in config.features
  /\ s \in {"Timeline", "FollowRemote"} => "timeline" \in config.features
  /\ s \in {"RemoteBoards", "RemoteBoardPosts", "ComposeRemotePost"} =>
       "remote_boards" \in config.features
  /\ s = "Register" => "register" \in config.features

\* The record that screen s works on is there.
Record(s) ==
  /\ s \in {"MessageList", "ReadMessage", "ComposePost"} => app.board # None
  /\ s = "ReadMessage" => app.message # None
  /\ s = "ReadMail" => app.mail
  /\ s = "Profile" => app.profile # None
  /\ s \in {"EditProfile", "IgnoreList"} => app.profile = "own"
  /\ s = "ChangePassword" /\ ~app.force => app.profile = "own"

\* Screen s may be shown.
Ready(s) == Filled(s) /\ Gate(s) /\ Record(s)

\* Screen s may be shown, and what Esc returns to from it.
Around(s) ==
  /\ Ready(s)
  /\ s = "AttachPicker" => Ready(app.attachBack)
  /\ s = "Attachments" \/ (s = "FileView" /\ app.textBack = "Attachments") =>
       Ready(app.viewBack)

\* What is under way belongs to screen s.
Draft(s) ==
  /\ app.edit # None => "ComposePost" = IF s = "AttachPicker" THEN app.attachBack ELSE s
  /\ app.poll # None => s = "ViewPoll"
  /\ app.rboard # None <=> s \in {"RemoteBoardPosts", "ComposeRemotePost"}
  /\ app.page <=> s = "ComposePage"
  /\ app.fed <=> s = "ComposeFederation"
  /\ app.chat <=> s = "Chat"

ScreenInv ==
  FieldsHold /\ Around(app.screen) /\ Gate(app.profileBack) /\ Draft(app.screen)

MenuKept ==
  /\ config' = config /\ app'.role = app.role /\ app'.panicked = app.panicked
  /\ app'.menu = app.menu /\ app'.sel = app.sel /\ app'.stack = app.stack

\* The names of the screens, and where Esc leads from each.
LEMMA NamesOfScreens == AllScreens = ScreenNames
  BY DEF AllScreens, ScreenNames, Menuward, Back

LEMMA Escapes ==
  /\ EscapeTo("Bulletins") = "MainMenu"
  /\ EscapeTo("Oneliners") = "MainMenu"
  /\ EscapeTo("Polls") = "MainMenu"
  /\ EscapeTo("Chat") = "MainMenu"
  /\ EscapeTo("Timeline") = "MainMenu"
  /\ EscapeTo("RemoteBoards") = "MainMenu"
  /\ EscapeTo("BoardList") = "MainMenu"
  /\ EscapeTo("Mailbox") = "MainMenu"
  /\ EscapeTo("MailSysop") = "MainMenu"
  /\ EscapeTo("WhoOnline") = "MainMenu"
  /\ EscapeTo("Stats") = "MainMenu"
  /\ EscapeTo("SearchInput") = "MainMenu"
  /\ EscapeTo("SearchResults") = "MainMenu"
  /\ EscapeTo("Doors") = "MainMenu"
  /\ EscapeTo("FileAreas") = "MainMenu"
  /\ EscapeTo("Keys") = "MainMenu"
  /\ EscapeTo("Register") = "MainMenu"
  /\ EscapeTo("Help") = "MainMenu"
  /\ EscapeTo("AdminUsers") = "MainMenu"
  /\ EscapeTo("ReadBulletin") = "Bulletins"
  /\ EscapeTo("ComposeOneliner") = "Oneliners"
  /\ EscapeTo("ViewPoll") = "Polls"
  /\ EscapeTo("ComposePoll") = "Polls"
  /\ EscapeTo("FollowRemote") = "Timeline"
  /\ EscapeTo("RemoteBoardPosts") = "RemoteBoards"
  /\ EscapeTo("ComposeRemotePost") = "RemoteBoardPosts"
  /\ EscapeTo("MessageList") = "BoardList"
  /\ EscapeTo("ReadMessage") = "MessageList"
  /\ EscapeTo("ComposePost") = "MessageList"
  /\ EscapeTo("ReadMail") = "Mailbox"
  /\ EscapeTo("ComposeMail") = "Mailbox"
  /\ EscapeTo("ConfirmDeleteMail") = "Mailbox"
  /\ EscapeTo("MailSearchInput") = "Mailbox"
  /\ EscapeTo("MailSearchResults") = "Mailbox"
  /\ EscapeTo("ComposePage") = "WhoOnline"
  /\ EscapeTo("IgnoreList") = "Profile"
  /\ EscapeTo("EditProfile") = "Profile"
  /\ EscapeTo("FileList") = "FileAreas"
  /\ EscapeTo("FileDetail") = "FileList"
  /\ EscapeTo("EditFileDesc") = "FileDetail"
  /\ EscapeTo("ArchiveList") = "FileDetail"
  /\ EscapeTo("AddKey") = "Keys"
  /\ EscapeTo("ChangePassword") = "Profile"
  /\ EscapeTo("AdminLogins") = "AdminUsers"
  /\ EscapeTo("AdminAudit") = "AdminUsers"
  /\ EscapeTo("AdminFederation") = "AdminUsers"
  /\ EscapeTo("ComposeFederation") = "AdminFederation"
  /\ EscapeTo("ComposeBroadcast") = "AdminUsers"
  /\ EscapeTo("Profile") = app.profileBack
  /\ EscapeTo("FileView") = app.textBack
  /\ EscapeTo("AttachPicker") = app.attachBack
  /\ EscapeTo("Attachments") = app.viewBack
  BY DEF EscapeTo, Menuward, Back


-----------------------------------------------------------------------------
(* A key on any screen but the menu.  One step per outcome of the handler;  *)
(* all of them assign fields of the record and need the same definitions.   *)

USE DEF FieldsHold, Fields, ScreenNames, Filled, Gate, Record, Ready, Around, Draft, PollForm,
  ProfileForm, PasswordForm, Guest, Admin, At, Become, With, Go, Open, Submit, None

\* A move to screen t, where that may be shown.
LEMMA GoKeeps ==
  ASSUME ScreenInv, NEW t \in ScreenNames, Around(t), Draft(t), Go(t)
  PROVE  ScreenInv' /\ MenuKept
  BY DEF ScreenInv, MenuKept

\* Esc leads from a screen that may be shown to one that may be shown.
LEMMA LeaveKeeps ==
  ASSUME ScreenInv, Leave, app.screen \notin {"MainMenu", "Chat", "ViewPoll",
            "RemoteBoardPosts",
           "ComposePage", "ComposeFederation", "ComposePost"},
         app.screen = "ChangePassword" => ~app.force
  PROVE  ScreenInv' /\ MenuKept
  <1> DEFINE t == EscapeTo(app.screen)
  <1>1. Go(t)
    BY DEF Leave
  <1>2. t \in ScreenNames /\ Around(t) /\ Draft(t)
    BY Escapes DEF ScreenInv
  <1> HIDE DEF t
  <1> QED
    BY <1>1, <1>2, GoKeeps

LEMMA HangupKeeps ==
  ASSUME ScreenInv, Hangup PROVE ScreenInv' /\ MenuKept
  BY DEF Hangup, ScreenInv, MenuKept

LEMMA BulletinsKeeps ==
  ASSUME ScreenInv, OnBulletins PROVE ScreenInv' /\ MenuKept
  <1>1. CASE Go("ReadBulletin")
    BY <1>1 DEF OnBulletins, ScreenInv, MenuKept
  <1>2. CASE Leave
    BY <1>2, LeaveKeeps DEF OnBulletins
  <1> QED
    BY <1>1, <1>2 DEF OnBulletins

LEMMA ReaderKeeps ==
  ASSUME ScreenInv, OnReader PROVE ScreenInv' /\ MenuKept
  BY LeaveKeeps DEF OnReader

LEMMA StatsKeeps ==
  ASSUME ScreenInv, OnStats PROVE ScreenInv' /\ MenuKept
  BY LeaveKeeps DEF OnStats

LEMMA OnelinersKeeps ==
  ASSUME ScreenInv, OnOneliners PROVE ScreenInv' /\ MenuKept
  <1>1. CASE ~Guest /\ Open(1, "ComposeOneliner")
    BY <1>1 DEF OnOneliners, ScreenInv, MenuKept
  <1>2. CASE Leave
    BY <1>2, LeaveKeeps DEF OnOneliners
  <1> QED
    BY <1>1, <1>2 DEF OnOneliners

LEMMA ComposeOnelinerKeeps ==
  ASSUME ScreenInv, OnComposeOneliner PROVE ScreenInv' /\ MenuKept
  <1>1. CASE Submit(1, [screen |-> "Oneliners"])
    BY <1>1 DEF OnComposeOneliner, ScreenInv, MenuKept
  <1>2. CASE Leave
    BY <1>2, LeaveKeeps DEF OnComposeOneliner
  <1> QED
    BY <1>1, <1>2 DEF OnComposeOneliner

LEMMA PollsKeeps ==
  ASSUME ScreenInv, OnPolls PROVE ScreenInv' /\ MenuKept
  <1>1. CASE \E p \in Mine : Become(OpenPoll(p))
    BY <1>1 DEF OnPolls, OpenPoll, Mine, ScreenInv, MenuKept
  <1>2. CASE ~Guest /\ Open(PollForm, "ComposePoll")
    BY <1>2 DEF OnPolls, OpenPoll, Mine, ScreenInv, MenuKept
  <1>3. CASE Leave
    BY <1>3, LeaveKeeps DEF OnPolls
  <1> QED
    BY <1>1, <1>2, <1>3 DEF OnPolls, OpenPoll, Mine

LEMMA ViewPollKeeps ==
  ASSUME ScreenInv, OnViewPoll PROVE ScreenInv' /\ MenuKept
  <1>1. CASE Become(ClosePoll)
    BY <1>1 DEF OnViewPoll, ClosePoll, ScreenInv, MenuKept
  <1>2. CASE Become([poll |-> None])
    BY <1>2 DEF OnViewPoll, ClosePoll, ScreenInv, MenuKept
  <1> QED
    BY <1>1, <1>2 DEF OnViewPoll, ClosePoll

LEMMA ComposePollKeeps ==
  ASSUME ScreenInv, OnComposePoll PROVE ScreenInv' /\ MenuKept
  <1>1. CASE Submit(PollForm, OpenPoll("own"))
    BY <1>1 DEF OnComposePoll, OpenPoll, ScreenInv, MenuKept
  <1>2. CASE Leave
    BY <1>2, LeaveKeeps DEF OnComposePoll
  <1> QED
    BY <1>1, <1>2 DEF OnComposePoll, OpenPoll

LEMMA ChatKeeps ==
  ASSUME ScreenInv, OnChat PROVE ScreenInv' /\ MenuKept
  BY DEF OnChat, ScreenInv, MenuKept

LEMMA TimelineKeeps ==
  ASSUME ScreenInv, OnTimeline PROVE ScreenInv' /\ MenuKept
  <1>1. CASE ~Guest /\ Open(1, "FollowRemote")
    BY <1>1 DEF OnTimeline, ScreenInv, MenuKept
  <1>2. CASE Leave
    BY <1>2, LeaveKeeps DEF OnTimeline
  <1> QED
    BY <1>1, <1>2 DEF OnTimeline

LEMMA FollowRemoteKeeps ==
  ASSUME ScreenInv, OnFollowRemote PROVE ScreenInv' /\ MenuKept
  <1>1. CASE Submit(1, [screen |-> "Timeline"])
    BY <1>1 DEF OnFollowRemote, ScreenInv, MenuKept
  <1>2. CASE Leave
    BY <1>2, LeaveKeeps DEF OnFollowRemote
  <1> QED
    BY <1>1, <1>2 DEF OnFollowRemote

LEMMA RemoteBoardsKeeps ==
  ASSUME ScreenInv, OnRemoteBoards PROVE ScreenInv' /\ MenuKept
  <1>1. CASE \E b \in {"accepted", "pending"} : Become([rboard |-> b,
            screen |-> "RemoteBoardPosts"])
    BY <1>1 DEF OnRemoteBoards, ScreenInv, MenuKept
  <1>2. CASE Leave
    BY <1>2, LeaveKeeps DEF OnRemoteBoards
  <1> QED
    BY <1>1, <1>2 DEF OnRemoteBoards

LEMMA RemoteBoardPostsKeeps ==
  ASSUME ScreenInv, OnRemoteBoardPosts PROVE ScreenInv' /\ MenuKept
  <1>1. CASE CanSubmitRemote /\ Open(2, "ComposeRemotePost")
    BY <1>1 DEF OnRemoteBoardPosts, CanSubmitRemote, ScreenInv, MenuKept
  <1>2. CASE Become([rboard |-> None, screen |-> "RemoteBoards"])
    BY <1>2 DEF OnRemoteBoardPosts, CanSubmitRemote, ScreenInv, MenuKept
  <1> QED
    BY <1>1, <1>2 DEF OnRemoteBoardPosts, CanSubmitRemote

LEMMA ComposeRemotePostKeeps ==
  ASSUME ScreenInv, OnComposeRemotePost PROVE ScreenInv' /\ MenuKept
  <1>1. CASE Submit(2, [screen |-> "RemoteBoardPosts"])
    BY <1>1 DEF OnComposeRemotePost, ScreenInv, MenuKept
  <1>2. CASE Leave
    BY <1>2, LeaveKeeps DEF OnComposeRemotePost
  <1> QED
    BY <1>1, <1>2 DEF OnComposeRemotePost

LEMMA BoardListKeeps ==
  ASSUME ScreenInv, OnBoardList PROVE ScreenInv' /\ MenuKept
  <1>1. CASE \E b \in Boards : Become(OpenBoard(b))
    BY <1>1 DEF OnBoardList, OpenBoard, Boards, ScreenInv, MenuKept
  <1>2. CASE Leave
    BY <1>2, LeaveKeeps DEF OnBoardList
  <1> QED
    BY <1>1, <1>2 DEF OnBoardList, OpenBoard, Boards

LEMMA MessageListKeeps ==
  ASSUME ScreenInv, OnMessageList PROVE ScreenInv' /\ MenuKept
  <1>1. CASE \E m \in Mine : Become([message |-> m, screen |-> "ReadMessage"])
    BY <1>1 DEF OnMessageList, BeginComposePost, MayPost, BeginEditPost, CanEdit, Mine,
       ScreenInv, MenuKept
  <1>2. CASE BeginComposePost
    BY <1>2 DEF OnMessageList, BeginComposePost, MayPost, BeginEditPost, CanEdit, Mine,
       ScreenInv, MenuKept
  <1>3. CASE \E m \in Mine : BeginEditPost(m)
    BY <1>3 DEF OnMessageList, BeginComposePost, MayPost, BeginEditPost, CanEdit, Mine,
       ScreenInv, MenuKept
  <1>4. CASE Leave
    BY <1>4, LeaveKeeps DEF OnMessageList
  <1> QED
    BY <1>1, <1>2, <1>3, <1>4 DEF OnMessageList, BeginComposePost, MayPost,
       BeginEditPost, CanEdit, Mine

LEMMA ReadMessageKeeps ==
  ASSUME ScreenInv, OnReadMessage PROVE ScreenInv' /\ MenuKept
  <1>1. CASE BeginComposePost
    BY <1>1 DEF OnReadMessage, BeginComposePost, MayPost, BeginEditPost, CanEdit,
       ScreenInv, MenuKept
  <1>2. CASE BeginEditPost(app.message)
    BY <1>2 DEF OnReadMessage, BeginComposePost, MayPost, BeginEditPost, CanEdit,
       ScreenInv, MenuKept
  <1>3. CASE Go("MessageList")
    BY <1>3 DEF OnReadMessage, BeginComposePost, MayPost, BeginEditPost, CanEdit,
       ScreenInv, MenuKept
  <1>4. CASE Leave
    BY <1>4, LeaveKeeps DEF OnReadMessage
  <1> QED
    BY <1>1, <1>2, <1>3, <1>4 DEF OnReadMessage, BeginComposePost, MayPost,
       BeginEditPost, CanEdit

LEMMA ComposePostKeeps ==
  ASSUME ScreenInv, OnComposePost PROVE ScreenInv' /\ MenuKept
  <1>1. CASE Become(CancelPost)
    BY <1>1 DEF OnComposePost, CancelPost, BeginAttachPicker, SubmitPost, SubmitEdit,
       ScreenInv, MenuKept
  <1>2. CASE BeginAttachPicker
    BY <1>2 DEF OnComposePost, CancelPost, BeginAttachPicker, SubmitPost, SubmitEdit,
       ScreenInv, MenuKept
  <1>3. CASE app.edit = None /\ SubmitPost
    BY <1>3 DEF OnComposePost, CancelPost, BeginAttachPicker, SubmitPost, SubmitEdit,
       ScreenInv, MenuKept
  <1>4. CASE app.edit # None /\ SubmitEdit
    BY <1>4 DEF OnComposePost, CancelPost, BeginAttachPicker, SubmitPost, SubmitEdit,
       ScreenInv, MenuKept
  <1> QED
    BY <1>1, <1>2, <1>3, <1>4 DEF OnComposePost, CancelPost, BeginAttachPicker,
       SubmitPost, SubmitEdit

LEMMA SearchInputKeeps ==
  ASSUME ScreenInv, OnSearchInput PROVE ScreenInv' /\ MenuKept
  <1>1. CASE Submit(1, [screen |-> "SearchResults"])
    BY <1>1 DEF OnSearchInput, ScreenInv, MenuKept
  <1>2. CASE Leave
    BY <1>2, LeaveKeeps DEF OnSearchInput
  <1> QED
    BY <1>1, <1>2 DEF OnSearchInput

LEMMA SearchResultsKeeps ==
  ASSUME ScreenInv, OnSearchResults PROVE ScreenInv' /\ MenuKept
  <1>1. CASE \E b \in Boards : \E m \in Mine : Become(Jump(b, m))
    BY <1>1 DEF OnSearchResults, Jump, OpenBoard, Boards, Mine, ScreenInv, MenuKept
  <1>2. CASE \E b \in Boards : Become(OpenBoard(b))
    BY <1>2 DEF OnSearchResults, Jump, OpenBoard, Boards, Mine, ScreenInv, MenuKept
  <1>3. CASE Open(1, "SearchInput")
    BY <1>3 DEF OnSearchResults, Jump, OpenBoard, Boards, Mine, ScreenInv, MenuKept
  <1>4. CASE Leave
    BY <1>4, LeaveKeeps DEF OnSearchResults
  <1> QED
    BY <1>1, <1>2, <1>3, <1>4 DEF OnSearchResults, Jump, OpenBoard, Boards, Mine

LEMMA AttachPickerKeeps ==
  ASSUME ScreenInv, OnAttachPicker PROVE ScreenInv' /\ MenuKept
  <1>1. CASE \E f \in Files : Become([pending |-> Toggle(f)])
    BY <1>1 DEF OnAttachPicker, Toggle, ScreenInv, MenuKept
  <1>2. CASE Leave
    BY <1>2, LeaveKeeps DEF OnAttachPicker
  <1> QED
    BY <1>1, <1>2 DEF OnAttachPicker, Toggle

LEMMA OpenAttachmentsKeeps ==
  ASSUME ScreenInv, OpenAttachments PROVE ScreenInv' /\ MenuKept
  <1>1. CASE At("ReadMessage")
    BY <1>1 DEF OpenAttachments, ScreenInv, MenuKept
  <1>2. CASE At("ReadMail")
    BY <1>2 DEF OpenAttachments, ScreenInv, MenuKept
  <1> QED
    BY <1>1, <1>2 DEF OpenAttachments

LEMMA AttachmentsKeeps ==
  ASSUME ScreenInv, OnAttachments PROVE ScreenInv' /\ MenuKept
  <1>1. CASE \E f \in Files : Become(ListArchive(f))
    BY <1>1 DEF OnAttachments, ListArchive, ShowText, ScreenInv, MenuKept
  <1>2. CASE Become(ShowText("Attachments"))
    BY <1>2 DEF OnAttachments, ListArchive, ShowText, ScreenInv, MenuKept
  <1>3. CASE Leave
    BY <1>3, LeaveKeeps DEF OnAttachments
  <1> QED
    BY <1>1, <1>2, <1>3 DEF OnAttachments, ListArchive, ShowText

LEMMA FileAreasKeeps ==
  ASSUME ScreenInv, OnFileAreas PROVE ScreenInv' /\ MenuKept
  <1>1. CASE Go("FileList")
    BY <1>1 DEF OnFileAreas, ScreenInv, MenuKept
  <1>2. CASE Leave
    BY <1>2, LeaveKeeps DEF OnFileAreas
  <1> QED
    BY <1>1, <1>2 DEF OnFileAreas

LEMMA FileListKeeps ==
  ASSUME ScreenInv, OnFileList PROVE ScreenInv' /\ MenuKept
  <1>1. CASE \E f \in Files : Become([file |-> f, screen |-> "FileDetail"])
    BY <1>1 DEF OnFileList, ScreenInv, MenuKept
  <1>2. CASE Leave
    BY <1>2, LeaveKeeps DEF OnFileList
  <1> QED
    BY <1>1, <1>2 DEF OnFileList

LEMMA FileDetailKeeps ==
  ASSUME ScreenInv, OnFileDetail PROVE ScreenInv' /\ MenuKept
  <1>1. CASE Open(1, "EditFileDesc")
    BY <1>1 DEF OnFileDetail, ListArchive, ShowText, ScreenInv, MenuKept
  <1>2. CASE app.file # None /\ Become(ListArchive(app.file))
    BY <1>2 DEF OnFileDetail, ListArchive, ShowText, ScreenInv, MenuKept
  <1>3. CASE Become(ShowText("FileDetail"))
    BY <1>3 DEF OnFileDetail, ListArchive, ShowText, ScreenInv, MenuKept
  <1>4. CASE Leave
    BY <1>4, LeaveKeeps DEF OnFileDetail
  <1> QED
    BY <1>1, <1>2, <1>3, <1>4 DEF OnFileDetail, ListArchive, ShowText

LEMMA EditFileDescKeeps ==
  ASSUME ScreenInv, OnEditFileDesc PROVE ScreenInv' /\ MenuKept
  <1>1. CASE Submit(1, [screen |-> "FileDetail"])
    BY <1>1 DEF OnEditFileDesc, ScreenInv, MenuKept
  <1>2. CASE Leave
    BY <1>2, LeaveKeeps DEF OnEditFileDesc
  <1> QED
    BY <1>1, <1>2 DEF OnEditFileDesc

LEMMA ArchiveListKeeps ==
  ASSUME ScreenInv, OnArchiveList PROVE ScreenInv' /\ MenuKept
  <1>1. CASE Become(ShowText("ArchiveList"))
    BY <1>1 DEF OnArchiveList, ShowText, ScreenInv, MenuKept
  <1>2. CASE Leave
    BY <1>2, LeaveKeeps DEF OnArchiveList
  <1> QED
    BY <1>1, <1>2 DEF OnArchiveList, ShowText

LEMMA FileViewKeeps ==
  ASSUME ScreenInv, OnFileView PROVE ScreenInv' /\ MenuKept
  BY LeaveKeeps DEF OnFileView

LEMMA MailboxKeeps ==
  ASSUME ScreenInv, OnMailbox PROVE ScreenInv' /\ MenuKept
  <1>1. CASE Become([mail |-> TRUE, screen |-> "ReadMail"])
    BY <1>1 DEF OnMailbox, BeginComposeMail, ScreenInv, MenuKept
  <1>2. CASE BeginComposeMail
    BY <1>2 DEF OnMailbox, BeginComposeMail, ScreenInv, MenuKept
  <1>3. CASE Open(1, "MailSearchInput")
    BY <1>3 DEF OnMailbox, BeginComposeMail, ScreenInv, MenuKept
  <1>4. CASE Become([mail |-> TRUE, screen |-> "ConfirmDeleteMail"])
    BY <1>4 DEF OnMailbox, BeginComposeMail, ScreenInv, MenuKept
  <1>5. CASE Leave
    BY <1>5, LeaveKeeps DEF OnMailbox
  <1> QED
    BY <1>1, <1>2, <1>3, <1>4, <1>5 DEF OnMailbox, BeginComposeMail

LEMMA MailSearchInputKeeps ==
  ASSUME ScreenInv, OnMailSearchInput PROVE ScreenInv' /\ MenuKept
  <1>1. CASE Submit(1, [screen |-> "MailSearchResults"])
    BY <1>1 DEF OnMailSearchInput, ScreenInv, MenuKept
  <1>2. CASE Leave
    BY <1>2, LeaveKeeps DEF OnMailSearchInput
  <1> QED
    BY <1>1, <1>2 DEF OnMailSearchInput

LEMMA MailSearchResultsKeeps ==
  ASSUME ScreenInv, OnMailSearchResults PROVE ScreenInv' /\ MenuKept
  <1>1. CASE Become([mail |-> TRUE, screen |-> "ReadMail"])
    BY <1>1 DEF OnMailSearchResults, ScreenInv, MenuKept
  <1>2. CASE Open(1, "MailSearchInput")
    BY <1>2 DEF OnMailSearchResults, ScreenInv, MenuKept
  <1>3. CASE Leave
    BY <1>3, LeaveKeeps DEF OnMailSearchResults
  <1> QED
    BY <1>1, <1>2, <1>3 DEF OnMailSearchResults

LEMMA ReadMailKeeps ==
  ASSUME ScreenInv, OnReadMail PROVE ScreenInv' /\ MenuKept
  <1>1. CASE BeginComposeMail
    BY <1>1 DEF OnReadMail, BeginComposeMail, ScreenInv, MenuKept
  <1>2. CASE Go("ConfirmDeleteMail")
    BY <1>2 DEF OnReadMail, BeginComposeMail, ScreenInv, MenuKept
  <1>3. CASE Leave
    BY <1>3, LeaveKeeps DEF OnReadMail
  <1> QED
    BY <1>1, <1>2, <1>3 DEF OnReadMail, BeginComposeMail

LEMMA ConfirmDeleteMailKeeps ==
  ASSUME ScreenInv, OnConfirmDeleteMail PROVE ScreenInv' /\ MenuKept
  <1>1. CASE Become(DropMail)
    BY <1>1 DEF OnConfirmDeleteMail, DropMail, ScreenInv, MenuKept
  <1>2. CASE Become([mail |-> FALSE])
    BY <1>2 DEF OnConfirmDeleteMail, DropMail, ScreenInv, MenuKept
  <1>3. CASE Leave
    BY <1>3, LeaveKeeps DEF OnConfirmDeleteMail
  <1> QED
    BY <1>1, <1>2, <1>3 DEF OnConfirmDeleteMail, DropMail

LEMMA ComposeMailKeeps ==
  ASSUME ScreenInv, OnComposeMail PROVE ScreenInv' /\ MenuKept
  <1>1. CASE Become([pending |-> {}, screen |-> "Mailbox"])
    BY <1>1 DEF OnComposeMail, BeginAttachPicker, ScreenInv, MenuKept
  <1>2. CASE BeginAttachPicker
    BY <1>2 DEF OnComposeMail, BeginAttachPicker, ScreenInv, MenuKept
  <1>3. CASE Submit(2, [pending |-> {}, screen |-> "Mailbox"])
    BY <1>3 DEF OnComposeMail, BeginAttachPicker, ScreenInv, MenuKept
  <1>4. CASE Submit(2, [screen |-> "Mailbox"])
    BY <1>4 DEF OnComposeMail, BeginAttachPicker, ScreenInv, MenuKept
  <1> QED
    BY <1>1, <1>2, <1>3, <1>4 DEF OnComposeMail, BeginAttachPicker

LEMMA MailSysopKeeps ==
  ASSUME ScreenInv, OnMailSysop PROVE ScreenInv' /\ MenuKept
  <1>1. CASE Submit(1, [screen |-> "MainMenu"])
    BY <1>1 DEF OnMailSysop, ScreenInv, MenuKept
  <1>2. CASE Leave
    BY <1>2, LeaveKeeps DEF OnMailSysop
  <1> QED
    BY <1>1, <1>2 DEF OnMailSysop

LEMMA WhoKeeps ==
  ASSUME ScreenInv, OnWho PROVE ScreenInv' /\ MenuKept
  <1>1. CASE \E p \in Profiles : Become(OpenProfile(p, "WhoOnline"))
    BY <1>1 DEF OnWho, OpenProfile, Profiles, ScreenInv, MenuKept
  <1>2. CASE ~Guest /\ Become([page |-> TRUE, form |-> 1, screen |-> "ComposePage"])
    BY <1>2 DEF OnWho, OpenProfile, Profiles, ScreenInv, MenuKept
  <1>3. CASE Leave
    BY <1>3, LeaveKeeps DEF OnWho
  <1> QED
    BY <1>1, <1>2, <1>3 DEF OnWho, OpenProfile, Profiles

LEMMA ComposePageKeeps ==
  ASSUME ScreenInv, OnComposePage PROVE ScreenInv' /\ MenuKept
  <1>1. CASE Submit(1, [page |-> FALSE, screen |-> "WhoOnline"])
    BY <1>1 DEF OnComposePage, ScreenInv, MenuKept
  <1>2. CASE Become([page |-> FALSE, screen |-> "WhoOnline"])
    BY <1>2 DEF OnComposePage, ScreenInv, MenuKept
  <1> QED
    BY <1>1, <1>2 DEF OnComposePage

LEMMA ProfileKeeps ==
  ASSUME ScreenInv, OnProfile PROVE ScreenInv' /\ MenuKept
  <1>1. CASE OwnProfile /\ Open(ProfileForm, "EditProfile")
    BY <1>1 DEF OnProfile, OwnProfile, ScreenInv, MenuKept
  <1>2. CASE OwnProfile /\ Go("IgnoreList")
    BY <1>2 DEF OnProfile, OwnProfile, ScreenInv, MenuKept
  <1>3. CASE OwnProfile /\ Become([force |-> FALSE, form |-> PasswordForm(FALSE),
            screen |-> "ChangePassword"])
    BY <1>3 DEF OnProfile, OwnProfile, ScreenInv, MenuKept
  <1>4. CASE Leave
    BY <1>4, LeaveKeeps DEF OnProfile
  <1> QED
    BY <1>1, <1>2, <1>3, <1>4 DEF OnProfile, OwnProfile

LEMMA IgnoreListKeeps ==
  ASSUME ScreenInv, OnIgnoreList PROVE ScreenInv' /\ MenuKept
  BY LeaveKeeps DEF OnIgnoreList

LEMMA EditProfileKeeps ==
  ASSUME ScreenInv, OnEditProfile PROVE ScreenInv' /\ MenuKept
  <1>1. CASE Submit(ProfileForm, Reopen)
    BY <1>1 DEF OnEditProfile, Reopen, OpenProfile, ScreenInv, MenuKept
  <1>2. CASE Leave
    BY <1>2, LeaveKeeps DEF OnEditProfile
  <1> QED
    BY <1>1, <1>2 DEF OnEditProfile, Reopen, OpenProfile

LEMMA ChangePasswordKeeps ==
  ASSUME ScreenInv, OnChangePassword PROVE ScreenInv' /\ MenuKept
  <1>1. CASE Submit(PasswordForm(app.force), [force |-> FALSE, form |-> 0,
            screen |-> IF app.force THEN "MainMenu" ELSE "Profile"])
    BY <1>1 DEF OnChangePassword, ScreenInv, MenuKept
  <1>2. CASE Become([form |-> PasswordForm(app.force)])
    BY <1>2 DEF OnChangePassword, ScreenInv, MenuKept
  <1>3. CASE ~app.force /\ Leave
    BY <1>3, LeaveKeeps DEF OnChangePassword
  <1> QED
    BY <1>1, <1>2, <1>3 DEF OnChangePassword

LEMMA KeysKeeps ==
  ASSUME ScreenInv, OnKeys PROVE ScreenInv' /\ MenuKept
  <1>1. CASE Open(1, "AddKey")
    BY <1>1 DEF OnKeys, ScreenInv, MenuKept
  <1>2. CASE Leave
    BY <1>2, LeaveKeeps DEF OnKeys
  <1> QED
    BY <1>1, <1>2 DEF OnKeys

LEMMA AddKeyKeeps ==
  ASSUME ScreenInv, OnAddKey PROVE ScreenInv' /\ MenuKept
  <1>1. CASE Submit(1, [screen |-> "Keys"])
    BY <1>1 DEF OnAddKey, ScreenInv, MenuKept
  <1>2. CASE Leave
    BY <1>2, LeaveKeeps DEF OnAddKey
  <1> QED
    BY <1>1, <1>2 DEF OnAddKey

LEMMA RegisterKeeps ==
  ASSUME ScreenInv, OnRegister PROVE ScreenInv' /\ MenuKept
  <1>1. CASE Submit(3, [screen |-> "MainMenu"])
    BY <1>1 DEF OnRegister, ScreenInv, MenuKept
  <1>2. CASE Leave
    BY <1>2, LeaveKeeps DEF OnRegister
  <1> QED
    BY <1>1, <1>2 DEF OnRegister

LEMMA DoorsKeeps ==
  ASSUME ScreenInv, OnDoors PROVE ScreenInv' /\ MenuKept
  <1>1. CASE \E d \in config.doors : Become([door |-> d])
    BY <1>1 DEF OnDoors, ScreenInv, MenuKept
  <1>2. CASE Leave
    BY <1>2, LeaveKeeps DEF OnDoors
  <1> QED
    BY <1>1, <1>2 DEF OnDoors

LEMMA RunDoorKeeps ==
  ASSUME ScreenInv, RunDoor PROVE ScreenInv' /\ MenuKept
  BY DEF RunDoor, ScreenInv, MenuKept

LEMMA AdminUsersKeeps ==
  ASSUME ScreenInv, OnAdminUsers PROVE ScreenInv' /\ MenuKept
  <1>1. CASE \E s \in {"AdminLogins", "AdminAudit", "AdminFederation"} : Go(s)
    BY <1>1 DEF OnAdminUsers, ScreenInv, MenuKept
  <1>2. CASE Open(1, "ComposeBroadcast")
    BY <1>2 DEF OnAdminUsers, ScreenInv, MenuKept
  <1>3. CASE Leave
    BY <1>3, LeaveKeeps DEF OnAdminUsers
  <1> QED
    BY <1>1, <1>2, <1>3 DEF OnAdminUsers

LEMMA AdminLoginsKeeps ==
  ASSUME ScreenInv, OnAdminLogins PROVE ScreenInv' /\ MenuKept
  BY LeaveKeeps DEF OnAdminLogins

LEMMA AdminAuditKeeps ==
  ASSUME ScreenInv, OnAdminAudit PROVE ScreenInv' /\ MenuKept
  BY LeaveKeeps DEF OnAdminAudit

LEMMA ComposeBroadcastKeeps ==
  ASSUME ScreenInv, OnComposeBroadcast PROVE ScreenInv' /\ MenuKept
  <1>1. CASE Submit(1, [screen |-> "AdminUsers"])
    BY <1>1 DEF OnComposeBroadcast, ScreenInv, MenuKept
  <1>2. CASE Leave
    BY <1>2, LeaveKeeps DEF OnComposeBroadcast
  <1> QED
    BY <1>1, <1>2 DEF OnComposeBroadcast

LEMMA AdminFederationKeeps ==
  ASSUME ScreenInv, OnAdminFederation PROVE ScreenInv' /\ MenuKept
  <1>1. CASE Become([fed |-> TRUE, form |-> 1, screen |-> "ComposeFederation"])
    BY <1>1 DEF OnAdminFederation, ScreenInv, MenuKept
  <1>2. CASE Leave
    BY <1>2, LeaveKeeps DEF OnAdminFederation
  <1> QED
    BY <1>1, <1>2 DEF OnAdminFederation

LEMMA ComposeFederationKeeps ==
  ASSUME ScreenInv, OnComposeFederation PROVE ScreenInv' /\ MenuKept
  <1>1. CASE Submit(1, [fed |-> FALSE, screen |-> "AdminFederation"])
    BY <1>1 DEF OnComposeFederation, ScreenInv, MenuKept
  <1>2. CASE Become([fed |-> FALSE, screen |-> "AdminFederation"])
    BY <1>2 DEF OnComposeFederation, ScreenInv, MenuKept
  <1> QED
    BY <1>1, <1>2 DEF OnComposeFederation

-----------------------------------------------------------------------------
(* Screens: the menu and its submenus. *)

\* The entries that an operator writes, and those that a session is shown.
Written(c) ==
  ToSet(BuiltIn) \cup ToSet(c.menu) \cup UNION {ToSet(c.submenus[n]) : n \in DOMAIN c.submenus}
Offered(c, role) == {e \in Written(c) : Available(e, c, role)}

Frames(c, role) == [menu : Seq(Offered(c, role)), sel : Nat]

\* The menu at depth n: the one shown, or one that Esc returns to.
Level(n) == IF n = Len(app.stack) + 1 THEN app.menu ELSE app.stack[n].menu

StackHolds ==
  /\ app.menu \in Seq(Offered(config, app.role))
  /\ app.stack \in Seq(Frames(config, app.role))
  /\ Len(app.stack) <= MaxMenuDepth

CursorHolds ==
  /\ app.sel \in Nat \ {0}
  /\ app.sel \in DOMAIN app.menu \/ (app.stack = <<>> /\ app.menu = <<>>)
  /\ app.panicked => BuildMenu(config, app.role) = <<>>

\* Each level is the submenu that the entry taken on the level above names ...
TreeHolds ==
  /\ Level(1) = BuildMenu(config, app.role)
  /\ \A n \in DOMAIN app.stack :
       /\ app.stack[n].sel \in DOMAIN app.stack[n].menu
       /\ app.stack[n].menu[app.stack[n].sel].kind = "submenu"
       /\ Level(n + 1) = BuildGroup(config.submenus[Taken(n)], config, app.role)

\* ... and lies beneath every submenu entered before.
DescentHolds ==
  \A m, n \in DOMAIN app.stack : m < n => Taken(n) \in Beneath(Taken(m), config)

MenuInv == StackHolds /\ CursorHolds /\ TreeHolds /\ DescentHolds

\* Every group of entries that an operator writes is a sequence.
LEMMA GroupsOffered ==
  ASSUME NEW c \in Configs, NEW role
  PROVE  /\ BuildMenu(c, role) \in Seq(Offered(c, role))
         /\ \A n \in DOMAIN c.submenus :
              BuildGroup(c.submenus[n], c, role) \in Seq(Offered(c, role))
  <1>1. BuiltIn \in Seq(Written(c))
    <2>1. BuiltIn \in Seq(ToSet(BuiltIn))
      BY DEF BuiltIn, DefaultOrder, ToSet
    <2> QED
      BY <2>1 DEF Written
  <1>2. c.menu \in Seq(Written(c))
    BY ScreensAssumption DEF Written
  <1>3. ASSUME NEW n \in DOMAIN c.submenus PROVE c.submenus[n] \in Seq(Written(c))
    <2>1. ToSet(c.submenus[n]) \subseteq Written(c)
      BY DEF Written
    <2>2. c.submenus[n] \in Seq(ToSet(c.submenus[n]))
      BY ScreensAssumption
    <2> QED
      BY <2>1, <2>2
  <1>4. ASSUME NEW es \in Seq(Written(c))
        PROVE  BuildGroup(es, c, role) \in Seq(Offered(c, role))
    BY GroupsShow DEF Offered
  <1> QED
    BY <1>1, <1>2, <1>3, <1>4 DEF BuildMenu

\* A step that leaves the menu alone keeps what holds of it.
LEMMA MenuStays ==
  ASSUME MenuInv, MenuKept PROVE MenuInv'
  <1>1. StackHolds' /\ CursorHolds'
    BY DEF MenuInv, StackHolds, CursorHolds, MenuKept
  <1>2. TreeHolds'
    BY DEF MenuInv, TreeHolds, Level, Taken, MenuKept
  <1>3. DescentHolds'
    BY DEF MenuInv, DescentHolds, Taken, MenuKept
  <1> QED
    BY <1>1, <1>2, <1>3 DEF MenuInv

LEMMA MoveCursorKeeps ==
  ASSUME ScreenInv, MenuInv, MoveCursor PROVE ScreenInv' /\ MenuInv'
  <1>1. PICK n \in DOMAIN app.menu : Become([sel |-> n])
    BY DEF MoveCursor
  <1>2. ScreenInv'
    BY <1>1 DEF ScreenInv
  <1>3. /\ config' = config /\ app'.role = app.role /\ app'.panicked = app.panicked
        /\ app'.menu = app.menu /\ app'.sel = n /\ app'.stack = app.stack
    BY <1>1 DEF ScreenInv
  <1>4. n \in Nat \ {0}
    BY DEF MenuInv, StackHolds
  <1>5. StackHolds' /\ CursorHolds'
    BY <1>3, <1>4 DEF MenuInv, StackHolds, CursorHolds
  <1>6. TreeHolds'
    BY <1>3 DEF MenuInv, TreeHolds, Level, Taken
  <1>7. DescentHolds'
    BY <1>3 DEF MenuInv, DescentHolds, Taken
  <1> QED
    BY <1>2, <1>5, <1>6, <1>7 DEF MenuInv

LEMMA Popped ==
  ASSUME NEW S, NEW s \in Seq(S), s # <<>>
  PROVE  /\ Len(s) \in Nat \ {0} /\ Last(s) = s[Len(s)] /\ Last(s) \in S
         /\ Front(s) \in Seq(S) /\ Len(Front(s)) = Len(s) - 1
         /\ \A n \in 1 .. Len(s) - 1 : Front(s)[n] = s[n]
  <1>1. Len(s) \in Nat \ {0}
    OBVIOUS
  <1>2. Last(s) = s[Len(s)]
    BY DEF Last
  <1>3. Front(s) = SubSeq(s, 1, Len(s) - 1)
    BY DEF Front
  <1>4. s[Len(s)] \in S
    BY <1>1
  <1>5. Len(s) - 1 \in Nat /\ Len(s) - 1 <= Len(s)
    BY <1>1
  <1> DEFINE f == SubSeq(s, 1, Len(s) - 1)
  <1>6. f = [n \in 1 .. Len(s) - 1 |-> s[n]]
    BY <1>1, <1>5
  <1>7. \A n \in 1 .. Len(s) - 1 : s[n] \in S
    BY <1>1
  <1>8. f \in Seq(S) /\ Len(f) = Len(s) - 1 /\ \A n \in 1 .. Len(s) - 1 : f[n] = s[n]
    <2> HIDE DEF f
    <2> QED BY <1>5, <1>6, <1>7
  <1> QED
    BY <1>1, <1>2, <1>3, <1>4, <1>8

LEMMA Pushed ==
  ASSUME NEW S, NEW s \in Seq(S), NEW x \in S
  PROVE  /\ Len(s) \in Nat /\ Append(s, x) \in Seq(S) /\ Len(Append(s, x)) = Len(s) + 1
         /\ \A n \in 1 .. Len(s) : Append(s, x)[n] = s[n]
         /\ Append(s, x)[Len(s) + 1] = x
  OBVIOUS

LEMMA EscapeMenuKeeps ==
  ASSUME ScreenInv, MenuInv, EscapeMenu PROVE ScreenInv' /\ MenuInv'
  <1>1. CASE app.stack = <<>> /\ Become([quit |-> TRUE])
    <2>1. ScreenInv' /\ MenuKept
      BY <1>1 DEF ScreenInv, MenuKept
    <2> QED
      BY <2>1, MenuStays
  <1>2. CASE /\ app.stack # <<>>
             /\ Become([menu |-> Last(app.stack).menu, sel |-> Last(app.stack).sel,
                        stack |-> Front(app.stack)])
    <2> DEFINE s == app.stack
               d == Len(s)
               F == Frames(config, app.role)
    <2>1. ScreenInv'
      BY <1>2 DEF EscapeMenu, ScreenInv
    <2>2. /\ config' = config /\ app'.role = app.role /\ app'.panicked = app.panicked
          /\ app'.menu = Last(s).menu /\ app'.sel = Last(s).sel /\ app'.stack = Front(s)
      BY <1>2 DEF ScreenInv
    <2>3. s \in Seq(F) /\ s # <<>>
      BY <1>2 DEF MenuInv, StackHolds
    <2> HIDE DEF F
    <2>4. /\ d \in Nat \ {0} /\ Last(s) = s[d] /\ Last(s) \in F
          /\ Front(s) \in Seq(F) /\ Len(Front(s)) = d - 1
          /\ \A n \in 1 .. d - 1 : Front(s)[n] = s[n]
      BY <2>3, Popped
    <2>5. app.stack = s /\ Len(app.stack) = d
      OBVIOUS
    <2> HIDE DEF s, d
    <2>6. Len(app'.stack) + 1 = d /\ app'.menu = s[d].menu
      BY <2>2, <2>4
    <2>7. ASSUME NEW n \in 1 .. d PROVE Level(n)' = Level(n)
      <3>1. Level(n) = s[n].menu
        BY <2>4, <2>5 DEF Level
      <3>2. CASE n = d
        BY <2>6, <3>1, <3>2 DEF Level
      <3>3. CASE n \in 1 .. d - 1
        BY <2>2, <2>4, <2>6, <3>1, <3>3 DEF Level
      <3> QED
        BY <3>2, <3>3, <2>4
    <2>8. \A n \in 1 .. d - 1 : Taken(n)' = Taken(n)
      BY <2>2, <2>4, <2>5 DEF Taken
    <2>9. DOMAIN app'.stack = 1 .. d - 1 /\ DOMAIN app.stack = 1 .. d
      BY <2>2, <2>3, <2>4, <2>5
    <2>10. s[d].menu \in Seq(Offered(config, app.role)) /\ s[d].sel \in DOMAIN s[d].menu
      <3>1. s[d] \in F /\ d \in DOMAIN app.stack
        BY <2>4, <2>9
      <3>2. s[d].menu \in Seq(Offered(config, app.role))
        BY <3>1 DEF F, Frames
      <3>3. s[d].sel \in DOMAIN s[d].menu
        BY <3>1, <2>5 DEF MenuInv, TreeHolds
      <3> QED
        BY <3>2, <3>3
    <2>11. StackHolds'
      <3>1. d <= MaxMenuDepth
        BY <2>5 DEF MenuInv, StackHolds
      <3>2. d - 1 <= MaxMenuDepth
        BY <3>1, <2>4, ScreensAssumption
      <3> QED
        BY <2>2, <2>4, <2>6, <2>10, <3>2 DEF StackHolds, F
    <2>12. CursorHolds'
      <3>1. s[d].sel \in Nat \ {0}
        BY <2>10
      <3> QED
        BY <2>2, <2>4, <2>10, <3>1 DEF MenuInv, CursorHolds
    <2>13. TreeHolds'
      <3>1. Level(1)' = BuildMenu(config, app.role)'
        BY <2>2, <2>4, <2>7 DEF MenuInv, TreeHolds
      <3>2. ASSUME NEW n \in 1 .. d - 1
            PROVE  /\ app'.stack[n].sel \in DOMAIN app'.stack[n].menu
                   /\ app'.stack[n].menu[app'.stack[n].sel].kind = "submenu"
                   /\ Level(n + 1)' = BuildGroup(config'.submenus[Taken(n)'], config',
                             app'.role)
        <4>1. n \in 1 .. d /\ n + 1 \in 1 .. d
          BY <2>4
        <4>2. /\ s[n].sel \in DOMAIN s[n].menu
              /\ s[n].menu[s[n].sel].kind = "submenu"
              /\ Level(n + 1) = BuildGroup(config.submenus[Taken(n)], config, app.role)
          BY <2>5, <2>9, <4>1 DEF MenuInv, TreeHolds
        <4>3. app'.stack[n] = s[n] /\ Level(n + 1)' = Level(n + 1) /\ Taken(n)' = Taken(n)
          BY <2>2, <2>4, <2>7, <2>8, <4>1
        <4> QED
          BY <4>2, <4>3, <2>2
      <3> QED
        BY <3>1, <3>2, <2>9 DEF TreeHolds
    <2>14. DescentHolds'
      <3>1. 1 .. d - 1 \subseteq 1 .. d
        BY <2>4
      <3> QED
        BY <2>2, <2>8, <2>9, <3>1 DEF MenuInv, DescentHolds
    <2> QED
      BY <2>1, <2>11, <2>12, <2>13, <2>14 DEF MenuInv
  <1> QED
    BY <1>1, <1>2 DEF EscapeMenu

\* What a submenu leads to lies beneath it, and beneath whatever it lies beneath.
LEMMA LeadsBeneath ==
  ASSUME NEW c, NEW m \in DOMAIN c.submenus, NEW t \in DOMAIN c.submenus,
         NEW e \in ToSet(c.submenus[m]), e.kind = "submenu", e.name = t
  PROVE  /\ t \in Beneath(m, c)
         /\ \A k : m \in Beneath(k, c) => t \in Beneath(k, c)
  <1>1. t \in SubmenusIn(c.submenus[m])
    BY DEF SubmenusIn
  <1>2. \A group : m \in group => t \in LedTo(group, c)
    BY <1>1 DEF LedTo
  <1> QED
    BY <1>2 DEF Beneath

LEMMA PushKeeps ==
  ASSUME ScreenInv, MenuInv, At("MainMenu"), app.sel \in DOMAIN app.menu,
         app.menu[app.sel].kind = "submenu", PushSubmenu(app.menu[app.sel].name)
  PROVE  ScreenInv' /\ MenuInv'
  <1> DEFINE s == app.stack
             d == Len(s)
             e == app.menu[app.sel]
             group == BuildGroup(config.submenus[e.name], config, app.role)
             Shown == Offered(config, app.role)
             F == Frames(config, app.role)
  <1>1. /\ Len(s) < MaxMenuDepth /\ group # <<>>
        /\ Become([stack |-> Append(s, Frame), menu |-> group, sel |-> 1])
    BY DEF PushSubmenu, Descend
  <1>2. ScreenInv'
    <2> HIDE DEF group
    <2> QED BY <1>1 DEF ScreenInv
  <1>3. /\ config' = config /\ app'.role = app.role /\ app'.panicked = app.panicked
        /\ app'.menu = group /\ app'.sel = 1 /\ app'.stack = Append(s, Frame)
    <2> HIDE DEF group
    <2> QED BY <1>1 DEF ScreenInv
  <1>4. s \in Seq(F) /\ app.menu \in Seq(Shown) /\ Frame \in F
    BY DEF MenuInv, StackHolds, CursorHolds, Frame, Frames
  <1>5. e \in Shown
    BY <1>4
  <1>6. e.name \in DOMAIN config.submenus
    BY <1>5 DEF Offered, Available
  <1>7. group \in Seq(Shown)
    BY <1>6, GroupsOffered DEF ScreenInv
  <1>8. Frame = [menu |-> app.menu, sel |-> app.sel] /\ e = app.menu[app.sel]
    BY DEF Frame
  <1>9. app.stack = s /\ Len(app.stack) = d
    OBVIOUS
  <1> HIDE DEF F, group, Shown, e, s
  <1>10. /\ d \in Nat /\ Append(s, Frame) \in Seq(F) /\ Len(Append(s, Frame)) = d + 1
         /\ \A n \in 1 .. d : Append(s, Frame)[n] = s[n]
         /\ Append(s, Frame)[d + 1] = Frame
    BY <1>4, Pushed
  <1> HIDE DEF d
  <1>11. Len(app'.stack) = d + 1 /\ DOMAIN app'.stack = 1 .. d + 1 /\ DOMAIN app.stack = 1 .. d
    BY <1>3, <1>4, <1>9, <1>10
  <1>12. ASSUME NEW n \in 1 .. d + 1 PROVE Level(n)' = Level(n)
    <2>1. Level(n)' = app'.stack[n].menu
      BY <1>10, <1>11 DEF Level
    <2>2. CASE n \in 1 .. d
      BY <2>1, <2>2, <1>3, <1>9, <1>10 DEF Level
    <2>3. CASE n = d + 1
      BY <2>1, <2>3, <1>3, <1>8, <1>9, <1>10 DEF Level
    <2> QED
      BY <2>2, <2>3, <1>10
  <1>13. ASSUME NEW n, n = d + 2 PROVE Level(n)' = group
    <2>1. n = Len(app'.stack) + 1
      BY <1>10, <1>11, <1>13
    <2> QED
      BY <2>1, <1>3 DEF Level
  <1>14. \A n \in 1 .. d : Taken(n)' = Taken(n)
    BY <1>3, <1>9, <1>10 DEF Taken
  <1>15. ASSUME NEW n, n = d + 1 PROVE Taken(n)' = e.name
    BY <1>3, <1>8, <1>10, <1>15 DEF Taken
  <1>16. StackHolds'
    <2>1. d + 1 <= MaxMenuDepth
      BY <1>1, <1>9, <1>10, ScreensAssumption
    <2> QED
      BY <2>1, <1>3, <1>7, <1>10, <1>11 DEF StackHolds, Shown, F
  <1>17. CursorHolds'
    <2>1. 1 \in DOMAIN group
      BY <1>1, <1>7
    <2> QED
      BY <2>1, <1>3 DEF MenuInv, CursorHolds
  <1>18. TreeHolds'
    <2>1. Level(1)' = BuildMenu(config, app.role)'
      BY <1>3, <1>10, <1>12 DEF MenuInv, TreeHolds
    <2>2. ASSUME NEW n \in 1 .. d + 1
          PROVE  /\ app'.stack[n].sel \in DOMAIN app'.stack[n].menu
                 /\ app'.stack[n].menu[app'.stack[n].sel].kind = "submenu"
                 /\ Level(n + 1)' = BuildGroup(config'.submenus[Taken(n)'], config', app'.role)
      <3>1. CASE n \in 1 .. d
        <4>1. n + 1 \in 1 .. d + 1
          BY <3>1, <1>10
        <4>2. /\ s[n].sel \in DOMAIN s[n].menu
              /\ s[n].menu[s[n].sel].kind = "submenu"
              /\ Level(n + 1) = BuildGroup(config.submenus[Taken(n)], config, app.role)
          BY <3>1, <1>9, <1>11 DEF MenuInv, TreeHolds
        <4>3. app'.stack[n] = s[n] /\ Level(n + 1)' = Level(n + 1) /\ Taken(n)' = Taken(n)
          BY <3>1, <4>1, <1>3, <1>10, <1>12, <1>14
        <4> QED
          BY <4>2, <4>3, <1>3
      <3>2. CASE n = d + 1
        <4>1. n + 1 = d + 2
          BY <3>2, <1>10
        <4>2. app'.stack[n] = Frame /\ Taken(n)' = e.name
          BY <3>2, <1>3, <1>10, <1>15
        <4>3. Level(n + 1)' = BuildGroup(config.submenus[e.name], config, app.role)
          BY <4>1, <1>13 DEF group
        <4> QED
          BY <4>2, <4>3, <1>3, <1>8
      <3> QED
        BY <3>1, <3>2, <1>10
    <2> QED
      BY <2>1, <2>2, <1>11 DEF TreeHolds
  <1>19. DescentHolds'
    <2>1. ASSUME NEW m \in 1 .. d, NEW n \in 1 .. d + 1, m < n
          PROVE  Taken(n)' \in Beneath(Taken(m), config)
      <3>1. CASE n \in 1 .. d
        BY <3>1, <2>1, <1>11, <1>14 DEF MenuInv, DescentHolds
      <3>2. CASE n = d + 1
        <4> DEFINE last == Taken(d)
        <4>1. d \in 1 .. d /\ d \in DOMAIN app.stack
          BY <1>10, <1>11
        <4>2. s[d] \in F
          BY <4>1, <1>4, <1>9
        <4>3. /\ s[d].menu \in Seq(Shown) /\ s[d].sel \in DOMAIN s[d].menu
              /\ s[d].menu[s[d].sel].kind = "submenu"
              /\ Level(d + 1) = BuildGroup(config.submenus[last], config, app.role)
          BY <4>1, <4>2, <1>9 DEF MenuInv, TreeHolds, F, Frames, Shown
        <4>4. app.menu = BuildGroup(config.submenus[last], config, app.role)
          BY <4>3, <1>9 DEF Level
        <4>5. last \in DOMAIN config.submenus
          <5>1. s[d].menu[s[d].sel] \in Shown
            BY <4>3
          <5> QED
            BY <4>3, <5>1, <1>9 DEF Shown, Offered, Available, Taken
        <4> HIDE DEF last
        <4>6. config.submenus[last] \in Seq(ToSet(config.submenus[last]))
          BY <4>5, ScreensAssumption DEF ScreenInv
        <4>7. app.menu \in Seq({x \in ToSet(config.submenus[last]) : Available(x,
                  config, app.role)})
          BY <4>4, <4>6, GroupsShow
        <4>8. e \in ToSet(config.submenus[last]) /\ e.kind = "submenu"
          BY <4>7, <1>8
        <4>9. /\ e.name \in Beneath(last, config)
              /\ \A k : last \in Beneath(k, config) => e.name \in Beneath(k, config)
          BY <4>5, <4>8, <1>6, LeadsBeneath
        <4>10. m = d \/ last \in Beneath(Taken(m), config)
          <5>1. m = d \/ m < d
            BY <1>10
          <5> QED
            BY <5>1, <4>1, <1>11 DEF MenuInv, DescentHolds, last
        <4> QED
          BY <3>2, <4>9, <4>10, <1>15 DEF last
      <3> QED
        BY <3>1, <3>2, <1>10
    <2>2. ASSUME NEW m \in 1 .. d + 1, NEW n \in 1 .. d + 1, m < n
          PROVE  Taken(n)' \in Beneath(Taken(m)', config')
      <3>1. m \in 1 .. d
        BY <2>2, <1>10
      <3> QED
        BY <2>1, <2>2, <3>1, <1>3, <1>14
    <2> QED
      BY <2>2, <1>11 DEF DescentHolds
  <1> QED
    BY <1>2, <1>16, <1>17, <1>18, <1>19 DEF MenuInv

\* An item that is available opens a screen that is.
LEMMA ItemKeeps ==
  ASSUME ScreenInv, At("MainMenu"), NEW i, ItemAvailable(i, config, app.role), ActivateItem(i)
  PROVE  ScreenInv' /\ MenuKept
  <1>1. config.features \subseteq Switches
    BY ScreensAssumption DEF ScreenInv
  <1>2. ASSUME NEW s, Go(s), Gate(s),
               s \in {"Bulletins", "BoardList", "Oneliners", "Polls", "Timeline",
                         "RemoteBoards",
                      "WhoOnline", "Stats", "Doors", "FileAreas", "Keys", "AdminUsers", "Help"}
        PROVE  ScreenInv' /\ MenuKept
    BY <1>2 DEF ScreenInv, MenuKept
  <1>3. CASE i \in DOMAIN Landing /\ Go(Landing[i])
    <2>1. i \in {"bulletins", "boards", "oneliners", "polls", "timeline",
              "remote_boards", "who",
                 "stats", "doors", "files", "keys", "admin", "help"}
      BY <1>3 DEF Landing
    <2>2. CASE i = "bulletins"
      <3>1. Go("Bulletins")
        BY <1>3, <2>2 DEF Landing
      <3>2. Gate("Bulletins")
        BY <1>1, <2>2 DEF ItemAvailable, Always, Switches, ScreenInv
      <3> QED
        BY <3>1, <3>2, <1>2
    <2>3. CASE i = "boards"
      <3>1. Go("BoardList")
        BY <1>3, <2>3 DEF Landing
      <3>2. Gate("BoardList")
        BY <1>1, <2>3 DEF ItemAvailable, Always, Switches, ScreenInv
      <3> QED
        BY <3>1, <3>2, <1>2
    <2>4. CASE i = "oneliners"
      <3>1. Go("Oneliners")
        BY <1>3, <2>4 DEF Landing
      <3>2. Gate("Oneliners")
        BY <1>1, <2>4 DEF ItemAvailable, Always, Switches, ScreenInv
      <3> QED
        BY <3>1, <3>2, <1>2
    <2>5. CASE i = "polls"
      <3>1. Go("Polls")
        BY <1>3, <2>5 DEF Landing
      <3>2. Gate("Polls")
        BY <1>1, <2>5 DEF ItemAvailable, Always, Switches, ScreenInv
      <3> QED
        BY <3>1, <3>2, <1>2
    <2>6. CASE i = "timeline"
      <3>1. Go("Timeline")
        BY <1>3, <2>6 DEF Landing
      <3>2. Gate("Timeline")
        BY <1>1, <2>6 DEF ItemAvailable, Always, Switches, ScreenInv
      <3> QED
        BY <3>1, <3>2, <1>2
    <2>7. CASE i = "remote_boards"
      <3>1. Go("RemoteBoards")
        BY <1>3, <2>7 DEF Landing
      <3>2. Gate("RemoteBoards")
        BY <1>1, <2>7 DEF ItemAvailable, Always, Switches, ScreenInv
      <3> QED
        BY <3>1, <3>2, <1>2
    <2>8. CASE i = "who"
      <3>1. Go("WhoOnline")
        BY <1>3, <2>8 DEF Landing
      <3>2. Gate("WhoOnline")
        BY <1>1, <2>8 DEF ItemAvailable, Always, Switches, ScreenInv
      <3> QED
        BY <3>1, <3>2, <1>2
    <2>9. CASE i = "stats"
      <3>1. Go("Stats")
        BY <1>3, <2>9 DEF Landing
      <3>2. Gate("Stats")
        BY <1>1, <2>9 DEF ItemAvailable, Always, Switches, ScreenInv
      <3> QED
        BY <3>1, <3>2, <1>2
    <2>10. CASE i = "doors"
      <3>1. Go("Doors")
        BY <1>3, <2>10 DEF Landing
      <3>2. Gate("Doors")
        BY <1>1, <2>10 DEF ItemAvailable, Always, Switches, ScreenInv
      <3> QED
        BY <3>1, <3>2, <1>2
    <2>11. CASE i = "files"
      <3>1. Go("FileAreas")
        BY <1>3, <2>11 DEF Landing
      <3>2. Gate("FileAreas")
        BY <1>1, <2>11 DEF ItemAvailable, Always, Switches, ScreenInv
      <3> QED
        BY <3>1, <3>2, <1>2
    <2>12. CASE i = "keys"
      <3>1. Go("Keys")
        BY <1>3, <2>12 DEF Landing
      <3>2. Gate("Keys")
        BY <1>1, <2>12 DEF ItemAvailable, Always, Switches, ScreenInv
      <3> QED
        BY <3>1, <3>2, <1>2
    <2>13. CASE i = "admin"
      <3>1. Go("AdminUsers")
        BY <1>3, <2>13 DEF Landing
      <3>2. Gate("AdminUsers")
        BY <1>1, <2>13 DEF ItemAvailable, Always, Switches, ScreenInv
      <3> QED
        BY <3>1, <3>2, <1>2
    <2>14. CASE i = "help"
      <3>1. Go("Help")
        BY <1>3, <2>14 DEF Landing
      <3>2. Gate("Help")
        BY <1>1, <2>14 DEF ItemAvailable, Always, Switches, ScreenInv
      <3> QED
        BY <3>1, <3>2, <1>2
    <2> HIDE DEF Go, Gate
    <2> QED
      BY <2>1, <2>2, <2>3, <2>4, <2>5, <2>6, <2>7, <2>8, <2>9, <2>10, <2>11, <2>12, <2>13, <2>14
  <1>4. CASE i = "mail" /\ MailOpens /\ Go("Mailbox")
    BY <1>1, <1>4 DEF ScreenInv, MenuKept, MailOpens, ItemAvailable, Always, Switches
  <1>5. CASE i = "mail_sysop" /\ ~Guest /\ Open(1, "MailSysop")
    BY <1>1, <1>5 DEF ScreenInv, MenuKept, ItemAvailable, Always, Switches
  <1>6. CASE i = "chat" /\ Become([chat |-> TRUE, screen |-> "Chat"])
    BY <1>1, <1>6 DEF ScreenInv, MenuKept, ItemAvailable, Always, Switches
  <1>7. CASE Become([profile |-> "own", profileBack |-> "MainMenu", screen |-> "Profile"])
    BY <1>1, <1>7 DEF ScreenInv, MenuKept
  <1>8. CASE Open(1, "SearchInput")
    BY <1>1, <1>8 DEF ScreenInv, MenuKept
  <1>9. CASE i = "register" /\ Open(3, "Register")
    BY <1>1, <1>9 DEF ScreenInv, MenuKept, ItemAvailable, Always, Switches
  <1>10. CASE Become([quit |-> TRUE])
    BY <1>1, <1>10 DEF ScreenInv, MenuKept
  <1> QED
    BY <1>3, <1>4, <1>5, <1>6, <1>7, <1>8, <1>9, <1>10 DEF ActivateItem

LEMMA EnterMenuKeeps ==
  ASSUME ScreenInv, MenuInv, EnterMenu PROVE ScreenInv' /\ MenuInv'
  <1> DEFINE e == app.menu[app.sel]
  <1>1. CASE app.sel \notin DOMAIN app.menu
    <2>1. Become([panicked |-> TRUE])
      BY <1>1 DEF EnterMenu
    <2>2. ScreenInv'
      BY <2>1 DEF ScreenInv
    <2>3. /\ config' = config /\ app'.role = app.role
          /\ app'.menu = app.menu /\ app'.sel = app.sel /\ app'.stack = app.stack
      BY <2>1 DEF ScreenInv
    <2>4. app.stack = <<>> /\ app.menu = <<>>
      BY <1>1 DEF MenuInv, CursorHolds
    <2>5. Level(1) = app.menu
      BY <2>4 DEF Level
    <2>6. BuildMenu(config, app.role) = <<>>
      BY <2>4, <2>5 DEF MenuInv, TreeHolds
    <2>7. StackHolds' /\ CursorHolds'
      BY <2>3, <2>4, <2>6 DEF MenuInv, StackHolds, CursorHolds
    <2>8. TreeHolds' /\ DescentHolds'
      <3>1. TreeHolds'
        BY <2>3 DEF MenuInv, TreeHolds, Level, Taken
      <3>2. DescentHolds'
        BY <2>3 DEF MenuInv, DescentHolds, Taken
      <3> QED
        BY <3>1, <3>2
    <2> QED
      BY <2>2, <2>7, <2>8 DEF MenuInv
  <1>2. CASE app.sel \in DOMAIN app.menu
    <2>1. At("MainMenu") /\ Activate(e)
      BY <1>2 DEF EnterMenu
    <2>2. Available(e, config, app.role)
      <3>1. e \in Offered(config, app.role)
        BY <1>2 DEF MenuInv, StackHolds
      <3> QED
        BY <3>1 DEF Offered
    <2> HIDE DEF e
    <2>3. CASE e.kind = "item" /\ ActivateItem(e.name)
      <3>1. ItemAvailable(e.name, config, app.role)
        BY <2>2, <2>3 DEF Available
      <3> QED
        BY <2>1, <2>3, <3>1, ItemKeeps, MenuStays
    <2>4. CASE Become([door |-> e.name])
      <3>1. ScreenInv' /\ MenuKept
        BY <2>4 DEF ScreenInv, MenuKept
      <3> QED
        BY <3>1, MenuStays
    <2>5. CASE \E b \in Boards : Become([board |-> b, screen |-> "MessageList"])
      <3>1. ScreenInv' /\ MenuKept
        BY <2>1, <2>5 DEF Boards, ScreenInv, MenuKept
      <3> QED
        BY <3>1, MenuStays
    <2>6. CASE e.kind = "submenu" /\ PushSubmenu(e.name)
      BY <1>2, <2>1, <2>6, PushKeeps DEF e
    <2> QED
      BY <2>1, <2>3, <2>4, <2>5, <2>6 DEF Activate
  <1> QED
    BY <1>1, <1>2

-----------------------------------------------------------------------------
(* Screens: the theorems. *)

IInv == ScreenInv /\ MenuInv

LEMMA SessionStarts == ScreensInit => IInv
  <1> SUFFICES ASSUME ScreensInit PROVE IInv
    OBVIOUS
  <1>1. PICK c \in Configs, role \in {"guest", "user", "admin"}, force \in BOOLEAN,
             bulletins \in BOOLEAN :
          /\ force => role # "guest"
          /\ config = c
          /\ app = [role |-> role, quit |-> FALSE, panicked |-> FALSE, force |-> force,
               screen |-> IF bulletins THEN "Bulletins"
                          ELSE IF force THEN "ChangePassword" ELSE "MainMenu",
               form |-> IF force THEN PasswordForm(TRUE) ELSE 0,
               menu |-> BuildMenu(c, role), sel |-> 1, stack |-> <<>>,
               poll |-> None, rboard |-> None, board |-> None, message |-> None,
               edit |-> None, pending |-> {}, attachBack |-> "ComposePost",
               viewBack |-> "ReadMessage", file |-> None, archive |-> None,
               textBack |-> "FileDetail", profile |-> None, profileBack |-> "MainMenu",
               mail |-> FALSE, page |-> FALSE, fed |-> FALSE, door |-> None, chat |-> FALSE]
    BY DEF ScreensInit
  <1> DEFINE menu == BuildMenu(c, role)
  <1>2. menu \in Seq(Offered(c, role))
    BY GroupsOffered
  <1> HIDE DEF menu
  <1>3. ScreenInv
    BY <1>1 DEF Roles, ScreenInv
  <1>4. /\ config = c /\ app.role = role /\ app.panicked = FALSE
        /\ app.menu = menu /\ app.sel = 1 /\ app.stack = <<>>
    BY <1>1 DEF menu
  <1>5. StackHolds
    BY <1>2, <1>4, ScreensAssumption DEF StackHolds
  <1>6. CursorHolds
    BY <1>2, <1>4 DEF CursorHolds
  <1>7. TreeHolds
    BY <1>4 DEF TreeHolds, Level, menu
  <1>8. DescentHolds
    BY <1>4 DEF DescentHolds
  <1> QED
    BY <1>3, <1>5, <1>6, <1>7, <1>8 DEF IInv, MenuInv

HIDE DEF FieldsHold, Fields, ScreenNames, Filled, Gate, Record, Ready, Around, Draft, PollForm,
  ProfileForm, PasswordForm, Guest, Admin, At, Become, With, Go, Open, Submit, None

LEMMA UnchangedKeeps ==
  ASSUME ScreenInv, UNCHANGED screensVars PROVE ScreenInv' /\ MenuKept
  BY DEF screensVars, ScreenInv, FieldsHold, Filled, Gate, Record, Ready, Around, Draft,
         MenuKept, Guest, Admin

LEMMA SessionGoesOn ==
  ASSUME IInv, [ScreensNext]_screensVars PROVE IInv'
  <1> USE DEF IInv
  <1>1. CASE MoveCursor \/ EnterMenu \/ EscapeMenu
    BY <1>1, MoveCursorKeeps, EnterMenuKeeps, EscapeMenuKeeps
  <1>2. CASE Hangup
    BY <1>2, HangupKeeps, MenuStays
  <1>3. CASE OnBulletins \/ OnReader \/ OnStats \/ OnOneliners \/ OnComposeOneliner
    BY <1>3, BulletinsKeeps, ReaderKeeps, StatsKeeps, OnelinersKeeps,
       ComposeOnelinerKeeps, MenuStays
  <1>4. CASE OnPolls \/ OnViewPoll \/ OnComposePoll \/ OnChat
    BY <1>4, PollsKeeps, ViewPollKeeps, ComposePollKeeps, ChatKeeps, MenuStays
  <1>5. CASE OnTimeline \/ OnFollowRemote
    BY <1>5, TimelineKeeps, FollowRemoteKeeps, MenuStays
  <1>6. CASE OnRemoteBoards \/ OnRemoteBoardPosts \/ OnComposeRemotePost
    BY <1>6, RemoteBoardsKeeps, RemoteBoardPostsKeeps, ComposeRemotePostKeeps, MenuStays
  <1>7. CASE OnBoardList \/ OnMessageList \/ OnReadMessage \/ OnComposePost
    BY <1>7, BoardListKeeps, MessageListKeeps, ReadMessageKeeps, ComposePostKeeps, MenuStays
  <1>8. CASE OnSearchInput \/ OnSearchResults
    BY <1>8, SearchInputKeeps, SearchResultsKeeps, MenuStays
  <1>9. CASE OnAttachPicker \/ OpenAttachments \/ OnAttachments
    BY <1>9, AttachPickerKeeps, OpenAttachmentsKeeps, AttachmentsKeeps, MenuStays
  <1>10. CASE OnFileAreas \/ OnFileList \/ OnFileDetail \/ OnEditFileDesc
    BY <1>10, FileAreasKeeps, FileListKeeps, FileDetailKeeps, EditFileDescKeeps, MenuStays
  <1>11. CASE OnArchiveList \/ OnFileView
    BY <1>11, ArchiveListKeeps, FileViewKeeps, MenuStays
  <1>12. CASE OnMailbox \/ OnMailSearchInput \/ OnMailSearchResults \/ OnReadMail
    BY <1>12, MailboxKeeps, MailSearchInputKeeps, MailSearchResultsKeeps,
       ReadMailKeeps, MenuStays
  <1>13. CASE OnConfirmDeleteMail \/ OnComposeMail \/ OnMailSysop
    BY <1>13, ConfirmDeleteMailKeeps, ComposeMailKeeps, MailSysopKeeps, MenuStays
  <1>14. CASE OnWho \/ OnComposePage \/ OnProfile \/ OnIgnoreList \/ OnEditProfile
    BY <1>14, WhoKeeps, ComposePageKeeps, ProfileKeeps, IgnoreListKeeps,
       EditProfileKeeps, MenuStays
  <1>15. CASE OnChangePassword \/ OnKeys \/ OnAddKey \/ OnRegister \/ OnDoors \/ RunDoor
    BY <1>15, ChangePasswordKeeps, KeysKeeps, AddKeyKeeps, RegisterKeeps, DoorsKeeps,
       RunDoorKeeps, MenuStays
  <1>16. CASE OnAdminUsers \/ OnAdminLogins \/ OnAdminAudit \/ OnComposeBroadcast
    BY <1>16, AdminUsersKeeps, AdminLoginsKeeps, AdminAuditKeeps,
       ComposeBroadcastKeeps, MenuStays
  <1>17. CASE OnAdminFederation \/ OnComposeFederation
    BY <1>17, AdminFederationKeeps, ComposeFederationKeeps, MenuStays
  <1>18. CASE UNCHANGED screensVars
    <2>1. ScreenInv' /\ MenuKept
      BY <1>18, UnchangedKeeps
    <2> QED
      BY <2>1, MenuStays
  <1> QED
    BY <1>1, <1>2, <1>3, <1>4, <1>5, <1>6, <1>7, <1>8, <1>9, <1>10, <1>11, <1>12,
       <1>13, <1>14, <1>15, <1>16, <1>17, <1>18 DEF ScreensNext

THEOREM SessionInvariant == ScreensSpec => []IInv
  <1>1. ScreensInit => IInv
    BY SessionStarts
  <1>2. IInv /\ [ScreensNext]_screensVars => IInv'
    BY SessionGoesOn
  <1> QED
    BY <1>1, <1>2, PTL DEF ScreensSpec

\* The types of the fields.
THEOREM ScreensTypes == ScreensSpec => []ScreensTypeOK
  <1>1. IInv => ScreensTypeOK
    BY NamesOfScreens DEF IInv, ScreenInv, FieldsHold, MenuInv, StackHolds,
       CursorHolds, ScreensTypeOK
  <1> QED
    BY <1>1, SessionInvariant, PTL

\* Every screen has the record it works on, and a draft, a page, a poll in view
\* and a domain under review go with their screen.
THEOREM RecordsAreThere == ScreensSpec => []ScreensHaveContext
  <1>1. IInv => ScreensHaveContext
    BY DEF IInv, ScreenInv, Around, Draft, Ready, Record, Drafting, ScreensHaveContext,
       FieldsHold, None
  <1> QED
    BY <1>1, SessionInvariant, PTL

\* The one key that panics a session is Enter on a menu without entries: one
\* whose entries are all unknown or not for this role.
THEOREM OnlyEmptyMenusPanic ==
  ScreensSpec => [](app.panicked => BuildMenu(config, app.role) = <<>>)
  <1>1. IInv => (app.panicked => BuildMenu(config, app.role) = <<>>)
    BY DEF IInv, MenuInv, CursorHolds
  <1> QED
    BY <1>1, SessionInvariant, PTL

\* Where every menu has an entry for every role, no key panics.
THEOREM NoKeyPanics ==
  ASSUME \A c \in Configs : \A role \in Roles : BuildMenu(c, role) # <<>>
  PROVE  ScreensSpec => []NoPanic
  <1>1. IInv => NoPanic
    BY DEF IInv, ScreenInv, FieldsHold, MenuInv, CursorHolds, NoPanic
  <1> QED
    BY <1>1, SessionInvariant, PTL

\* No screen is shown without the role and the switch it takes.
THEOREM GatesAreHeld == ScreensSpec => []GatesHold
  <1>1. IInv => GatesHold
    <2> SUFFICES ASSUME Gate(app.screen) PROVE GatesHold
      BY DEF IInv, ScreenInv, Around, Ready
    <2>1. app.screen \in ForAdmins => Admin
      BY DEF Gate, ForAdmins
    <2>2. app.screen \in NotForGuests => ~Guest
      <3>1. app.screen \in ScreensOf.mail \cup ScreensOf.keys => ~Guest
        BY DEF Gate, ScreensOf
      <3>2. Admin => ~Guest
        BY DEF Admin, Guest
      <3> QED
        BY <2>1, <3>1, <3>2 DEF Gate, NotForGuests
    <2>3. ASSUME NEW i \in DOMAIN ScreensOf, app.screen \in ScreensOf[i]
          PROVE  i \in config.features
      <3>1. i \in {"mail", "oneliners", "polls", "chat", "who", "timeline", "keys",
                   "remote_boards", "register", "mail_sysop"}
        BY DEF ScreensOf
      <3> QED
        BY <2>3, <3>1 DEF Gate, ScreensOf
    <2> QED
      BY <2>1, <2>2, <2>3 DEF GatesHold
  <1> QED
    BY <1>1, SessionInvariant, PTL

\* Esc again and again leads to the main menu.
LEMMA WayOut ==
  ASSUME FieldsHold PROVE Way = "MainMenu"
  <1> DEFINE L1 == {"MainMenu"} \cup Menuward
             L2 == L1 \cup {"ReadBulletin", "ComposeOneliner", "ViewPoll", "ComposePoll",
                     "FollowRemote", "RemoteBoardPosts", "MessageList", "ReadMail",
                               "ComposeMail",
                     "ConfirmDeleteMail", "MailSearchInput", "MailSearchResults", "ComposePage",
                     "Profile", "FileList", "AddKey", "AdminLogins", "AdminAudit",
                     "AdminFederation", "ComposeBroadcast"}
             L3 == L2 \cup {"ComposeRemotePost", "ReadMessage", "ComposePost", "IgnoreList",
                     "EditProfile", "FileDetail", "ChangePassword", "ComposeFederation"}
             L4 == L3 \cup {"EditFileDesc", "ArchiveList", "AttachPicker", "Attachments"}
             L5 == L4 \cup {"FileView"}
  <1>1. Esc("MainMenu") = "MainMenu"
    BY DEF Esc
  <1>2. \A s \in L1 : Esc(s) = "MainMenu"
    BY DEF Esc, EscapeTo, Menuward
  <1> USE DEF FieldsHold
  <1>3. \A s \in L2 : Esc(s) \in L1
    BY <1>2, Escapes DEF Esc, Menuward
  <1>4. \A s \in L3 : Esc(s) \in L2
    BY <1>3, Escapes DEF Esc
  <1>5. \A s \in L4 : Esc(s) \in L3
    BY <1>4, Escapes DEF Esc
  <1>6. \A s \in L5 : Esc(s) \in L4
    BY <1>5, Escapes DEF Esc
  <1>7. app.screen \in L5
    BY DEF Menuward, ScreenNames
  <1> HIDE DEF L1, L2, L3, L4, L5
  <1> QED
    BY <1>1, <1>2, <1>3, <1>4, <1>5, <1>6, <1>7 DEF Way

\* Esc leads out, level by level, and a tree that validate-menu accepts is
\* never entered twice.
THEOREM EscAlwaysLeadsOut == ScreensSpec => []EscLeadsOut
  <1>1. ASSUME IInv PROVE EscLeadsOut
    <2> USE <1>1 DEF IInv
    <2>1. ~(app.screen = "ChangePassword" /\ app.force) => Way = "MainMenu"
      BY WayOut DEF ScreenInv
    <2>2. app.stack \in Seq(Frames(config, app.role))
      BY DEF MenuInv, StackHolds
    <2>3. app.stack # <<>> => app.stack[1].menu = BuildMenu(config, app.role)
      BY <2>2 DEF MenuInv, TreeHolds, Level
    <2>4. ASSUME NEW n \in DOMAIN app.stack
          PROVE  /\ app.stack[n].sel \in DOMAIN app.stack[n].menu
                 /\ app.stack[n].menu[app.stack[n].sel].kind = "submenu"
                 /\ (IF n = Len(app.stack) THEN app.menu ELSE app.stack[n + 1].menu) =
                      BuildGroup(config.submenus[app.stack[n].menu[app.stack[n].sel].name],
                                 config, app.role)
      <3>1. n \in Nat /\ Len(app.stack) \in Nat
        BY <2>2
      <3>2. Level(n + 1) = IF n = Len(app.stack) THEN app.menu ELSE app.stack[n + 1].menu
        BY <3>1 DEF Level
      <3> QED
        BY <3>2 DEF MenuInv, TreeHolds, Taken
    <2>5. ASSUME ValidateMenu(config),
                 NEW m \in DOMAIN app.stack, NEW n \in DOMAIN app.stack, Taken(m) = Taken(n)
          PROVE  m = n
      <3>1. \A k \in DOMAIN config.submenus : k \notin Beneath(k, config)
        BY <2>5 DEF ValidateMenu
      <3>2. \A k : k \notin Beneath(k, config)
        BY <3>1 DEF Beneath
      <3>3. ~(m < n) /\ ~(n < m)
        BY <2>5, <3>2 DEF MenuInv, DescentHolds
      <3>4. m \in Nat /\ n \in Nat
        BY <2>2
      <3> QED
        BY <3>3, <3>4
    <2>6. ValidateMenu(config) => IsInjective([n \in DOMAIN app.stack |-> Taken(n)])
      BY <2>5 DEF IsInjective
    <2> QED
      BY <2>1, <2>3, <2>4, <2>6 DEF EscLeadsOut
  <1> QED
    BY <1>1, SessionInvariant, PTL
=============================================================================
