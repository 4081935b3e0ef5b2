-------------------------- MODULE Sessions_proofs --------------------------
(***************************************************************************)
(* Proofs about module Sessions, for any set of connections, any number of *)
(* shells per connection and any channel capacity.                         *)
(***************************************************************************)
EXTENDS Sessions, TLAPS

\* Every step keeps the types: in particular no channel outgrows its capacity.
THEOREM TypeCorrect == Spec => []TypeOK
<1> USE SessionsAssumption DEF TypeOK, Ssh, Shells, Events, Live, Finished
<1>1. Init => TypeOK
  BY DEF Init
<1>2. TypeOK /\ [Next]_vars => TypeOK'
  <2> SUFFICES ASSUME TypeOK, [Next]_vars PROVE TypeOK'
    OBVIOUS
  <2>1. ASSUME NEW c \in Conns, NEW k \in 1 .. MaxShells, ShellRequest(c, k)
        PROVE  TypeOK'
    <3>1. <<c, k>> \in Shells /\ k \in 0 .. MaxShells
      OBVIOUS
    <3>2. app' \in [Shells -> {"none"} \cup Live \cup Finished]
      BY <2>1, <3>1 DEF ShellRequest
    <3>3. /\ conn' \in [Conns -> {"idle", "open", "closed"}]
          /\ feed' \in [Conns -> 0 .. MaxShells]
          /\ inner' \in [Conns -> 0 .. MaxShells]
      BY <2>1, <3>1 DEF ShellRequest
    <3>4. UNCHANGED <<chat, inChat, queue, reaper, writer, banned, banked>>
      BY <2>1 DEF ShellRequest
    <3>5. QED
      BY <3>2, <3>3, <3>4
  <2>2. ASSUME NEW c \in Conns, WsLogin(c) PROVE TypeOK'
    <3>1. <<c, 1>> \in Shells /\ 1 \in 0 .. MaxShells
      OBVIOUS
    <3>2. app' \in [Shells -> {"none"} \cup Live \cup Finished]
      BY <2>2, <3>1 DEF WsLogin
    <3>3. /\ conn' \in [Conns -> {"idle", "open", "closed"}]
          /\ feed' \in [Conns -> 0 .. MaxShells]
          /\ inner' \in [Conns -> 0 .. MaxShells]
      BY <2>2, <3>1 DEF WsLogin
    <3>4. UNCHANGED <<chat, inChat, queue, reaper, writer, banned, banked>>
      BY <2>2 DEF WsLogin
    <3> HIDE DEF Shells, Events, Live, Finished
    <3>5. QED
      BY <3>2, <3>3, <3>4
  <2>3. ASSUME NEW c \in Conns, Data(c) PROVE TypeOK'
    <3> DEFINE a == <<c, feed[c]>>
    <3>1. a \in Shells
      BY <2>3 DEF Data
    <3>2. queue' = [queue EXCEPT ![a] = Append(queue[a], "key")] /\ Len(queue[a]) < Cap
      BY <2>3 DEF Data
    <3> HIDE DEF a, Shells
    <3>3. queue[a] \in Seq(Events)
      BY <3>1
    <3>4. Append(queue[a], "key") \in Seq(Events) /\ Len(Append(queue[a], "key")) <= Cap
      BY <3>2, <3>3
    <3>5. queue' \in [Shells -> Seq(Events)]
      BY <3>1, <3>2, <3>4
    <3>6. \A b \in Shells : Len(queue'[b]) <= Cap
      BY <3>1, <3>2, <3>4
    <3>7. QED
      BY <2>3, <3>5, <3>6 DEF Data
  <2>4. ASSUME NEW c \in Conns, Disconnect(c) PROVE TypeOK'
    BY <2>4 DEF Disconnect
  <2>5. ASSUME NEW c \in Conns, WsInputEnded(c) PROVE TypeOK'
    BY <2>5 DEF WsInputEnded
  <2>6. ASSUME NEW c \in Conns, WsAppEnded(c) PROVE TypeOK'
    BY <2>6 DEF WsAppEnded
  <2>7. ASSUME NEW c \in Conns, WriterStops(c) PROVE TypeOK'
    BY <2>7 DEF WriterStops
  <2>8. ASSUME NEW c \in Conns, ReaperStep(c) PROVE TypeOK'
    <3>1. CASE ReaperLeave(c)
      BY <3>1 DEF ReaperLeave
    <3>2. CASE ReaperLeaveChat(c)
      BY <3>2 DEF ReaperLeaveChat
    <3>3. QED
      BY <2>8, <3>1, <3>2 DEF ReaperStep
  <2>9. ASSUME NEW c \in Conns, Ban(c) PROVE TypeOK'
    BY <2>9 DEF Ban
  <2>10. ASSUME NEW c \in Conns, Kick(c) PROVE TypeOK'
    <3> DEFINE a == <<c, inner[c]>>
    <3>1. a \in Shells
      BY <2>10 DEF Kick
    <3>2. queue' = [queue EXCEPT ![a] = Append(queue[a], "quit")] /\ Len(queue[a]) < Cap
      BY <2>10 DEF Kick
    <3> HIDE DEF a, Shells
    <3>3. queue[a] \in Seq(Events)
      BY <3>1
    <3>4. Append(queue[a], "quit") \in Seq(Events) /\ Len(Append(queue[a], "quit")) <= Cap
      BY <3>2, <3>3
    <3>5. queue' \in [Shells -> Seq(Events)]
      BY <3>1, <3>2, <3>4
    <3>6. \A b \in Shells : Len(queue'[b]) <= Cap
      BY <3>1, <3>2, <3>4
    <3>7. QED
      BY <2>10, <3>5, <3>6 DEF Kick
  <2>11. ASSUME NEW a \in Shells, AppStep(a) PROVE TypeOK'
    <3>1. CASE Start(a)
      BY <3>1 DEF Start, Drawn
    \* What is left of the queue once its head has been taken.
    <3>t. ASSUME queue[a] # << >>
          PROVE  Tail(queue[a]) \in Seq(Events) /\ Len(Tail(queue[a])) <= Cap
      <4>1. queue[a] \in Seq(Events) /\ Len(queue[a]) <= Cap
        OBVIOUS
      <4> HIDE DEF Events, Shells
      <4>2. QED
        BY <3>t, <4>1
    \* A key is taken and the screen drawn.
    <3>d. ASSUME Receives(a, "key"), Drawn(a, Tail(queue[a]))
          PROVE  /\ app' \in [Shells -> {"none"} \cup Live \cup Finished]
                 /\ queue' \in [Shells -> Seq(Events)]
                 /\ \A b \in Shells : Len(queue'[b]) <= Cap
      <4> DEFINE new == IF writer[a[1]] THEN Tail(queue[a]) ELSE << >>
      <4>1. new \in Seq(Events) /\ Len(new) <= Cap
        BY <3>t, <3>d DEF Receives
      <4>2. queue' = [queue EXCEPT ![a] = new]
        BY <3>d DEF Drawn
      <4>3. app' \in [Shells -> {"none"} \cup Live \cup Finished]
        BY <3>d DEF Drawn
      <4> HIDE DEF new, Shells, Events
      <4>4. queue' \in [Shells -> Seq(Events)]
        BY <4>1, <4>2
      <4>5. \A b \in Shells : Len(queue'[b]) <= Cap
        BY <4>1, <4>2
      <4>6. QED
        BY <4>3, <4>4, <4>5
    <3>2. CASE PlainKey(a)
      <4>1. UNCHANGED <<conn, feed, inner, chat, inChat, reaper, writer, banned, banked>>
        BY <3>2 DEF PlainKey
      <4>2. Receives(a, "key") /\ Drawn(a, Tail(queue[a]))
        BY <3>2 DEF PlainKey
      <4> HIDE DEF Shells, Events, Live, Finished
      <4>3. QED
        BY <3>d, <4>1, <4>2
    <3>3. CASE ChatKey(a)
      <4>1. UNCHANGED <<conn, feed, inner, reaper, writer, banned, banked>>
        BY <3>3 DEF ChatKey
      <4>2. chat' \subseteq Conns /\ inChat' \subseteq Shells
        BY <3>3 DEF ChatKey
      <4>3. Receives(a, "key") /\ Drawn(a, Tail(queue[a]))
        BY <3>3 DEF ChatKey
      <4> HIDE DEF Shells, Events, Live, Finished
      <4>4. QED
        BY <3>d, <4>1, <4>2, <4>3
    <3>4. CASE Quit(a)
      <4>1. queue[a] \in Seq(Events) /\ queue[a] # << >>
        BY <3>4 DEF Quit, Receives
      <4>2. Tail(queue[a]) \in Seq(Events) /\ Len(Tail(queue[a])) <= Cap
        BY <4>1
      <4>3. queue' \in [Shells -> Seq(Events)]
        BY <3>4, <4>2 DEF Quit
      <4>4. \A b \in Shells : Len(queue'[b]) <= Cap
        BY <3>4, <4>2 DEF Quit
      <4>5. QED
        BY <3>4, <4>3, <4>4 DEF Quit, Move
    <3>5. CASE EndOfEvents(a)
      BY <3>5 DEF EndOfEvents, Move
    <3>6. CASE BankTime(a)
      BY <3>6 DEF BankTime, Move
    <3>7. CASE AppLeave(a)
      BY <3>7 DEF AppLeave, Move
    <3>8. CASE AppLeaveChat(a)
      <4>1. queue' \in [Shells -> Seq(Events)]
        BY <3>8 DEF AppLeaveChat, Drop
      <4>2. \A b \in Shells : Len(queue'[b]) <= Cap
        BY <3>8 DEF AppLeaveChat, Drop
      <4>3. app' \in [Shells -> {"none"} \cup Live \cup Finished]
        BY <3>8 DEF AppLeaveChat, Move
      <4>4. /\ chat' \subseteq Conns
            /\ UNCHANGED <<conn, feed, inner, inChat, reaper, writer, banned, banked>>
        BY <3>8 DEF AppLeaveChat
      <4> HIDE DEF Shells, Events, Live, Finished
      <4>5. QED
        BY <4>1, <4>2, <4>3, <4>4
    <3>9. CASE Aborted(a)
      <4>1. queue' \in [Shells -> Seq(Events)]
        BY <3>9 DEF Aborted, Drop
      <4>2. \A b \in Shells : Len(queue'[b]) <= Cap
        BY <3>9 DEF Aborted, Drop
      <4>3. app' \in [Shells -> {"none"} \cup Live \cup Finished]
        BY <3>9 DEF Aborted
      <4>4. UNCHANGED <<conn, feed, inner, chat, inChat, reaper, writer, banned, banked>>
        BY <3>9 DEF Aborted
      <4> HIDE DEF Shells, Events, Live, Finished
      <4>5. QED
        BY <4>1, <4>2, <4>3, <4>4
    <3>10. QED
      BY <2>11, <3>1, <3>2, <3>3, <3>4, <3>5, <3>6, <3>7, <3>8, <3>9
      DEF AppStep
  <2>12. CASE UNCHANGED vars
    BY <2>12 DEF vars
  <2>13. QED
    BY <2>1, <2>2, <2>3, <2>4, <2>5, <2>6, <2>7, <2>8, <2>9, <2>10, <2>11,
       <2>12 DEF Next
<1>3. QED
  BY <1>1, <1>2, PTL DEF Spec

-----------------------------------------------------------------------------
(* Who removes the registry entry last.                                      *)

\* The draw of an app can fail only where the output task may stop early.
WriterRuns == \A c \in Conns \ Frail : writer[c]

\* Once a clean-up is past its first half the entry is gone and stays gone; an
\* app past its own first half has removed it too, and a browser has one app.
OnlineInv ==
  /\ WriterRuns
  /\ \A c \in Conns :
       /\ conn[c] = "idle" => \A k \in 1 .. MaxShells : app[<<c, k>>] = "none"
       /\ conn[c] # "closed" <=> reaper[c] = "none"
       /\ reaper[c] \in {"leaveChat", "done"} => inner[c] = 0
       /\ \A k \in 1 .. MaxShells : app[<<c, k>>] = "aborted" => conn[c] = "closed"
       /\ \A k \in 1 .. MaxShells : app[<<c, k>>] = "failed" => c \in Frail
       /\ c \in Web /\ app[<<c, 1>>] \in {"leaveChat", "done"} => inner[c] = 0

\* A connection that is over is not listed as online: for SSH always, because
\* the handler's Drop follows every registration of the id; for a WebSocket
\* provided the output task outlives the app.
THEOREM GhostFreeRegistry ==
  ASSUME Web \cap Frail = {}
  PROVE  Spec => []NoGhostOnline
<1> USE SessionsAssumption DEF Shells, Ssh
<1>1. Init => OnlineInv
  BY DEF Init, OnlineInv, WriterRuns
<1>2. TypeOK /\ OnlineInv /\ [Next]_vars => OnlineInv'
  <2> SUFFICES ASSUME TypeOK, OnlineInv, [Next]_vars PROVE OnlineInv'
    OBVIOUS
  <2> USE DEF TypeOK, OnlineInv, WriterRuns, Finished, Live
  <2>1. ASSUME NEW c \in Conns, NEW k \in 1 .. MaxShells, ShellRequest(c, k)
        PROVE  OnlineInv'
    <3>1. <<c, k>> \in Shells
      OBVIOUS
    <3>2. /\ conn[c] # "closed"
          /\ conn' = [conn EXCEPT ![c] = "open"]
          /\ inner' = [inner EXCEPT ![c] = k]
          /\ app' = [app EXCEPT ![<<c, k>>] = "start"]
          /\ UNCHANGED <<reaper, writer>>
      BY <2>1 DEF ShellRequest
    <3>3. c \notin Web
      BY <2>1 DEF ShellRequest
    <3>4. ASSUME NEW i \in Conns, NEW n \in 1 .. MaxShells
          PROVE  /\ conn'[i] = "idle" => app'[<<i, n>>] = "none"
                 /\ app'[<<i, n>>] = "aborted" => conn'[i] = "closed"
                 /\ app'[<<i, n>>] = "failed" => i \in Frail
      <4>1. CASE i = c /\ n = k
        <5>1. app'[<<i, n>>] = "start" /\ conn'[i] = "open"
          BY <3>1, <3>2, <4>1
        <5>2. QED
          BY <5>1
      <4>2. CASE i # c \/ n # k
        <5>1. app'[<<i, n>>] = app[<<i, n>>]
          BY <3>1, <3>2, <4>2
        <5>2. conn[i] = "closed" => conn'[i] = "closed"
          BY <3>2
        <5>3. conn'[i] = "idle" => conn[i] = "idle"
          BY <3>2
        <5>4. QED
          BY <5>1, <5>2, <5>3
      <4>3. QED
        BY <4>1, <4>2
    <3>5. ASSUME NEW i \in Conns
          PROVE  /\ conn'[i] # "closed" <=> reaper'[i] = "none"
                 /\ reaper'[i] \in {"leaveChat", "done"} => inner'[i] = 0
      <4>1. CASE i = c
        <5>1. conn[c] # "closed" /\ reaper' = reaper /\ conn' = [conn EXCEPT ![c] = "open"]
          BY <3>2
        <5>2. reaper[c] = "none"
          BY <5>1 DEF OnlineInv
        <5>3. conn'[c] = "open"
          BY <5>1 DEF TypeOK
        <5> HIDE DEF OnlineInv, TypeOK
        <5>4. QED
          BY <4>1, <5>1, <5>2, <5>3
      <4>2. CASE i # c
        <5>1. conn'[i] = conn[i] /\ reaper'[i] = reaper[i] /\ inner'[i] = inner[i]
          BY <3>2, <4>2
        <5>2. QED
          BY <5>1
      <4>3. QED
        BY <4>1, <4>2
    <3>6. ASSUME NEW i \in Conns, i \in Web, app'[<<i, 1>>] \in {"leaveChat", "done"}
          PROVE  inner'[i] = 0
      <4>1. i # c /\ <<i, 1>> \in Shells
        BY <3>3, <3>6
      <4>2. app'[<<i, 1>>] = app[<<i, 1>>] /\ inner'[i] = inner[i]
        BY <3>2, <4>1
      <4>3. QED
        BY <3>6, <4>2
    <3>7. QED
      BY <3>2, <3>4, <3>5, <3>6
  <2>2. ASSUME NEW c \in Conns, WsLogin(c) PROVE OnlineInv'
    BY <2>2 DEF WsLogin
  <2>3. ASSUME NEW c \in Conns, Data(c) PROVE OnlineInv'
    BY <2>3 DEF Data
  <2>4. ASSUME NEW c \in Conns, Disconnect(c) PROVE OnlineInv'
    BY <2>4 DEF Disconnect
  <2>5. ASSUME NEW c \in Conns, WsInputEnded(c) PROVE OnlineInv'
    BY <2>5 DEF WsInputEnded
  <2>6. ASSUME NEW c \in Conns, WsAppEnded(c) PROVE OnlineInv'
    BY <2>6 DEF WsAppEnded
  <2>7. ASSUME NEW c \in Conns, WriterStops(c) PROVE OnlineInv'
    BY <2>7 DEF WriterStops
  <2>8. ASSUME NEW c \in Conns, ReaperStep(c) PROVE OnlineInv'
    <3>1. CASE ReaperLeave(c)
      BY <3>1 DEF ReaperLeave
    <3>2. CASE ReaperLeaveChat(c)
      BY <3>2 DEF ReaperLeaveChat
    <3>3. QED
      BY <2>8, <3>1, <3>2 DEF ReaperStep
  <2>9. ASSUME NEW c \in Conns, Ban(c) PROVE OnlineInv'
    BY <2>9 DEF Ban
  <2>10. ASSUME NEW c \in Conns, Kick(c) PROVE OnlineInv'
    BY <2>10 DEF Kick
  <2>11. ASSUME NEW a \in Shells, AppStep(a) PROVE OnlineInv'
    <3>1. PICK c \in Conns, k \in 1 .. MaxShells : a = <<c, k>>
      OBVIOUS
    \* A step that moves this app along without touching anything else.
    <3>2. ASSUME app[<<c, k>>] \in Live,
                 \A b \in Shells : b # <<c, k>> => app'[b] = app[b],
                 app'[<<c, k>>] = "aborted" => conn[c] = "closed",
                 app'[<<c, k>>] = "failed" => c \in Frail,
                 app'[<<c, k>>] \in {"leaveChat", "done"} =>
                   app[<<c, k>>] = "leaveChat" \/ inner'[c] = 0,
                 inner' = inner \/ inner' = [inner EXCEPT ![c] = 0],
                 UNCHANGED <<conn, reaper, writer>>
          PROVE  OnlineInv'
      <4>1. \A i \in Conns : inner[i] = 0 => inner'[i] = 0
        BY <3>2
      <4>3. conn[c] # "idle"
        BY <3>2
      <4>4. ASSUME NEW i \in Conns, NEW n \in 1 .. MaxShells, i # c \/ n # k
            PROVE  app'[<<i, n>>] = app[<<i, n>>]
        <5>1. <<i, n>> # <<c, k>> /\ <<i, n>> \in Shells
          BY <4>4
        <5>2. QED
          BY <3>2, <5>1
      <4>5. ASSUME NEW i \in Conns, i \in Web,
                   app'[<<i, 1>>] \in {"leaveChat", "done"}
            PROVE  inner'[i] = 0
        <5>1. 1 \in 1 .. MaxShells
          OBVIOUS
        <5>2. CASE i = c /\ k = 1
          BY <3>2, <4>1, <5>2, <4>5
        <5>3. CASE i # c \/ k # 1
          <6>1. app'[<<i, 1>>] = app[<<i, 1>>]
            BY <4>4, <5>1, <5>3
          <6>2. app[<<i, 1>>] \in {"leaveChat", "done"}
            BY <4>5, <6>1
          <6>3. inner[i] = 0
            BY <4>5, <6>2
          <6>4. QED
            BY <4>1, <6>3
        <5>4. QED
          BY <5>2, <5>3
      <4>6. ASSUME NEW i \in Conns, NEW n \in 1 .. MaxShells
            PROVE  /\ conn[i] = "idle" => app'[<<i, n>>] = "none"
                   /\ app'[<<i, n>>] = "aborted" => conn[i] = "closed"
                   /\ app'[<<i, n>>] = "failed" => i \in Frail
        <5>1. CASE i = c /\ n = k
          <6>1. conn[i] # "idle" /\ conn[i] = conn[c]
            BY <4>3, <5>1
          <6>2. app'[<<i, n>>] = app'[<<c, k>>]
            BY <5>1, Zenon
          <6>3. app'[<<i, n>>] = "aborted" => conn[i] = "closed"
            BY <3>2, <6>1, <6>2
          <6>4. app'[<<i, n>>] = "failed" => i \in Frail
            BY <3>2, <5>1, <6>2
          <6>5. QED
            BY <6>1, <6>3, <6>4
        <5>2. CASE i # c \/ n # k
          <6>1. app'[<<i, n>>] = app[<<i, n>>]
            BY <4>4, <5>2
          <6>2. /\ conn[i] = "idle" => app[<<i, n>>] = "none"
                /\ app[<<i, n>>] = "aborted" => conn[i] = "closed"
                /\ app[<<i, n>>] = "failed" => i \in Frail
            OBVIOUS
          <6>3. QED
            BY <6>1, <6>2
        <5>3. QED
          BY <5>1, <5>2
      <4>7. \A i \in Conns : reaper[i] \in {"leaveChat", "done"} => inner'[i] = 0
        BY <4>1
      <4>8. QED
        BY <3>2, <4>5, <4>6, <4>7
    <3>3. ASSUME Start(a) \/ PlainKey(a) \/ ChatKey(a) PROVE OnlineInv'
      <4>1. /\ app[<<c, k>>] \in Live
            /\ app' = [app EXCEPT ![<<c, k>>] =
                         IF writer[c] THEN "loop" ELSE "failed"]
            /\ UNCHANGED <<conn, reaper, writer, inner>>
        BY <3>1, <3>3 DEF Start, PlainKey, ChatKey, Drawn, Receives
      <4>2. app'[<<c, k>>] \in {"loop", "failed"}
        BY <4>1
      <4>3. app'[<<c, k>>] = "failed" => c \in Frail
        BY <4>1
      <4>4. QED
        BY <4>1, <4>2, <4>3, <3>2
    <3>4. ASSUME Quit(a) \/ EndOfEvents(a) PROVE OnlineInv'
      <4>1. /\ app[<<c, k>>] \in Live
            /\ app' = [app EXCEPT ![<<c, k>>] = "bank"]
            /\ UNCHANGED <<conn, reaper, writer, inner>>
        BY <3>1, <3>4 DEF Quit, EndOfEvents, Move
      <4>2. /\ app'[<<c, k>>] = "bank"
            /\ \A b \in Shells : b # <<c, k>> => app'[b] = app[b]
        BY <4>1
      <4>3. QED
        BY <4>1, <4>2, <3>2
    <3>5. CASE BankTime(a)
      <4>1. /\ app[<<c, k>>] \in Live
            /\ app' = [app EXCEPT ![<<c, k>>] = "leave"]
            /\ UNCHANGED <<conn, reaper, writer, inner>>
        BY <3>1, <3>5 DEF BankTime, Move
      <4>2. /\ app'[<<c, k>>] = "leave"
            /\ \A b \in Shells : b # <<c, k>> => app'[b] = app[b]
        BY <4>1
      <4>3. QED
        BY <4>1, <4>2, <3>2
    <3>6. CASE AppLeave(a)
      <4>1. /\ app[<<c, k>>] \in Live
            /\ app' = [app EXCEPT ![<<c, k>>] = "leaveChat"]
            /\ inner' = [inner EXCEPT ![c] = 0]
            /\ UNCHANGED <<conn, reaper, writer>>
        BY <3>1, <3>6 DEF AppLeave, Move
      <4>2. /\ inner'[c] = 0 /\ app'[<<c, k>>] = "leaveChat"
            /\ \A b \in Shells : b # <<c, k>> => app'[b] = app[b]
        BY <4>1
      <4>3. QED
        BY <4>1, <4>2, <3>2
    <3>7. CASE AppLeaveChat(a)
      <4>1. /\ app[<<c, k>>] = "leaveChat"
            /\ app' = [app EXCEPT ![<<c, k>>] = "done"]
            /\ UNCHANGED <<conn, reaper, writer, inner>>
        BY <3>1, <3>7 DEF AppLeaveChat, Move
      <4>2. /\ app'[<<c, k>>] = "done"
            /\ \A b \in Shells : b # <<c, k>> => app'[b] = app[b]
        BY <4>1
      <4>3. QED
        BY <4>1, <4>2, <3>2
    <3>8. CASE Aborted(a)
      <4>1. /\ app[<<c, k>>] \in Live
            /\ app' = [app EXCEPT ![<<c, k>>] = "aborted"]
            /\ conn[c] = "closed"
            /\ UNCHANGED <<conn, reaper, writer, inner>>
        BY <3>1, <3>8 DEF Aborted
      <4>2. /\ app'[<<c, k>>] = "aborted"
            /\ \A b \in Shells : b # <<c, k>> => app'[b] = app[b]
        BY <4>1
      <4>3. QED
        BY <4>1, <4>2, <3>2
    <3>9. QED
      BY <2>11, <3>3, <3>4, <3>5, <3>6, <3>7, <3>8 DEF AppStep
  <2>12. CASE UNCHANGED vars
    BY <2>12 DEF vars
  <2>13. QED
    BY <2>1, <2>2, <2>3, <2>4, <2>5, <2>6, <2>7, <2>8, <2>9, <2>10, <2>11,
       <2>12 DEF Next
<1>3. OnlineInv => NoGhostOnline
  BY DEF OnlineInv, NoGhostOnline, Settled
<1>4. QED
  BY <1>1, <1>2, <1>3, TypeCorrect, PTL DEF Spec

-----------------------------------------------------------------------------
(* What an SSH session leaves behind.                                        *)

\* Whoever is in the chat room still has an app that will take it out.
ExitInv ==
  /\ WriterRuns
  /\ \A a \in Shells : app[a] \notin {"failed", "aborted"}
  /\ \A c \in chat : \E k \in 1 .. MaxShells : app[<<c, k>>] \in Live

\* An SSH session whose output task outlives its app leaves no ghost in the chat
\* room.
THEOREM CleanExit ==
  ASSUME Web = {}, Frail = {}
  PROVE  Spec => []NoGhostInChat
<1> USE SessionsAssumption DEF Ssh, Live, Finished
<1>1. Init => ExitInv
  BY DEF Init, ExitInv, WriterRuns
<1>2. TypeOK /\ ExitInv /\ [Next]_vars => ExitInv'
  <2> SUFFICES ASSUME TypeOK, ExitInv, [Next]_vars PROVE ExitInv'
    OBVIOUS
  <2> USE DEF TypeOK, ExitInv, WriterRuns
  \* Steps of the transport, the clean-up and the sweeper.
  <2>1. ASSUME UNCHANGED <<app, writer>>, chat' \subseteq chat
        PROVE  ExitInv'
    BY <2>1
  <2>2. ASSUME NEW c \in Conns, NEW k \in 1 .. MaxShells, ShellRequest(c, k)
        PROVE  ExitInv'
    <3>1. /\ app' = [app EXCEPT ![<<c, k>>] = "start"]
          /\ UNCHANGED <<chat, writer>>
          /\ <<c, k>> \in Shells
      BY <2>2 DEF ShellRequest, Shells
    <3>2. \A a \in Shells : app'[a] = app[a] \/ app'[a] = "start"
      BY <3>1
    <3>3. \A i \in Conns, n \in 1 .. MaxShells : <<i, n>> \in Shells
      BY DEF Shells
    <3>4. QED
      BY <3>1, <3>2, <3>3
  <2>3. ASSUME NEW c \in Conns,
               \/ WsLogin(c) \/ Data(c) \/ Disconnect(c) \/ WsInputEnded(c)
               \/ WsAppEnded(c) \/ WriterStops(c) \/ ReaperStep(c)
               \/ Ban(c) \/ Kick(c)
        PROVE  ExitInv'
    <3>1. ~WsLogin(c) /\ ~WriterStops(c)
      BY DEF WsLogin, WriterStops
    <3>2. CASE Data(c) \/ Disconnect(c) \/ WsInputEnded(c)
      BY <2>1, <3>2 DEF Data, Disconnect, WsInputEnded
    <3>3. CASE WsAppEnded(c) \/ Ban(c) \/ Kick(c)
      BY <2>1, <3>3 DEF WsAppEnded, Ban, Kick
    <3>4. CASE ReaperStep(c)
      BY <2>1, <3>4 DEF ReaperStep, ReaperLeave, ReaperLeaveChat
    <3>5. QED
      BY <2>3, <3>1, <3>2, <3>3, <3>4
  <2>4. ASSUME NEW a \in Shells, AppStep(a) PROVE ExitInv'
    <3>1. PICK c \in Conns, k \in 1 .. MaxShells : a = <<c, k>>
      BY DEF Shells
    \* The app stays alive; if it entered the room, it is the room's witness.
    <3>2. ASSUME \A b \in Shells : b # a => app'[b] = app[b],
                 app'[a] \in Live,
                 writer' = writer,
                 chat' \subseteq chat \cup {c}
          PROVE  ExitInv'
      <4>1. ASSUME NEW i \in chat' PROVE \E n \in 1 .. MaxShells : app'[<<i, n>>] \in Live
        <5>1. CASE i = c
          BY <3>1, <3>2, <5>1
        <5>2. CASE i # c
          <6>1. PICK n \in 1 .. MaxShells : app[<<i, n>>] \in Live
            BY <3>2, <5>2
          <6>2. i \in Conns /\ <<i, n>> # a /\ <<i, n>> \in Shells
            BY <3>1, <3>2, <5>2 DEF Shells
          <6>3. QED
            BY <3>2, <6>1, <6>2
        <5>3. QED
          BY <5>1, <5>2
      <4>2. \A b \in Shells : app'[b] \notin {"failed", "aborted"}
        BY <3>2
      <4>3. QED
        BY <3>2, <4>1, <4>2
    <3>3. ASSUME Start(a) \/ PlainKey(a) \/ ChatKey(a) PROVE ExitInv'
      <4>1. /\ app' = [app EXCEPT ![a] = "loop"]
            /\ UNCHANGED writer
        BY <3>1, <3>3 DEF Start, PlainKey, ChatKey, Drawn
      <4>2. chat' \subseteq chat \cup {c}
        BY <3>1, <3>3 DEF Start, PlainKey, ChatKey
      <4>3. QED
        BY <3>2, <4>1, <4>2
    <3>4. ASSUME Quit(a) \/ EndOfEvents(a) PROVE ExitInv'
      BY <3>2, <3>4 DEF Quit, EndOfEvents, Move
    <3>5. CASE BankTime(a)
      BY <3>2, <3>5 DEF BankTime, Move
    <3>6. CASE AppLeave(a)
      BY <3>2, <3>6 DEF AppLeave, Move
    <3>7. CASE AppLeaveChat(a)
      <4>1. /\ app[a] = "leaveChat"
            /\ app' = [app EXCEPT ![a] = "done"]
            /\ chat' = chat \ {c}
            /\ UNCHANGED writer
        BY <3>1, <3>7 DEF AppLeaveChat, Move
      <4>2. ASSUME NEW i \in chat' PROVE \E n \in 1 .. MaxShells : app'[<<i, n>>] \in Live
        <5>1. PICK n \in 1 .. MaxShells : app[<<i, n>>] \in Live
          BY <4>1
        <5>2. i \in Conns /\ <<i, n>> # a /\ <<i, n>> \in Shells
          BY <3>1, <4>1 DEF Shells
        <5>3. QED
          BY <4>1, <5>1, <5>2
      <4>3. QED
        BY <4>1, <4>2
    <3>8. ~Aborted(a)
      BY DEF Aborted
    <3>9. QED
      BY <2>4, <3>3, <3>4, <3>5, <3>6, <3>7, <3>8 DEF AppStep
  <2>5. CASE UNCHANGED vars
    BY <2>1, <2>5 DEF vars
  <2>6. QED
    BY <2>2, <2>3, <2>4, <2>5 DEF Next
<1>3. TypeOK /\ ExitInv => NoGhostInChat
  BY DEF TypeOK, ExitInv, NoGhostInChat, Settled
<1>4. QED
  BY <1>1, <1>2, <1>3, TypeCorrect, PTL DEF Spec

\* A clean-up is under way only where the connection is gone, and the shell that
\* runs on a connection that is up is the one its registry entry reaches.
Reached ==
  /\ \A c \in Conns : reaper[c] # "none" => conn[c] = "closed"
  /\ RunningIsRegistered

\* With one shell per connection the registry reaches every running shell of a
\* connection that is up: neither the end of another connection, nor a late
\* clean-up, nor a sweep takes its entry away (Presence::join, Presence::leave).
\* A second shell on the connection does: see Presence::leave of the first.
THEOREM RegistryReachesShells ==
  ASSUME MaxShells = 1
  PROVE  Spec => []RunningIsRegistered
<1>1. Init => Reached
  BY DEF Init, Reached, RunningIsRegistered, Shells
<1>2. TypeOK /\ Reached /\ [Next]_vars => Reached'
  <2> SUFFICES ASSUME TypeOK, Reached, [Next]_vars PROVE Reached'
    OBVIOUS
  <2> DEFINE Up(c) == conn[c] = "open" /\ app[<<c, 1>>] \in {"start", "loop"}
  <2>1. /\ 1 .. MaxShells = {1}
        /\ \A c \in Conns : <<c, 1>> \in Shells
        /\ \A a \in Shells : a[1] \in Conns /\ a = <<a[1], 1>>
        /\ conn \in [Conns -> {"idle", "open", "closed"}]
        /\ inner \in [Conns -> 0 .. MaxShells]
        /\ reaper \in [Conns -> {"none", "leave", "leaveChat", "done"}]
        /\ DOMAIN app = Shells
    BY DEF TypeOK, Shells
  <2>2. \A c \in Conns : Up(c) => inner[c] = 1
    BY <2>1 DEF Reached, RunningIsRegistered
  <2>3. \A c \in Conns : reaper[c] # "none" => conn[c] = "closed"
    BY DEF Reached
  <2>4. SUFFICES /\ \A c \in Conns : reaper'[c] # "none" => conn'[c] = "closed"
                 /\ \A c \in Conns : Up(c)' => inner'[c] = 1
    BY <2>1 DEF Reached, RunningIsRegistered
  <2>5. ASSUME NEW c \in Conns, NEW k \in 1 .. MaxShells, ShellRequest(c, k)
        PROVE  /\ \A d \in Conns : reaper'[d] # "none" => conn'[d] = "closed"
               /\ \A d \in Conns : Up(d)' => inner'[d] = 1
    <3>1. /\ k = 1
          /\ conn[c] # "closed"
          /\ conn' = [conn EXCEPT ![c] = "open"]
          /\ inner' = [inner EXCEPT ![c] = 1]
          /\ app' = [app EXCEPT ![<<c, 1>>] = "start"]
          /\ reaper' = reaper
      BY <2>1, <2>5 DEF ShellRequest
    <3>2. ASSUME NEW d \in Conns, d # c
          PROVE  conn'[d] = conn[d] /\ app'[<<d, 1>>] = app[<<d, 1>>] /\ inner'[d] = inner[d]
      BY <2>1, <3>1, <3>2
    <3>3. inner'[c] = 1 /\ reaper'[c] = "none"
      BY <2>1, <2>3, <3>1
    <3>4. QED
      BY <2>2, <2>3, <3>1, <3>2, <3>3
  <2>6. ASSUME NEW c \in Conns, WsLogin(c)
        PROVE  /\ \A d \in Conns : reaper'[d] # "none" => conn'[d] = "closed"
               /\ \A d \in Conns : Up(d)' => inner'[d] = 1
    <3>1. /\ conn[c] # "closed"
          /\ conn' = [conn EXCEPT ![c] = "open"]
          /\ inner' = [inner EXCEPT ![c] = 1]
          /\ app' = [app EXCEPT ![<<c, 1>>] = "start"]
          /\ reaper' = reaper
      BY <2>6 DEF WsLogin
    <3>2. ASSUME NEW d \in Conns, d # c
          PROVE  conn'[d] = conn[d] /\ app'[<<d, 1>>] = app[<<d, 1>>] /\ inner'[d] = inner[d]
      BY <2>1, <3>1, <3>2
    <3>3. inner'[c] = 1 /\ reaper'[c] = "none"
      BY <2>1, <2>3, <3>1
    <3>4. QED
      BY <2>2, <2>3, <3>1, <3>2, <3>3
  <2>7. ASSUME NEW c \in Conns, Disconnect(c) \/ WsInputEnded(c) \/ WsAppEnded(c)
        PROVE  /\ \A d \in Conns : reaper'[d] # "none" => conn'[d] = "closed"
               /\ \A d \in Conns : Up(d)' => inner'[d] = 1
    <3>1. /\ conn' = [conn EXCEPT ![c] = "closed"]
          /\ \A d \in Conns : d # c => reaper'[d] = reaper[d]
          /\ UNCHANGED <<inner, app>>
      BY <2>1, <2>7 DEF Disconnect, WsInputEnded, WsAppEnded
    <3>2. \A d \in Conns : conn'[d] = IF d = c THEN "closed" ELSE conn[d]
      BY <2>1, <3>1
    <3>3. QED
      BY <2>2, <2>3, <3>1, <3>2
  <2>8. ASSUME NEW c \in Conns, Data(c) \/ WriterStops(c) \/ Ban(c) \/ Kick(c)
        PROVE  UNCHANGED <<conn, inner, app, reaper>>
    BY <2>8 DEF Data, WriterStops, Ban, Kick
  <2>9. ASSUME NEW c \in Conns, ReaperStep(c)
        PROVE  /\ \A d \in Conns : reaper'[d] # "none" => conn'[d] = "closed"
               /\ \A d \in Conns : Up(d)' => inner'[d] = 1
    <3>1. /\ reaper[c] # "none"
          /\ UNCHANGED <<conn, app>>
          /\ \A d \in Conns : d # c => reaper'[d] = reaper[d] /\ inner'[d] = inner[d]
      BY <2>1, <2>9 DEF ReaperStep, ReaperLeave, ReaperLeaveChat
    <3>2. conn[c] = "closed"
      BY <2>3, <3>1
    <3>3. QED
      BY <2>2, <2>3, <3>1, <3>2
  <2>10. ASSUME NEW a \in Shells, AppStep(a)
         PROVE  /\ \A d \in Conns : reaper'[d] # "none" => conn'[d] = "closed"
                /\ \A d \in Conns : Up(d)' => inner'[d] = 1
    <3>1. /\ UNCHANGED <<conn, reaper>>
          /\ \A b \in Shells : b # a => app'[b] = app[b]
          /\ \/ app[a] \in {"start", "loop"} /\ inner' = inner
             \/ /\ app'[a] \notin {"start", "loop"}
                /\ \A d \in Conns : d # a[1] => inner'[d] = inner[d]
      BY <2>1, <2>10 DEF AppStep, Start, PlainKey, ChatKey, Quit, EndOfEvents, BankTime, AppLeave,
                         AppLeaveChat, Aborted, Drawn, Receives, Move
    <3>2. ASSUME NEW d \in Conns, Up(d)' PROVE inner'[d] = 1
      <4>1. CASE d # a[1]
        <5>1. <<d, 1>> # a /\ <<d, 1>> \in Shells
          BY <2>1, <4>1
        <5>2. inner'[d] = inner[d] /\ app'[<<d, 1>>] = app[<<d, 1>>] /\ conn'[d] = conn[d]
          BY <3>1, <4>1, <5>1
        <5>3. QED
          BY <2>2, <3>2, <5>2
      <4>2. CASE d = a[1]
        <5>1. a = <<d, 1>>
          BY <2>1, <4>2
        <5>2. QED
          BY <2>2, <3>1, <3>2, <5>1
      <4>3. QED
        BY <4>1, <4>2
    <3>3. QED
      BY <2>3, <3>1, <3>2
  <2>11. CASE UNCHANGED <<conn, inner, app, reaper>>
    BY <2>2, <2>3, <2>11
  <2>12. QED
    BY <2>5, <2>6, <2>7, <2>8, <2>9, <2>10, <2>11 DEF Next, vars
<1>3. Reached => RunningIsRegistered
  BY DEF Reached
<1>4. QED
  BY <1>1, <1>2, <1>3, TypeCorrect, PTL DEF Spec

=============================================================================
