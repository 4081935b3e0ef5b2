------------------------------- MODULE Config -------------------------------
(***************************************************************************)
(* bbs.toml and those who share it: bbscfg (ConfigEditor), an operator     *)
(* with a text editor, and the server, which loads the file when it starts *)
(* and again when the file watcher of reload.rs or SIGHUP says so.         *)
(*                                                                         *)
(* reload() is one function in two tasks: each looks whether the file is   *)
(* there, reads it and swaps it in, and the other task, or a writer, may   *)
(* come between.                                                           *)
(***************************************************************************)
EXTENDS ConfigEditor

CONSTANT HandTexts     \* what the text editor saves

ASSUME HandAssumption == \A t \in HandTexts : IsText(t)

VARIABLES
  hand,      \* the text editor: "idle", or midway with [how, text]
  server,    \* "down", "starting" or "up", with the settings it runs
  pending,   \* is there an event in the watcher's channel?
  step,      \* where the two tasks are
  got,       \* what they have read
  lagging    \* history: were the settings older than the file when swapped in
             \* by somebody the watcher does not wait for?

serverVars == <<server, pending, step, got, lagging>>
vars == <<editorVars, file, by, plan, hand, serverVars>>

Tasks == {"watcher", "sighup"}
Idle == [how |-> "idle", text |-> Missing]

Init ==
  /\ InitEditor
  /\ hand = Idle
  /\ server = [is |-> "down", doc |-> Blank]
  /\ pending = FALSE
  /\ step = [t \in Tasks |-> "idle"]
  /\ got = [t \in Tasks |-> Blank]
  /\ lagging = FALSE

\* Faulty: only the modification of the file itself, not its being replaced.
FaultyNotified(replaced) ==
  pending' = (pending \/ (server.is = "up" /\ ~replaced))

\* changes_contents: whether the file is written, replaced or moved away, the
\* watcher of its directory hears of it.
Notified(replaced) == pending' = (pending \/ server.is = "up")

-----------------------------------------------------------------------------
(***************************************************************************)
(* The writers.                                                            *)
(***************************************************************************)
Edits == Bbscfg /\ UNCHANGED <<hand, serverVars>>

Replaces == SaveRename /\ Notified(TRUE) /\ UNCHANGED <<hand, server, step, got, lagging>>

\* A text editor truncates the file and writes it, or moves it away first.
HandBegins(how, text) ==
  /\ hand = Idle
  /\ file # Missing
  /\ Upset
  /\ hand' = [how |-> how, text |-> text]
  /\ file' = IF how = "truncate" THEN Torn ELSE Missing
  /\ by' = "hand"
  /\ Notified(how = "move")
  /\ UNCHANGED <<editorVars, server, step, got, lagging>>

\* Who replaces a file that is being written keeps the writer from it.
HandEnds ==
  /\ hand # Idle
  /\ hand' = Idle
  /\ \/ /\ hand.how = "truncate" /\ file # Torn
        /\ UNCHANGED <<file, by, pending>>
     \/ /\ hand.how = "move" \/ file = Torn
        /\ file' = hand.text
        /\ by' = "hand"
        /\ Notified(hand.how = "move")
  /\ UNCHANGED <<editorVars, plan, server, step, got, lagging>>

-----------------------------------------------------------------------------
(***************************************************************************)
(* The server.                                                             *)
(***************************************************************************)
\* What Settings::load may make of the file.
Parsed == CASE file.is = "whole" -> {file.doc}
            [] file = Torn -> {Blank}
            [] OTHER -> {}

\* serve(): the settings are loaded, the database is opened and seeded ...
Boot ==
  /\ server.is = "down"
  /\ Upset
  /\ file' = IF file = Missing THEN Whole(Default) ELSE file
  /\ by' = IF file = Missing THEN "server" ELSE by
  /\ \E d \in IF file = Missing THEN {Default} ELSE Parsed :
       server' = [is |-> "starting", doc |-> d]
  /\ UNCHANGED <<editorVars, hand, pending, step, got, lagging>>

\* ... and then the watch begins, unless what federation needs is not there.
Watch ==
  /\ server.is = "starting"
  /\ \/ /\ Starts(server.doc)
        /\ server' = [server EXCEPT !.is = "up"]
        /\ lagging' = (file # Whole(server.doc))
     \/ /\ ~Starts(server.doc)
        /\ server' = [is |-> "down", doc |-> Blank]
        /\ UNCHANGED lagging
  /\ UNCHANGED <<editorVars, file, by, plan, hand, pending, step, got>>

Stop ==
  /\ server.is = "up"
  /\ Upset
  /\ server' = [is |-> "down", doc |-> Blank]
  /\ pending' = FALSE
  /\ step' = [t \in Tasks |-> "idle"]
  /\ got' = [t \in Tasks |-> Blank]
  /\ lagging' = FALSE
  /\ UNCHANGED <<editorVars, file, by, hand>>

\* An event starts the debounce; whatever came in meanwhile is drained.
Notice ==
  /\ step["watcher"] = "idle"
  /\ pending
  /\ step' = [step EXCEPT !["watcher"] = "sleep"]
  /\ UNCHANGED <<editorVars, file, by, plan, hand, server, pending, got, lagging>>

\* path.exists()
Looked == IF file = Missing THEN "create" ELSE "read"

Wake ==
  /\ step["watcher"] = "sleep"
  /\ pending' = FALSE
  /\ step' = [step EXCEPT !["watcher"] = Looked]
  /\ UNCHANGED <<editorVars, file, by, plan, hand, server, got, lagging>>

Sighup ==
  /\ server.is = "up"
  /\ step["sighup"] = "idle"
  /\ Upset
  /\ step' = [step EXCEPT !["sighup"] = Looked]
  /\ UNCHANGED <<editorVars, file, by, hand, server, pending, got, lagging>>

\* The default file is written over whatever is there by now.
Create(t) ==
  /\ step[t] = "create"
  /\ file' = Whole(Default)
  /\ by' = "server"
  /\ Notified(FALSE)
  /\ step' = [step EXCEPT ![t] = "read"]
  /\ UNCHANGED <<editorVars, plan, hand, server, got, lagging>>

\* Faulty: being read is an event, too.
FaultyRead(t) ==
  /\ step[t] = "read"
  /\ Notified(FALSE)
  /\ \/ /\ \E d \in Parsed : got' = [got EXCEPT ![t] = d]
        /\ step' = [step EXCEPT ![t] = "store"]
     \/ /\ file.is # "whole"
        /\ step' = [step EXCEPT ![t] = "idle"]
        /\ UNCHANGED got
  /\ UNCHANGED <<editorVars, file, by, plan, hand, server, lagging>>

\* What does not parse, or is not there, is logged and changes nothing.
Read(t) ==
  /\ step[t] = "read"
  /\ \/ /\ \E d \in Parsed : got' = [got EXCEPT ![t] = d]
        /\ step' = [step EXCEPT ![t] = "store"]
     \/ /\ file.is # "whole"
        /\ step' = [step EXCEPT ![t] = "idle"]
        /\ UNCHANGED got
  /\ UNCHANGED <<editorVars, file, by, plan, hand, server, pending, lagging>>

Store(t) ==
  /\ step[t] = "store"
  /\ server' = [server EXCEPT !.doc = got[t]]
  /\ step' = [step EXCEPT ![t] = "idle"]
  /\ got' = [got EXCEPT ![t] = Blank]
  /\ lagging' = (t = "sighup" /\ file # Whole(got[t]))
  /\ UNCHANGED <<editorVars, file, by, plan, hand, pending>>

Reload == Notice \/ Wake \/ \E t \in Tasks : Create(t) \/ Read(t) \/ Store(t)

Next ==
  \/ Edits
  \/ Replaces
  \/ \E how \in {"truncate", "move"}, text \in HandTexts : HandBegins(how, text)
  \/ HandEnds
  \/ Boot
  \/ Watch
  \/ Stop
  \/ Sighup
  \/ Reload

\* The tasks of the server run, and a debounce ends.
Fairness == WF_vars(Reload)

Spec == Init /\ [][Next]_vars /\ Fairness

-----------------------------------------------------------------------------
(* Properties. *)

TypeOK ==
  /\ ui.screen \in {"Closed", "Sections", "Fields", "Edit", "Doors", "DoorFields",
                    "ConfirmRemoveDoor", "ArtScreens", "SeedBoards", "SeedBoardFields",
                    "ConfirmRemoveSeedBoard", "Save", "ConfirmQuit"}
  /\ ui.section \in DOMAIN SECTIONS
  /\ ui.row \in Nat
  /\ blocked \in BOOLEAN
  /\ saving \in {"no", "copy", "rename"}
  /\ by \in {"hand", "bbscfg", "server"}
  /\ server.is \in {"down", "starting", "up"}
  /\ step \in [Tasks -> {"idle", "sleep", "create", "read", "store"}]
  /\ lagging \in BOOLEAN

\* What bbscfg has written is a whole file that a server does not refuse for its
\* origin, wherever in a save bbscfg was killed and whatever was read, changed
\* and asked before.
BoardStarts == by = "bbscfg" => file.is = "whole" /\ Starts(file.doc)

\* Once the watcher has nothing left to do, the server runs what the file says
\* -- unless a start, or a SIGHUP, read it before it changed and was done after.
Settled ==
  /\ ~pending
  /\ \A t \in Tasks : step[t] = "idle"
  /\ server.is = "up"

SettledIsCurrent ==
  Settled /\ file.is = "whole" /\ ~lagging => server.doc = file.doc

\* Reloading feeds no reload: the writers done, the server comes to rest.
ComesToRest == <>[](server.is = "up" => Settled)

\* The module comment of reload.rs, read as it stands: a reload, whoever asked
\* for it, runs the settings the file holds.
ReloadIsCurrent == Settled /\ file.is = "whole" => server.doc = file.doc

\* The editor promises that hand-written sections are preserved: an entry goes
\* only when its removal is confirmed.
EntriesAreKept ==
  [][doc' # doc /\ ui.screen \notin {"Closed", "ConfirmRemoveDoor", "ConfirmRemoveSeedBoard"}
        /\ ui'.screen # "Closed"
     => Len(doc'.doors.list) >= Len(doc.doors.list)]_vars

=============================================================================
