---------------------------- MODULE ConfigEditor ----------------------------
(***************************************************************************)
(* bbscfg: the headless state machine of cfg/editor.rs over the document   *)
(* of cfg/doc.rs, from loading bbs.toml to replacing it.  The document is  *)
(* kept to a setting or two of every kind: booleans, texts, numbers, the   *)
(* [[doors]] list, the [seed] boards list and the art of each screen.      *)
(*                                                                         *)
(* door_sel, art_sel and seed_sel are one "row" here: each is set when its *)
(* list is opened from the sections and means nothing after leaving it.    *)
(* Row 0 of the seed list is the guest password, rows of the other lists   *)
(* count from 1.  A key that only sets the status line is left out.        *)
(***************************************************************************)
EXTENDS Naturals, Sequences, SequencesExt, FiniteSets

CONSTANTS
  ArtKeys,     \* ART_SCREEN_KEYS
  Start,       \* what bbs.toml may hold at first
  Plans        \* bounds: [sections, edits, upsets], see plan

ASSUME ConfigAssumption ==
  /\ ArtKeys \in Seq(STRING)
  /\ Plans \subseteq [sections : SUBSET STRING, edits : Nat, upsets : Nat]

VARIABLES
  ui,        \* the Editor: [screen, section, row, field, from, input]
  doc,       \* ConfigDoc.doc
  original,  \* ConfigDoc.original
  blocked,   \* issues: did the last validation find a blocking one?
  saving,    \* where save() is: "no", "copy", "rename"
  file,      \* bbs.toml
  by,        \* history: who put the present contents there
  plan       \* bound: the sections that are opened, the changes of a document
             \* to come, and the saves, hand edits, signals, starts and stops

editorVars == <<ui, doc, original, blocked, saving>>

-----------------------------------------------------------------------------
(***************************************************************************)
(* The schema.                                                             *)
(***************************************************************************)
SECTIONS == <<"theme", "art.screens", "web", "federation", "doors", "seed">>

\* The screen Enter on a section leads to.
Kind(section) ==
  CASE section = "art.screens" -> "ArtScreens"
    [] section = "doors" -> "Doors"
    [] section = "seed" -> "SeedBoards"
    [] OTHER -> "Fields"

Settings == {"preset", "web", "enabled", "origin", "guest_password"}

FieldsOf(section) ==
  CASE section = "theme" -> <<"preset">>
    [] section = "web" -> <<"web">>
    [] section = "federation" -> <<"enabled", "origin">>
    [] section = "seed" -> <<"guest_password">>
    [] OTHER -> <<>>

DOOR_FIELDS == <<"name", "time_limit_secs", "drop_file">>
SEED_BOARD_FIELDS == <<"name", "min_read">>

Bools == {"web", "enabled"}
Ints  == {"time_limit_secs"}
Enum  == [preset    |-> <<"classic", "mono", "amber", "matrix">>,
          drop_file |-> <<"", "door.sys", "dorinfo1.def">>,
          min_read  |-> <<"guest", "user", "admin">>]

\* What may be typed: nothing, something fine, something out of range.
Typed == {"", "fine", "odd"}

-----------------------------------------------------------------------------
(***************************************************************************)
(* Documents.  The doors are tables or, as some write them, an inline      *)
(* array; the seed boards an inline array or, as some write them, tables.  *)
(* A form the editor does not expect looks empty to it.                    *)
(***************************************************************************)
Unset == [s \in Settings |-> "unset"]

\* An empty file, for which every setting has its default.
Blank == [set |-> Unset, art |-> {}, doors |-> [form |-> "tables", list |-> <<>>],
          boards |-> [form |-> "absent", list |-> <<>>]]

\* DEFAULT_CONFIG_TOML
Default == [Blank EXCEPT !.set = [@ EXCEPT !["web"] = "false", !["enabled"] = "false",
                                           !["origin"] = ""]]

\* get, then default_of
Effective(d, key) ==
  IF d.set[key] # "unset" THEN d.set[key]
  ELSE IF key \in Bools THEN "false"
  ELSE IF key = "preset" THEN "classic" ELSE ""

Doors(d)  == IF d.doors.form = "tables" THEN d.doors.list ELSE <<>>
Boards(d) == IF d.boards.form = "array" THEN d.boards.list ELSE <<>>

NewDoor  == [name |-> "New door", time_limit_secs |-> "0", drop_file |-> ""]
NewBoard == [name |-> "New board", min_read |-> "guest"]

\* door_add: whatever is not tables is replaced.
WithDoor(d) == [d EXCEPT !.doors = [form |-> "tables", list |-> Append(Doors(d), NewDoor)]]

\* seed_board_add, where the boards are not tables.
WithBoard(d) == [d EXCEPT !.boards = [form |-> "array", list |-> Append(Boards(d), NewBoard)]]

\* door_set and seed_board_set ignore a row that is not there.
SetIn(list, n, key, value) ==
  IF n \in DOMAIN list THEN [list EXCEPT ![n] = [@ EXCEPT ![key] = value]] ELSE list

DropFrom(list, n) == IF n \in DOMAIN list THEN RemoveAt(list, n) ELSE list

Swapped(list, m, n) == [list EXCEPT ![m] = list[n], ![n] = list[m]]

\* The document with another list in the place of the one it has.
PutDoors(d, list)  == [d EXCEPT !.doors = [@ EXCEPT !.list = list]]
PutBoards(d, list) == [d EXCEPT !.boards = [@ EXCEPT !.list = list]]

\* art_screen_set: a blank name clears the entry.
WithArt(d, key, value) ==
  [d EXCEPT !.art = IF value = "" THEN @ \ {key} ELSE @ \cup {key}]

\* The blocking issues of validate.
Blocking(d) ==
  /\ Effective(d, "enabled") = "true"
  /\ Effective(d, "origin") # "fine" \/ Effective(d, "web") # "true"

\* What the server refuses to start with, of what validate looks at: federation on the
\* web without a usable origin.  Ports in use, keys and paths are not looked at.
Starts(d) ==
  Effective(d, "web") = "true" /\ Effective(d, "enabled") = "true"
     => Effective(d, "origin") = "fine"

\* What a path leads to.
Whole(d) == [is |-> "whole", doc |-> d]
Missing  == [is |-> "missing"]
Torn     == [is |-> "torn"]      \* truncated, and not yet written
Broken   == [is |-> "broken"]    \* no TOML

\* A document is a record with two lists in it, whatever their entries; a file holds
\* one, or nothing that can be read.
IsList(list) == list \in Seq({list[n] : n \in DOMAIN list})

IsDoc(d) ==
  /\ d = [set |-> d.set, art |-> d.art, doors |-> d.doors, boards |-> d.boards]
  /\ \A lists \in {d.doors, d.boards} :
        lists = [form |-> lists.form, list |-> lists.list] /\ IsList(lists.list)

IsText(t) == t \in {Missing, Torn, Broken} \/ (t = Whole(t.doc) /\ IsDoc(t.doc))

ASSUME StartAssumption == \A t \in Start : IsText(t)

-----------------------------------------------------------------------------
(***************************************************************************)
(* The Editor.                                                             *)
(***************************************************************************)
Closed == [screen |-> "Closed", section |-> 1, row |-> 0, field |-> 1, from |-> "none",
           input |-> ""]

Sections == [Closed EXCEPT !.screen = "Sections", !.section = ui.section]

At(screen) == ui.screen = screen /\ saving = "no"

Section == SECTIONS[ui.section]
Row == ui.row

\* edit_origin
Origin == [Section |-> "Fields", Door |-> "DoorFields", ArtScreen |-> "ArtScreens",
           SeedBoard |-> "SeedBoardFields"]

\* The fields shown on a screen.
FieldsAt(screen) ==
  CASE screen \in {"DoorFields", "Door"} -> DOOR_FIELDS
    [] screen \in {"SeedBoardFields", "SeedBoard"} -> SEED_BOARD_FIELDS
    [] screen = "ArtScreen" -> <<"file">>
    [] OTHER -> FieldsOf(Section)

\* The rows of a list screen.
RowsAt(screen) ==
  CASE screen = "Doors" -> 1 .. Len(Doors(doc))
    [] screen = "SeedBoards" -> 0 .. Len(Boards(doc))
    [] screen = "ArtScreens" -> DOMAIN ArtKeys

Next1(S, n) == {m \in S : m = n + 1 \/ n = m + 1}

Show(u) == ui' = u /\ UNCHANGED <<doc, original, blocked, saving, file, by, plan>>

Upset == plan.upsets > 0 /\ plan' = [plan EXCEPT !.upsets = @ - 1]

\* A change of the document, and where it leads.
Change(d, u) ==
  /\ plan.edits > 0
  /\ plan' = [plan EXCEPT !.edits = @ - 1]
  /\ doc' = d
  /\ ui' = u
  /\ UNCHANGED <<original, blocked, saving, file, by>>

\* open_save
OpenSave ==
  /\ blocked' = Blocking(doc)
  /\ ui' = [Sections EXCEPT !.screen = "Save"]
  /\ UNCHANGED <<doc, original, saving, file, by, plan>>

Exit ==
  /\ ui' = Closed
  /\ doc' = Blank
  /\ original' = Blank
  /\ blocked' = FALSE
  /\ saving' = "no"
  /\ UNCHANGED <<file, by, plan>>

\* The lists, and Enter on a section opening one.
MoveSection == \E n \in Next1(DOMAIN SECTIONS, ui.section) :
                 At("Sections") /\ Show([ui EXCEPT !.section = n])

OpenSection ==
  /\ At("Sections")
  /\ Section \in plan.sections
  /\ Show([ui EXCEPT !.screen = Kind(Section),
                     !.row = IF Kind(Section) \in {"Doors", "ArtScreens"} THEN 1 ELSE 0])

MoveRow == \E screen \in {"Doors", "SeedBoards", "ArtScreens"} :
             /\ At(screen)
             /\ \E n \in Next1(RowsAt(screen), Row) : Show([ui EXCEPT !.row = n])

MoveField == \E screen \in {"Fields", "DoorFields", "SeedBoardFields"} :
               /\ At(screen)
               /\ \E n \in Next1(DOMAIN FieldsAt(screen), ui.field) :
                    Show([ui EXCEPT !.field = n])

\* Enter on a door, or on a board.
OpenEntry ==
  \/ /\ At("Doors")
     /\ Doors(doc) # <<>>
     /\ Show([ui EXCEPT !.screen = "DoorFields", !.field = 1])
  \/ /\ At("SeedBoards")
     /\ Row > 0
     /\ Show([ui EXCEPT !.screen = "SeedBoardFields", !.field = 1])

\* Esc, on every screen but the first and the questions.
Back ==
  \/ /\ ui.screen \in {"Fields", "Doors", "ArtScreens", "SeedBoards"}
     /\ Show(Sections)
  \/ /\ ui.screen = "DoorFields"
     /\ Show([ui EXCEPT !.screen = "Doors", !.field = 1])
  \/ /\ ui.screen = "SeedBoardFields"
     /\ Show([ui EXCEPT !.screen = "SeedBoards", !.field = 1])

\* The entry of the document the selection is on: its value, and the document
\* with another.
Current(from, key) ==
  CASE from = "Section" -> Effective(doc, key)
    [] from = "Door" -> Doors(doc)[Row][key]
    [] from = "SeedBoard" -> Boards(doc)[Row][key]
    [] from = "ArtScreen" -> IF ArtKeys[Row] \in doc.art THEN "fine" ELSE ""

Put(from, key, value) ==
  CASE from = "Section" -> [doc EXCEPT !.set = [@ EXCEPT ![key] = value]]
    [] from = "Door" -> PutDoors(doc, SetIn(doc.doors.list, Row, key, value))
    [] from = "SeedBoard" -> PutBoards(doc, SetIn(doc.boards.list, Row, key, value))
    [] from = "ArtScreen" -> WithArt(doc, ArtKeys[Row], value)

\* The option after the present one, and after the first where a hand wrote
\* something that is none of them.
After(options, value) ==
  LET n == IF value \in ToSet(options) THEN CHOOSE n \in DOMAIN options : options[n] = value
                                       ELSE 1
  IN  options[(n % Len(options)) + 1]

TextEdit(from, key) ==
  Show([ui EXCEPT !.screen = "Edit", !.from = from, !.input = Current(from, key)])

\* begin_edit, begin_door_edit, begin_seed_board_edit: booleans and choices
\* change where they are, everything else in the text editor.
Toggle ==
  LET key == FieldsAt("Fields")[ui.field] IN
  /\ At("Fields")
  /\ key \in Bools
  /\ Change(Put("Section", key, IF Effective(doc, key) = "true" THEN "false" ELSE "true"), ui)

Cycle(screen, from) ==
  LET key == FieldsAt(screen)[ui.field] IN
  /\ At(screen)
  /\ key \in DOMAIN Enum
  /\ Change(Put(from, key, After(Enum[key], Current(from, key))), ui)

BeginEdit(screen, from) ==
  LET key == FieldsAt(screen)[ui.field] IN
  /\ At(screen)
  /\ key \notin Bools \cup DOMAIN Enum
  /\ TextEdit(from, key)

\* Enter on the password, and on the art of a screen.
EditPassword ==
  /\ At("SeedBoards")
  /\ Row = 0
  /\ TextEdit("Section", "guest_password")

EditArt == At("ArtScreens") /\ TextEdit("ArtScreen", "file")

UnsetCurrent ==
  LET key == FieldsAt("Fields")[ui.field] IN
  /\ At("Fields")
  /\ doc.set[key] # "unset"
  /\ Change([doc EXCEPT !.set = [@ EXCEPT ![key] = "unset"]], ui)

UnsetArt ==
  /\ At("ArtScreens")
  /\ ArtKeys[Row] \in doc.art
  /\ Change(WithArt(doc, ArtKeys[Row], ""), ui)

\* The shared text editor.
Return == [ui EXCEPT !.screen = Origin[ui.from], !.from = "none", !.input = ""]

Type == \E text \in Typed : At("Edit") /\ Show([ui EXCEPT !.input = text])

CancelEdit == At("Edit") /\ Show(Return)

CommitEdit ==
  LET key == FieldsAt(ui.from)[ui.field] IN
  /\ At("Edit")
  /\ key \in Ints => ui.input \notin {"", "odd"}
  /\ Change(Put(ui.from, key, ui.input), Return)

\* 'a' in the lists.  Boards written as tables are no array: as_array_mut()
\* is None, and its expect ends the program.
AddDoor ==
  /\ At("Doors")
  /\ Change(WithDoor(doc), [ui EXCEPT !.screen = "DoorFields", !.field = 1,
                                      !.row = Len(Doors(doc)) + 1])

AddSeedBoard ==
  /\ At("SeedBoards")
  /\ \/ /\ doc.boards.form # "tables"
        /\ Change(WithBoard(doc), [ui EXCEPT !.screen = "SeedBoardFields", !.field = 1,
                                             !.row = Len(Boards(doc)) + 1])
     \/ doc.boards.form = "tables" /\ Exit

MoveDoor ==
  /\ At("Doors")
  /\ \E n \in Next1(RowsAt("Doors"), Row) :
       Change(PutDoors(doc, Swapped(doc.doors.list, Row, n)),
              [ui EXCEPT !.row = n])

\* 'd', and the question it asks.
AskRemove ==
  \/ /\ At("Doors")
     /\ Doors(doc) # <<>>
     /\ Show([ui EXCEPT !.screen = "ConfirmRemoveDoor"])
  \/ /\ At("SeedBoards")
     /\ Row > 0
     /\ Boards(doc) # <<>>
     /\ Show([ui EXCEPT !.screen = "ConfirmRemoveSeedBoard"])

Keep ==
  \/ At("ConfirmRemoveDoor") /\ Show([ui EXCEPT !.screen = "Doors"])
  \/ At("ConfirmRemoveSeedBoard") /\ Show([ui EXCEPT !.screen = "SeedBoards"])

\* Faulty: the selection stays where it is.
FaultyRemoveDoor ==
  /\ At("ConfirmRemoveDoor")
  /\ Change(PutDoors(doc, DropFrom(doc.doors.list, Row)),
            [ui EXCEPT !.screen = "Doors"])

RemoveDoor ==
  /\ At("ConfirmRemoveDoor")
  /\ Change(PutDoors(doc, DropFrom(doc.doors.list, Row)),
            [ui EXCEPT !.screen = "Doors",
                       !.row = IF Row = Len(Doors(doc)) /\ Row > 1 THEN Row - 1 ELSE Row])

RemoveSeedBoard ==
  /\ At("ConfirmRemoveSeedBoard")
  /\ Change(PutBoards(doc, DropFrom(doc.boards.list, Row)),
            [ui EXCEPT !.screen = "SeedBoards",
                       !.row = IF Row = Len(Boards(doc)) THEN Row - 1 ELSE Row])

\* 's', on every list of settings.
Save == \E screen \in {"Sections", "Fields", "Doors", "DoorFields", "ArtScreens", "SeedBoards",
                       "SeedBoardFields"} : At(screen) /\ OpenSave

ConfirmSave ==
  /\ At("Save")
  /\ ~blocked
  /\ Upset
  /\ saving' = "copy"
  /\ UNCHANGED <<ui, doc, original, blocked, file, by>>

\* The contents so far are copied to .bak, the new ones written to a temporary
\* file: both are nobody else's.
SaveCopy ==
  /\ saving = "copy"
  /\ saving' = "rename"
  /\ UNCHANGED <<ui, doc, original, blocked, file, by, plan>>

SaveRename ==
  /\ saving = "rename"
  /\ saving' = "no"
  /\ file' = Whole(doc)
  /\ by' = "bbscfg"
  /\ original' = doc
  /\ ui' = Sections
  /\ UNCHANGED <<doc, blocked, plan>>

SaveFails ==
  /\ saving # "no"
  /\ saving' = "no"
  /\ UNCHANGED <<ui, doc, original, blocked, file, by, plan>>

DontSave == At("Save") /\ Show(Sections)

\* request_quit, and the question it asks of who has changed something.
RequestQuit ==
  /\ At("Sections")
  /\ \/ doc # original /\ Show([ui EXCEPT !.screen = "ConfirmQuit"])
     \/ doc = original /\ Exit

\* Faulty: the issues are those of the last time.
FaultyConfirmQuit ==
  /\ At("ConfirmQuit")
  /\ \/ Exit
     \/ Show([Sections EXCEPT !.screen = "Save"])
     \/ Show(Sections)

ConfirmQuit ==
  /\ At("ConfirmQuit")
  /\ \/ Exit
     \/ OpenSave
     \/ Show(Sections)

\* bbscfg is killed, at any moment.
Kill == ui.screen # "Closed" /\ Exit

\* ConfigDoc::load: a missing file starts from the default one, an empty one
\* is an empty document, what is no TOML is refused.
Launch ==
  /\ ui.screen = "Closed"
  /\ file # Broken
  /\ ui' = [Closed EXCEPT !.screen = "Sections"]
  /\ doc' = IF file.is = "whole" THEN file.doc ELSE IF file = Missing THEN Default ELSE Blank
  /\ original' = doc'
  /\ UNCHANGED <<blocked, saving, file, by, plan>>

\* Everything bbscfg does but replacing the file.
Bbscfg ==
  \/ MoveSection \/ OpenSection \/ MoveRow \/ MoveField \/ OpenEntry
  \/ saving = "no" /\ Back
  \/ Toggle
  \/ Cycle("Fields", "Section") \/ BeginEdit("Fields", "Section")
  \/ Cycle("DoorFields", "Door") \/ BeginEdit("DoorFields", "Door")
  \/ Cycle("SeedBoardFields", "SeedBoard") \/ BeginEdit("SeedBoardFields", "SeedBoard")
  \/ EditPassword \/ EditArt \/ UnsetCurrent \/ UnsetArt
  \/ Type \/ CancelEdit \/ CommitEdit
  \/ AddDoor \/ AddSeedBoard \/ MoveDoor \/ AskRemove \/ Keep \/ RemoveDoor \/ RemoveSeedBoard
  \/ Save \/ ConfirmSave \/ SaveCopy \/ SaveFails \/ DontSave
  \/ RequestQuit \/ ConfirmQuit \/ Kill \/ Launch

InitEditor ==
  /\ ui = Closed
  /\ doc = Blank
  /\ original = Blank
  /\ blocked = FALSE
  /\ saving = "no"
  /\ file \in Start
  /\ by = "hand"
  /\ plan \in Plans

-----------------------------------------------------------------------------
(* Properties of the editor alone. *)

\* Whatever was added, moved and removed, the selection is on an entry the
\* document has, and the text editor on a field of the list it was opened
\* from: what is committed is never written nowhere.
SelectionHolds ==
  /\ ui.screen = "Edit" => ui.field \in DOMAIN FieldsAt(ui.from)
  /\ ui.screen \in {"DoorFields", "ConfirmRemoveDoor"} \/ ui.from = "Door"
        => Row \in DOMAIN Doors(doc)
  /\ ui.screen = "Doors" => Row = 1 \/ Row \in DOMAIN Doors(doc)
  /\ ui.screen \in {"SeedBoardFields", "ConfirmRemoveSeedBoard"} \/ ui.from = "SeedBoard"
        => Row \in DOMAIN Boards(doc)
  /\ ui.screen = "SeedBoards" => Row <= Len(Boards(doc))

=============================================================================
