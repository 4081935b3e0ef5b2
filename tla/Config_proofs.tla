---------------------------- MODULE Config_proofs ----------------------------
(***************************************************************************)
(* What holds of bbs.toml and those who share it, whatever the file holds  *)
(* at first, whatever a hand writes into it and however often: bbscfg      *)
(* never edits an entry that is not there, it leaves no file a server      *)
(* cannot start from, and a server whose watcher is at rest runs what the  *)
(* file says.                                                              *)
(***************************************************************************)
EXTENDS Config, SequenceTheorems, TLAPS

-----------------------------------------------------------------------------
(* The inductive invariant. *)

Screens == {"Closed", "Sections", "Fields", "Edit", "Doors", "DoorFields", "ConfirmRemoveDoor",
            "ArtScreens", "SeedBoards", "SeedBoardFields", "ConfirmRemoveSeedBoard", "Save",
            "ConfirmQuit"}

\* How many fields a screen, or the screen the text editor was opened from, shows
\* of a section.
Count(section, where) ==
  IF where \in {"DoorFields", "Door"} THEN 3
  ELSE IF where \in {"SeedBoardFields", "SeedBoard"} THEN 2
  ELSE IF where = "ArtScreen" THEN 1
  ELSE IF section = 4 THEN 2
  ELSE IF section \in {1, 3, 6} THEN 1 ELSE 0

\* The editor u over the document d: its types, and that the text editor was opened
\* from somewhere, the field is one of those it was opened from or that are shown
\* (the first where none are), and the row of a list is one of the document's.
Fits(u, d) ==
  /\ u = [screen |-> u.screen, section |-> u.section, row |-> u.row, field |-> u.field,
          from |-> u.from, input |-> u.input]
  /\ u.screen \in Screens
  /\ u.section \in 1 .. 6
  /\ u.row \in Nat
  /\ u.from \in {"none", "Section", "Door", "ArtScreen", "SeedBoard"}
  /\ u.screen = "Edit" <=> u.from # "none"
  /\ u.field \in 1 .. (IF u.screen = "Edit" THEN Count(u.section, u.from)
                       ELSE IF u.screen \in {"Fields", "DoorFields", "SeedBoardFields"}
                              THEN Count(u.section, u.screen)
                       ELSE 1)
  /\ u.screen \in {"DoorFields", "ConfirmRemoveDoor"} \/ u.from = "Door"
        => u.row \in 1 .. Len(Doors(d))
  /\ u.screen = "Doors" => u.row = 1 \/ u.row \in 1 .. Len(Doors(d))
  /\ u.screen \in {"SeedBoardFields", "ConfirmRemoveSeedBoard"} \/ u.from = "SeedBoard"
        => u.section = 6 /\ u.row \in 1 .. Len(Boards(d))
  /\ u.screen = "SeedBoards" => u.section = 6 /\ u.row <= Len(Boards(d))

\* What is saved has been found to have no blocking issue, and is as it was then.
EditorInv ==
  /\ Fits(ui, doc)
  /\ IsDoc(doc)
  /\ blocked \in BOOLEAN
  /\ saving \in {"no", "copy", "rename"}
  /\ ui.screen = "Save" => blocked = Blocking(doc)
  /\ saving # "no" => ui.screen = "Save" /\ ~blocked

\* What can be in the file, and who has put it there.
FileInv ==
  /\ IsText(file)
  /\ hand = [how |-> hand.how, text |-> hand.text] /\ IsText(hand.text)
  /\ by \in {"hand", "bbscfg", "server"}
  /\ BoardStarts

ServerTypes ==
  /\ server = [is |-> server.is, doc |-> server.doc]
  /\ server.is \in {"down", "starting", "up"}
  /\ pending \in BOOLEAN
  /\ step \in [Tasks -> {"idle", "sleep", "create", "read", "store"}]
  /\ got = [t \in Tasks |-> got[t]]
  /\ lagging \in BOOLEAN

\* With no event under way, what the server runs, or what the watcher is about to
\* give it, is what the file says.
Fresh ==
  /\ server.is # "up" => ~pending /\ \A t \in Tasks : step[t] = "idle"
  /\ server.is = "up" /\ ~pending /\ file.is = "whole" =>
       /\ step["watcher"] = "idle" /\ ~lagging => server.doc = file.doc
       /\ step["watcher"] = "store" => got["watcher"] = file.doc

IInv == EditorInv /\ FileInv /\ ServerTypes /\ Fresh

-----------------------------------------------------------------------------
(* Lists and documents. *)

LEMMA ListFacts ==
  ASSUME NEW list, IsList(list)
  PROVE  Len(list) \in Nat /\ DOMAIN list = 1 .. Len(list)
  BY DEF IsList

LEMMA SeqIsList ==
  ASSUME NEW S, NEW list \in Seq(S)
  PROVE  IsList(list)
<1>1. Len(list) \in Nat /\ DOMAIN list = 1 .. Len(list)
  OBVIOUS
<1>2. QED
  BY <1>1 DEF IsList

LEMMA EmptyIsList == IsList(<<>>) /\ Len(<<>>) = 0
  BY DEF IsList

LEMMA EmptyList ==
  ASSUME NEW list, IsList(list), list # <<>>
  PROVE  Len(list) > 0
<1> DEFINE S == {list[n] : n \in DOMAIN list}
<1>1. list \in Seq(S)
  BY DEF IsList
<1> HIDE DEF S
<1>2. Len(list) \in Nat /\ (Len(list) = 0 => list = <<>>)
  BY <1>1, EmptySeq
<1>3. QED
  BY <1>2

LEMMA AppendIsList ==
  ASSUME NEW list, IsList(list), NEW e
  PROVE  IsList(Append(list, e)) /\ Len(Append(list, e)) = Len(list) + 1
<1> DEFINE S == {list[n] : n \in DOMAIN list}
           T == S \cup {e}
<1>1. list \in Seq(S)
  BY DEF IsList
<1> HIDE DEF S
<1>2. list \in Seq(T) /\ e \in T
  BY <1>1
<1> HIDE DEF T
<1>3. Append(list, e) \in Seq(T) /\ Len(Append(list, e)) = Len(list) + 1
  BY <1>2
<1>4. QED
  BY <1>3, SeqIsList

LEMMA UpdateIsList ==
  ASSUME NEW list, IsList(list), NEW f, DOMAIN f = DOMAIN list
  PROVE  f = [n \in DOMAIN list |-> f[n]] => IsList(f) /\ Len(f) = Len(list)
<1> DEFINE T == {f[n] : n \in DOMAIN f}
<1> SUFFICES ASSUME f = [n \in DOMAIN list |-> f[n]]
             PROVE  IsList(f) /\ Len(f) = Len(list)
  OBVIOUS
<1>1. Len(list) \in Nat /\ DOMAIN list = 1 .. Len(list)
  BY ListFacts
<1>2. f = [n \in 1 .. Len(list) |-> f[n]] /\ \A n \in 1 .. Len(list) : f[n] \in T
  BY <1>1
<1> HIDE DEF T
<1>3. f \in [1 .. Len(list) -> T]
  BY <1>2
<1>4. f \in Seq(T) /\ Len(f) = Len(list)
  BY <1>1, <1>3
<1>5. QED
  BY <1>4, SeqIsList

\* Writing into a list, and swapping two entries of it, leave its length alone.
LEMMA SetInIsList ==
  ASSUME NEW list, IsList(list), NEW n, NEW key, NEW value
  PROVE  IsList(SetIn(list, n, key, value)) /\ Len(SetIn(list, n, key, value)) = Len(list)
<1>1. DOMAIN [list EXCEPT ![n] = [@ EXCEPT ![key] = value]] = DOMAIN list
  OBVIOUS
<1>2. QED
  BY <1>1, UpdateIsList DEF SetIn

LEMMA SwappedIsList ==
  ASSUME NEW list, IsList(list), NEW m, NEW n
  PROVE  IsList(Swapped(list, m, n)) /\ Len(Swapped(list, m, n)) = Len(list)
<1>1. DOMAIN [list EXCEPT ![m] = list[n], ![n] = list[m]] = DOMAIN list
  OBVIOUS
<1>2. QED
  BY <1>1, UpdateIsList DEF Swapped

LEMMA DropIsList ==
  ASSUME NEW list, IsList(list), NEW n \in DOMAIN list
  PROVE  IsList(DropFrom(list, n)) /\ Len(DropFrom(list, n)) = Len(list) - 1
<1> DEFINE S == {list[m] : m \in DOMAIN list}
<1>1. list \in Seq(S)
  BY DEF IsList
<1> HIDE DEF S
<1>2. RemoveAt(list, n) \in Seq(S) /\ Len(RemoveAt(list, n)) = Len(list) - 1
  BY <1>1 DEF RemoveAt
<1>3. QED
  BY <1>2, SeqIsList DEF DropFrom

LEMMA ListsOfDoc ==
  ASSUME NEW d, IsDoc(d)
  PROVE  /\ IsList(Doors(d)) /\ IsList(Boards(d))
         /\ Doors(d) # <<>> => d.doors.form = "tables" /\ Doors(d) = d.doors.list
         /\ Boards(d) # <<>> => d.boards.form = "array" /\ Boards(d) = d.boards.list
  BY EmptyIsList DEF IsDoc, Doors, Boards

\* A document with other settings, or art, has the lists it had.
LEMMA SetKeepsLists ==
  ASSUME NEW d, IsDoc(d), NEW set
  PROVE  /\ IsDoc([d EXCEPT !.set = set])
         /\ Doors([d EXCEPT !.set = set]) = Doors(d)
         /\ Boards([d EXCEPT !.set = set]) = Boards(d)
  BY DEF IsDoc, Doors, Boards

LEMMA NewDocs == IsDoc(Blank) /\ IsDoc(Default)
<1>1. IsDoc(Blank)
  BY EmptyIsList DEF IsDoc, Blank
<1>2. PICK set : Default = [Blank EXCEPT !.set = set]
  BY DEF Default
<1>3. QED
  BY <1>1, <1>2, SetKeepsLists

LEMMA ArtKeepsLists ==
  ASSUME NEW d, IsDoc(d), NEW key, NEW value
  PROVE  /\ IsDoc(WithArt(d, key, value))
         /\ Doors(WithArt(d, key, value)) = Doors(d)
         /\ Boards(WithArt(d, key, value)) = Boards(d)
<1>1. PICK art : WithArt(d, key, value) = [d EXCEPT !.art = art]
  BY DEF WithArt
<1>2. QED
  BY <1>1 DEF IsDoc, Doors, Boards

LEMMA OtherDoors ==
  ASSUME NEW d, IsDoc(d), d.doors.form = "tables", NEW list, IsList(list)
  PROVE  /\ IsDoc(PutDoors(d, list))
         /\ Doors(PutDoors(d, list)) = list
         /\ Boards(PutDoors(d, list)) = Boards(d)
<1> DEFINE e == PutDoors(d, list)
<1>1. /\ e = [set |-> e.set, art |-> e.art, doors |-> e.doors, boards |-> e.boards]
      /\ e.boards = d.boards
      /\ e.doors = [form |-> "tables", list |-> list]
  BY DEF IsDoc, PutDoors
<1> HIDE DEF e
<1>2. IsDoc(e) /\ Doors(e) = list /\ Boards(e) = Boards(d)
  BY <1>1 DEF IsDoc, Doors, Boards
<1>3. QED
  BY <1>2 DEF e

LEMMA OtherBoards ==
  ASSUME NEW d, IsDoc(d), d.boards.form = "array", NEW list, IsList(list)
  PROVE  /\ IsDoc(PutBoards(d, list))
         /\ Boards(PutBoards(d, list)) = list
         /\ Doors(PutBoards(d, list)) = Doors(d)
<1> DEFINE e == PutBoards(d, list)
<1>1. /\ e = [set |-> e.set, art |-> e.art, doors |-> e.doors, boards |-> e.boards]
      /\ e.doors = d.doors
      /\ e.boards = [form |-> "array", list |-> list]
  BY DEF IsDoc, PutBoards
<1> HIDE DEF e
<1>2. IsDoc(e) /\ Boards(e) = list /\ Doors(e) = Doors(d)
  BY <1>1 DEF IsDoc, Doors, Boards
<1>3. QED
  BY <1>2 DEF e

LEMMA OneMoreDoor ==
  ASSUME NEW d, IsDoc(d)
  PROVE  /\ IsDoc(WithDoor(d))
         /\ IsList(Doors(WithDoor(d))) /\ Len(Doors(WithDoor(d))) = Len(Doors(d)) + 1
         /\ Boards(WithDoor(d)) = Boards(d)
<1> DEFINE more == Append(Doors(d), NewDoor)
           e == [d EXCEPT !.doors = [form |-> "tables", list |-> more]]
<1>1. IsList(more) /\ Len(more) = Len(Doors(d)) + 1
  BY ListsOfDoc, AppendIsList
<1>2. WithDoor(d) = e
  BY DEF WithDoor
<1> HIDE DEF more
<1>3. /\ e = [set |-> e.set, art |-> e.art, doors |-> e.doors, boards |-> e.boards]
      /\ e.boards = d.boards
      /\ e.doors = [form |-> "tables", list |-> more]
  BY DEF IsDoc
<1> HIDE DEF e
<1>4. IsDoc(e) /\ Doors(e) = more /\ Boards(e) = Boards(d)
  BY <1>1, <1>3 DEF IsDoc, Doors, Boards
<1>5. QED
  BY <1>1, <1>2, <1>4

LEMMA OneMoreBoard ==
  ASSUME NEW d, IsDoc(d)
  PROVE  /\ IsDoc(WithBoard(d))
         /\ IsList(Boards(WithBoard(d))) /\ Len(Boards(WithBoard(d))) = Len(Boards(d)) + 1
         /\ Doors(WithBoard(d)) = Doors(d)
<1> DEFINE more == Append(Boards(d), NewBoard)
           e == [d EXCEPT !.boards = [form |-> "array", list |-> more]]
<1>1. IsList(more) /\ Len(more) = Len(Boards(d)) + 1
  BY ListsOfDoc, AppendIsList
<1>2. WithBoard(d) = e
  BY DEF WithBoard
<1> HIDE DEF more
<1>3. /\ e = [set |-> e.set, art |-> e.art, doors |-> e.doors, boards |-> e.boards]
      /\ e.doors = d.doors
      /\ e.boards = [form |-> "array", list |-> more]
  BY DEF IsDoc
<1> HIDE DEF e
<1>4. IsDoc(e) /\ Boards(e) = more /\ Doors(e) = Doors(d)
  BY <1>1, <1>3 DEF IsDoc, Doors, Boards
<1>5. QED
  BY <1>1, <1>2, <1>4

-----------------------------------------------------------------------------
(* What the schema says of the sections. *)

LEMMA SectionNames ==
  /\ DOMAIN SECTIONS = 1 .. 6
  /\ SECTIONS[1] = "theme" /\ SECTIONS[2] = "art.screens" /\ SECTIONS[3] = "web"
  /\ SECTIONS[4] = "federation" /\ SECTIONS[5] = "doors" /\ SECTIONS[6] = "seed"
  BY DEF SECTIONS

LEMMA FieldCounts ==
  ASSUME ui.section \in 1 .. 6,
         NEW where \in {"Fields", "DoorFields", "SeedBoardFields", "Section", "Door", "ArtScreen",
                        "SeedBoard"}
  PROVE  DOMAIN FieldsAt(where) = 1 .. Count(ui.section, where)
<1>1. CASE where \in {"DoorFields", "Door"}
  <2>1. FieldsAt(where) = DOOR_FIELDS
    BY <1>1 DEF FieldsAt
  <2>2. QED
    BY <1>1, <2>1 DEF DOOR_FIELDS, Count
<1>2. CASE where \in {"SeedBoardFields", "SeedBoard"}
  <2>1. FieldsAt(where) = SEED_BOARD_FIELDS
    BY <1>2 DEF FieldsAt
  <2>2. QED
    BY <1>2, <2>1 DEF SEED_BOARD_FIELDS, Count
<1>3. CASE where = "ArtScreen"
  BY <1>3 DEF FieldsAt, Count
<1>4. CASE where \in {"Fields", "Section"}
  <2>1. FieldsAt(where) = FieldsOf(SECTIONS[ui.section])
    BY <1>4 DEF FieldsAt, Section
  <2>2. Count(ui.section, where) = IF ui.section = 4 THEN 2
                                   ELSE IF ui.section \in {1, 3, 6} THEN 1 ELSE 0
    BY <1>4 DEF Count
  <2>3. ASSUME NEW n \in 1 .. 6
        PROVE  DOMAIN FieldsOf(SECTIONS[n]) = 1 .. (IF n = 4 THEN 2
                                                    ELSE IF n \in {1, 3, 6} THEN 1 ELSE 0)
    <3>1. CASE n = 1
      BY <3>1, SectionNames DEF FieldsOf
    <3>2. CASE n = 2
      BY <3>2, SectionNames DEF FieldsOf
    <3>3. CASE n = 3
      BY <3>3, SectionNames DEF FieldsOf
    <3>4. CASE n = 4
      BY <3>4, SectionNames DEF FieldsOf
    <3>5. CASE n = 5
      BY <3>5, SectionNames DEF FieldsOf
    <3>6. CASE n = 6
      BY <3>6, SectionNames DEF FieldsOf
    <3>7. QED
      BY <3>1, <3>2, <3>3, <3>4, <3>5, <3>6
  <2>4. QED
    BY <2>1, <2>2, <2>3
<1>5. QED
  BY <1>1, <1>2, <1>3, <1>4

\* What the sections lead to.
LEMMA Kinds ==
  ASSUME ui.section \in 1 .. 6
  PROVE  /\ Kind(Section) \in {"Fields", "Doors", "ArtScreens", "SeedBoards"}
         /\ Kind(Section) = "SeedBoards" => ui.section = 6
         /\ Kind(Section) = "Fields" => ui.section \in {1, 3, 4}
<1>1. ASSUME NEW n \in 1 .. 6
      PROVE  /\ Kind(SECTIONS[n]) \in {"Fields", "Doors", "ArtScreens", "SeedBoards"}
             /\ Kind(SECTIONS[n]) = "SeedBoards" => n = 6
             /\ Kind(SECTIONS[n]) = "Fields" => n \in {1, 3, 4}
  <2>1. n = 1 \/ n = 2 \/ n = 3 \/ n = 4 \/ n = 5 \/ n = 6
    OBVIOUS
  <2>2. QED
    BY <2>1, SectionNames DEF Kind
<1>2. QED
  BY <1>1 DEF Section

-----------------------------------------------------------------------------
(* The editor: what it shows, and what it does to the document. *)

LEMMA Shown ==
  ASSUME EditorInv, saving = "no", NEW u, Show(u), Fits(u, doc), u.screen # "Save"
  PROVE  EditorInv'
  BY DEF EditorInv, Show

LEMMA Changed ==
  ASSUME EditorInv, saving = "no", NEW u, NEW d, Change(d, u), IsDoc(d), Fits(u, d),
         u.screen # "Save"
  PROVE  EditorInv'
  BY DEF EditorInv, Change

LEMMA ClosedFits == ASSUME NEW d PROVE Fits(Closed, d)
  BY DEF Fits, Closed, Screens

\* The sections, or what is asked over them.
LEMMA SectionsFit ==
  ASSUME NEW d, Fits(ui, d), NEW screen \in {"Sections", "Save", "ConfirmQuit"}
  PROVE  /\ Fits([Sections EXCEPT !.screen = screen], d)
         /\ [Sections EXCEPT !.screen = screen].screen = screen
<1>1. PICK u : u = [Sections EXCEPT !.screen = screen]
  OBVIOUS
<1>2. /\ u.screen = screen /\ u.section = ui.section /\ u.row = 0 /\ u.field = 1
      /\ u.from = "none"
      /\ u = [screen |-> u.screen, section |-> u.section, row |-> u.row, field |-> u.field,
              from |-> u.from, input |-> u.input]
  BY <1>1 DEF Sections, Closed
<1>3. Fits(u, d)
  BY <1>2 DEF Fits, Screens
<1>4. QED
  BY <1>1, <1>2, <1>3

LEMMA Exits == ASSUME Exit PROVE EditorInv'
  BY ClosedFits, NewDocs DEF Exit, EditorInv, Closed

LEMMA OpensSave ==
  ASSUME EditorInv, saving = "no", OpenSave
  PROVE  EditorInv'
<1>1. /\ Fits([Sections EXCEPT !.screen = "Save"], doc)
      /\ [Sections EXCEPT !.screen = "Save"].screen = "Save"
  BY SectionsFit DEF EditorInv
<1>2. Blocking(doc) \in BOOLEAN
  BY DEF Blocking
<1>3. QED
  BY <1>1, <1>2 DEF OpenSave, EditorInv

\* Back to the sections.
LEMMA ShowsSections ==
  ASSUME EditorInv, saving = "no", Show(Sections)
  PROVE  EditorInv'
<1>1. Sections = [Sections EXCEPT !.screen = "Sections"]
  BY DEF Sections, Closed
<1>2. QED
  BY <1>1, SectionsFit, Shown DEF EditorInv

\* Rows of the list that is open.
LEMMA RowsFit ==
  ASSUME EditorInv, NEW screen \in {"Doors", "SeedBoards", "ArtScreens"}, ui.screen = screen,
         NEW n \in RowsAt(screen)
  PROVE  n \in Nat /\ Fits([ui EXCEPT !.row = n], doc)
<1>0. Len(Doors(doc)) \in Nat /\ Len(Boards(doc)) \in Nat
  BY ListsOfDoc, ListFacts DEF EditorInv
<1>1. CASE screen = "Doors"
  <2>1. n \in 1 .. Len(Doors(doc))
    BY <1>1 DEF RowsAt
  <2>2. QED
    BY <1>0, <1>1, <2>1 DEF EditorInv, Fits
<1>2. CASE screen = "SeedBoards"
  <2>1. n \in 0 .. Len(Boards(doc))
    BY <1>2 DEF RowsAt
  <2>2. QED
    BY <1>0, <1>2, <2>1 DEF EditorInv, Fits
<1>3. CASE screen = "ArtScreens"
  <2>1. n \in Nat
    <3>1. n \in DOMAIN ArtKeys
      BY <1>3 DEF RowsAt
    <3>2. QED
      BY <3>1, ConfigAssumption
  <2>2. QED
    BY <1>3, <2>1 DEF EditorInv, Fits
<1>4. QED
  BY <1>1, <1>2, <1>3

LEMMA MoveSectionKeeps == ASSUME EditorInv, MoveSection PROVE EditorInv'
<1>1. PICK n \in DOMAIN SECTIONS : At("Sections") /\ Show([ui EXCEPT !.section = n])
  BY DEF MoveSection, Next1
<1>2. Fits([ui EXCEPT !.section = n], doc)
  BY <1>1, SectionNames DEF EditorInv, Fits, At
<1>3. QED
  BY <1>1, <1>2, Shown DEF At, EditorInv, Fits

LEMMA OpenSectionKeeps == ASSUME EditorInv, OpenSection PROVE EditorInv'
<1> DEFINE u == [ui EXCEPT !.screen = Kind(Section),
                           !.row = IF Kind(Section) \in {"Doors", "ArtScreens"} THEN 1 ELSE 0]
<1>1. ui.screen = "Sections" /\ saving = "no" /\ Show(u) /\ ui.from = "none" /\ ui.field = 1
  BY DEF OpenSection, At, EditorInv, Fits
<1>2. PICK kind : kind = Kind(Section)
  OBVIOUS
<1>3. /\ kind \in {"Fields", "Doors", "ArtScreens", "SeedBoards"}
      /\ kind = "SeedBoards" => ui.section = 6
      /\ kind = "Fields" => ui.section \in {1, 3, 4}
  BY <1>2, Kinds DEF EditorInv, Fits
<1>4. u = [ui EXCEPT !.screen = kind, !.row = IF kind \in {"Doors", "ArtScreens"} THEN 1 ELSE 0]
  BY <1>2
<1> HIDE DEF u
<1>5. Len(Boards(doc)) \in Nat
  BY ListsOfDoc, ListFacts DEF EditorInv
<1>6. /\ u.screen = kind /\ u.section = ui.section /\ u.field = 1 /\ u.from = "none"
      /\ u.row = IF kind \in {"Doors", "ArtScreens"} THEN 1 ELSE 0
      /\ u = [screen |-> u.screen, section |-> u.section, row |-> u.row, field |-> u.field,
              from |-> u.from, input |-> u.input]
  BY <1>1, <1>4 DEF EditorInv, Fits
<1>7. Fits(u, doc) /\ u.screen # "Save"
  BY <1>3, <1>5, <1>6 DEF EditorInv, Fits, Count, Screens
<1>8. QED
  BY <1>1, <1>7, Shown

LEMMA MoveRowKeeps == ASSUME EditorInv, MoveRow PROVE EditorInv'
<1>1. PICK screen \in {"Doors", "SeedBoards", "ArtScreens"} :
         At(screen) /\ \E n \in RowsAt(screen) : Show([ui EXCEPT !.row = n])
  BY DEF MoveRow, Next1
<1>2. PICK n \in RowsAt(screen) : Show([ui EXCEPT !.row = n])
  BY <1>1
<1>3. QED
  BY <1>1, <1>2, RowsFit, Shown DEF At, EditorInv, Fits

LEMMA MoveFieldKeeps == ASSUME EditorInv, MoveField PROVE EditorInv'
<1>1. PICK screen \in {"Fields", "DoorFields", "SeedBoardFields"} :
         At(screen) /\ \E n \in DOMAIN FieldsAt(screen) : Show([ui EXCEPT !.field = n])
  BY DEF MoveField, Next1
<1>2. PICK n \in DOMAIN FieldsAt(screen) : Show([ui EXCEPT !.field = n])
  BY <1>1
<1>3. n \in 1 .. Count(ui.section, screen)
  BY FieldCounts DEF EditorInv, Fits
<1>4. Fits([ui EXCEPT !.field = n], doc)
  BY <1>1, <1>3 DEF EditorInv, Fits, At
<1>5. QED
  BY <1>1, <1>2, <1>4, Shown DEF At, EditorInv, Fits

\* Another screen, from its first field.
LEMMA Turned ==
  ASSUME EditorInv, NEW screen, NEW u, u = [ui EXCEPT !.screen = screen, !.field = 1]
  PROVE  /\ u.screen = screen /\ u.section = ui.section /\ u.row = ui.row /\ u.field = 1
         /\ u.from = ui.from /\ u.input = ui.input
         /\ u = [screen |-> u.screen, section |-> u.section, row |-> u.row, field |-> u.field,
                 from |-> u.from, input |-> u.input]
  BY DEF EditorInv, Fits

LEMMA OpenEntryKeeps == ASSUME EditorInv, OpenEntry PROVE EditorInv'
<1>0. /\ Len(Doors(doc)) \in Nat /\ Len(Boards(doc)) \in Nat
      /\ Doors(doc) # <<>> => Len(Doors(doc)) > 0
  BY ListsOfDoc, ListFacts, EmptyList DEF EditorInv
<1>1. CASE At("Doors") /\ Doors(doc) # <<>>
           /\ Show([ui EXCEPT !.screen = "DoorFields", !.field = 1])
  <2> DEFINE u == [ui EXCEPT !.screen = "DoorFields", !.field = 1]
  <2>1. /\ u.screen = "DoorFields" /\ u.section = ui.section /\ u.row = ui.row /\ u.field = 1
        /\ u.from = ui.from /\ u.input = ui.input
        /\ u = [screen |-> u.screen, section |-> u.section, row |-> u.row, field |-> u.field,
                from |-> u.from, input |-> u.input]
    BY Turned
  <2>2. Show(u) /\ saving = "no"
    BY <1>1 DEF At
  <2> HIDE DEF u
  <2>3. Fits(u, doc) /\ u.screen # "Save"
    BY <1>0, <1>1, <2>1 DEF EditorInv, Fits, At, Count, Screens
  <2>4. QED
    BY <2>2, <2>3, Shown
<1>2. CASE At("SeedBoards") /\ Row > 0
           /\ Show([ui EXCEPT !.screen = "SeedBoardFields", !.field = 1])
  <2> DEFINE u == [ui EXCEPT !.screen = "SeedBoardFields", !.field = 1]
  <2>1. /\ u.screen = "SeedBoardFields" /\ u.section = ui.section /\ u.row = ui.row /\ u.field = 1
        /\ u.from = ui.from /\ u.input = ui.input
        /\ u = [screen |-> u.screen, section |-> u.section, row |-> u.row, field |-> u.field,
                from |-> u.from, input |-> u.input]
    BY Turned
  <2>2. Show(u) /\ saving = "no"
    BY <1>2 DEF At
  <2> HIDE DEF u
  <2>3. Fits(u, doc) /\ u.screen # "Save"
    BY <1>0, <1>2, <2>1 DEF EditorInv, Fits, At, Count, Screens, Row
  <2>4. QED
    BY <2>2, <2>3, Shown
<1>3. QED
  BY <1>1, <1>2 DEF OpenEntry

LEMMA BackKeeps == ASSUME EditorInv, saving = "no", Back PROVE EditorInv'
<1>0. Len(Boards(doc)) \in Nat
  BY ListsOfDoc, ListFacts DEF EditorInv
<1>1. CASE ui.screen \in {"Fields", "Doors", "ArtScreens", "SeedBoards"} /\ Show(Sections)
  BY <1>1, ShowsSections
<1>2. CASE ui.screen = "DoorFields" /\ Show([ui EXCEPT !.screen = "Doors", !.field = 1])
  <2> DEFINE u == [ui EXCEPT !.screen = "Doors", !.field = 1]
  <2>1. /\ u.screen = "Doors" /\ u.section = ui.section /\ u.row = ui.row /\ u.field = 1
        /\ u.from = ui.from /\ u.input = ui.input
        /\ u = [screen |-> u.screen, section |-> u.section, row |-> u.row, field |-> u.field,
                from |-> u.from, input |-> u.input]
    BY Turned
  <2>2. Show(u)
    BY <1>2
  <2> HIDE DEF u
  <2>3. Fits(u, doc) /\ u.screen # "Save"
    BY <1>2, <2>1 DEF EditorInv, Fits, Screens
  <2>4. QED
    BY <2>2, <2>3, Shown
<1>3. CASE ui.screen = "SeedBoardFields" /\ Show([ui EXCEPT !.screen = "SeedBoards", !.field = 1])
  <2> DEFINE u == [ui EXCEPT !.screen = "SeedBoards", !.field = 1]
  <2>1. /\ u.screen = "SeedBoards" /\ u.section = ui.section /\ u.row = ui.row /\ u.field = 1
        /\ u.from = ui.from /\ u.input = ui.input
        /\ u = [screen |-> u.screen, section |-> u.section, row |-> u.row, field |-> u.field,
                from |-> u.from, input |-> u.input]
    BY Turned
  <2>2. Show(u)
    BY <1>3
  <2> HIDE DEF u
  <2>3. Fits(u, doc) /\ u.screen # "Save"
    BY <1>0, <1>3, <2>1 DEF EditorInv, Fits, Screens
  <2>4. QED
    BY <2>2, <2>3, Shown
<1>4. QED
  BY <1>1, <1>2, <1>3 DEF Back

-----------------------------------------------------------------------------
(* Editing a value. *)

\* Only the lengths of the lists matter to the selection.
LEMMA FitsAlike ==
  ASSUME NEW u, NEW d, NEW e, Fits(u, d), Len(Doors(e)) = Len(Doors(d)),
         Len(Boards(e)) = Len(Boards(d))
  PROVE  Fits(u, e)
  BY DEF Fits

LEMMA PutIsDoc ==
  ASSUME EditorInv, NEW from \in {"Section", "Door", "ArtScreen", "SeedBoard"},
         from = "Door" => Row \in 1 .. Len(Doors(doc)),
         from = "SeedBoard" => Row \in 1 .. Len(Boards(doc)),
         NEW key, NEW value
  PROVE  /\ IsDoc(Put(from, key, value))
         /\ Len(Doors(Put(from, key, value))) = Len(Doors(doc))
         /\ Len(Boards(Put(from, key, value))) = Len(Boards(doc))
<1>0. IsDoc(doc) /\ IsList(doc.doors.list) /\ IsList(doc.boards.list)
  BY DEF EditorInv, IsDoc
<1>1. CASE from = "Section"
  <2>1. PICK set : Put(from, key, value) = [doc EXCEPT !.set = set]
    BY <1>1 DEF Put
  <2>2. QED
    BY <1>0, <2>1, SetKeepsLists
<1>2. CASE from = "ArtScreen"
  BY <1>0, <1>2, ArtKeepsLists DEF Put
<1>3. CASE from = "Door"
  <2>1. PICK list : list = SetIn(doc.doors.list, Row, key, value)
    OBVIOUS
  <2>2. Put(from, key, value) = PutDoors(doc, list)
    BY <1>3, <2>1 DEF Put
  <2>3. doc.doors.form = "tables" /\ Doors(doc) = doc.doors.list
    BY <1>0, <1>3, EmptyIsList, ListsOfDoc DEF EditorInv
  <2>4. IsList(list) /\ Len(list) = Len(Doors(doc))
    BY <1>0, <2>1, <2>3, SetInIsList
  <2>5. QED
    BY <1>0, <2>2, <2>3, <2>4, OtherDoors
<1>4. CASE from = "SeedBoard"
  <2>1. PICK list : list = SetIn(doc.boards.list, Row, key, value)
    OBVIOUS
  <2>2. Put(from, key, value) = PutBoards(doc, list)
    BY <1>4, <2>1 DEF Put
  <2>3. doc.boards.form = "array" /\ Boards(doc) = doc.boards.list
    BY <1>0, <1>4, EmptyIsList, ListsOfDoc DEF EditorInv
  <2>4. IsList(list) /\ Len(list) = Len(Boards(doc))
    BY <1>0, <2>1, <2>3, SetInIsList
  <2>5. QED
    BY <1>0, <2>2, <2>3, <2>4, OtherBoards
<1>5. QED
  BY <1>1, <1>2, <1>3, <1>4

\* Where the text editor comes from, by screen.
Opens(screen, from) ==
  \/ screen = "Fields" /\ from = "Section"
  \/ screen = "DoorFields" /\ from = "Door"
  \/ screen = "SeedBoardFields" /\ from = "SeedBoard"

\* The row of the entry whose fields are shown, or edited.
LEMMA RowOf ==
  ASSUME EditorInv,
         NEW screen \in {"Fields", "DoorFields", "SeedBoardFields"}, ui.screen = screen,
         NEW from, Opens(screen, from)
  PROVE  /\ from \in {"Section", "Door", "SeedBoard"}
         /\ from = "Door" => Row \in 1 .. Len(Doors(doc))
         /\ from = "SeedBoard" => ui.section = 6 /\ Row \in 1 .. Len(Boards(doc))
         /\ ui.field \in 1 .. Count(ui.section, from)
<1>1. Count(ui.section, screen) = Count(ui.section, from)
  BY DEF Opens, Count
<1>2. QED
  BY <1>1 DEF Opens, EditorInv, Fits, Row

LEMMA TextEditKeeps ==
  ASSUME EditorInv, saving = "no", NEW from \in {"Section", "Door", "ArtScreen", "SeedBoard"},
         from = "Door" => Row \in 1 .. Len(Doors(doc)),
         from = "SeedBoard" => ui.section = 6 /\ Row \in 1 .. Len(Boards(doc)),
         ui.field \in 1 .. Count(ui.section, from),
         NEW key, TextEdit(from, key)
  PROVE  EditorInv'
<1>1. PICK u : u = [ui EXCEPT !.screen = "Edit", !.from = from, !.input = Current(from, key)]
  OBVIOUS
<1>2. /\ u.screen = "Edit" /\ u.section = ui.section /\ u.row = ui.row /\ u.field = ui.field
      /\ u.from = from
      /\ u = [screen |-> u.screen, section |-> u.section, row |-> u.row, field |-> u.field,
              from |-> u.from, input |-> u.input]
  BY <1>1 DEF EditorInv, Fits
<1>3. Fits(u, doc)
  BY <1>2 DEF EditorInv, Fits, Screens, Row
<1>4. QED
  BY <1>1, <1>2, <1>3, Shown DEF TextEdit

LEMMA PutKeeps ==
  ASSUME EditorInv, saving = "no", NEW from \in {"Section", "Door", "ArtScreen", "SeedBoard"},
         from = "Door" => Row \in 1 .. Len(Doors(doc)),
         from = "SeedBoard" => Row \in 1 .. Len(Boards(doc)),
         NEW key, NEW value, NEW u, Fits(u, doc), u.screen # "Save",
         Change(Put(from, key, value), u)
  PROVE  EditorInv'
<1>1. PICK d : d = Put(from, key, value)
  OBVIOUS
<1>2. IsDoc(d) /\ Len(Doors(d)) = Len(Doors(doc)) /\ Len(Boards(d)) = Len(Boards(doc))
  BY <1>1, PutIsDoc
<1>3. Fits(u, d)
  BY <1>2, FitsAlike
<1>4. QED
  BY <1>1, <1>2, <1>3, Changed

LEMMA ToggleKeeps == ASSUME EditorInv, Toggle PROVE EditorInv'
<1>1. PICK key, value : At("Fields") /\ Change(Put("Section", key, value), ui)
  BY DEF Toggle
<1>2. QED
  BY <1>1, PutKeeps DEF At, EditorInv

LEMMA CycleKeeps ==
  ASSUME EditorInv, NEW screen \in {"Fields", "DoorFields", "SeedBoardFields"},
         NEW from, Opens(screen, from),
         Cycle(screen, from)
  PROVE  EditorInv'
<1>1. PICK key, value : At(screen) /\ Change(Put(from, key, value), ui)
  BY DEF Cycle
<1>2. /\ from \in {"Section", "Door", "SeedBoard"}
      /\ from = "Door" => Row \in 1 .. Len(Doors(doc))
      /\ from = "SeedBoard" => Row \in 1 .. Len(Boards(doc))
  BY <1>1, RowOf DEF At
<1>3. QED
  BY <1>1, <1>2, PutKeeps DEF At, EditorInv

LEMMA BeginEditKeeps ==
  ASSUME EditorInv, NEW screen \in {"Fields", "DoorFields", "SeedBoardFields"},
         NEW from, Opens(screen, from),
         BeginEdit(screen, from)
  PROVE  EditorInv'
<1>1. PICK key : At(screen) /\ TextEdit(from, key)
  BY DEF BeginEdit
<1>2. /\ from \in {"Section", "Door", "SeedBoard"}
      /\ from = "Door" => Row \in 1 .. Len(Doors(doc))
      /\ from = "SeedBoard" => ui.section = 6 /\ Row \in 1 .. Len(Boards(doc))
      /\ ui.field \in 1 .. Count(ui.section, from)
  BY <1>1, RowOf DEF At
<1>3. QED
  BY <1>1, <1>2, TextEditKeeps DEF At

LEMMA EditPasswordKeeps == ASSUME EditorInv, EditPassword PROVE EditorInv'
<1>1. ui.field \in 1 .. Count(ui.section, "Section")
  BY DEF EditPassword, At, EditorInv, Fits, Count
<1>2. QED
  BY <1>1, TextEditKeeps DEF EditPassword, At

LEMMA EditArtKeeps == ASSUME EditorInv, EditArt PROVE EditorInv'
<1>1. ui.field \in 1 .. Count(ui.section, "ArtScreen")
  BY DEF EditArt, At, EditorInv, Fits, Count
<1>2. QED
  BY <1>1, TextEditKeeps DEF EditArt, At

LEMMA UnsetCurrentKeeps == ASSUME EditorInv, UnsetCurrent PROVE EditorInv'
<1>1. PICK set : At("Fields") /\ Change([doc EXCEPT !.set = set], ui)
  BY DEF UnsetCurrent
<1>2. PICK d : d = [doc EXCEPT !.set = set]
  OBVIOUS
<1>3. IsDoc(d) /\ Doors(d) = Doors(doc) /\ Boards(d) = Boards(doc)
  BY <1>2, SetKeepsLists DEF EditorInv
<1>4. QED
  BY <1>1, <1>2, <1>3, FitsAlike, Changed DEF At, EditorInv

LEMMA UnsetArtKeeps == ASSUME EditorInv, UnsetArt PROVE EditorInv'
<1>1. PICK d : d = WithArt(doc, ArtKeys[Row], "")
  OBVIOUS
<1>2. IsDoc(d) /\ Doors(d) = Doors(doc) /\ Boards(d) = Boards(doc)
  BY <1>1, ArtKeepsLists DEF EditorInv
<1>3. At("ArtScreens") /\ Change(d, ui)
  BY <1>1 DEF UnsetArt
<1>4. QED
  BY <1>2, <1>3, FitsAlike, Changed DEF At, EditorInv

\* The text editor goes back to where it was opened.
LEMMA ReturnFits ==
  ASSUME EditorInv, ui.screen = "Edit"
  PROVE  Fits(Return, doc) /\ Return.screen # "Save"
<1>1. PICK screen : screen = Origin[ui.from]
  OBVIOUS
<1>2. PICK u : u = [ui EXCEPT !.screen = screen, !.from = "none", !.input = ""]
  OBVIOUS
<1>3. /\ ui.from \in {"Section", "Door", "ArtScreen", "SeedBoard"}
      /\ ui.field \in 1 .. Count(ui.section, ui.from)
      /\ ui.from = "Door" => ui.row \in 1 .. Len(Doors(doc))
      /\ ui.from = "SeedBoard" => ui.section = 6 /\ ui.row \in 1 .. Len(Boards(doc))
  BY DEF EditorInv, Fits
<1>4. \/ screen = "Fields" /\ ui.from = "Section"
      \/ screen = "DoorFields" /\ ui.from = "Door"
      \/ screen = "ArtScreens" /\ ui.from = "ArtScreen"
      \/ screen = "SeedBoardFields" /\ ui.from = "SeedBoard"
  BY <1>1, <1>3 DEF Origin
<1>5. /\ u.screen = screen /\ u.section = ui.section /\ u.row = ui.row /\ u.field = ui.field
      /\ u.from = "none"
      /\ u = [screen |-> u.screen, section |-> u.section, row |-> u.row, field |-> u.field,
              from |-> u.from, input |-> u.input]
  BY <1>2 DEF EditorInv, Fits
<1>6. u.section \in 1 .. 6 /\ u.row \in Nat
  BY <1>5 DEF EditorInv, Fits
<1>7. Fits(u, doc) /\ u.screen # "Save"
  BY <1>3, <1>4, <1>5, <1>6 DEF Fits, Count, Screens
<1>8. QED
  BY <1>1, <1>2, <1>7 DEF Return

LEMMA TypeKeeps == ASSUME EditorInv, Type PROVE EditorInv'
<1>1. PICK text : At("Edit") /\ Show([ui EXCEPT !.input = text])
  BY DEF Type
<1>2. PICK u : u = [ui EXCEPT !.input = text]
  OBVIOUS
<1>3. /\ u.screen = ui.screen /\ u.section = ui.section /\ u.row = ui.row /\ u.field = ui.field
      /\ u.from = ui.from
      /\ u = [screen |-> u.screen, section |-> u.section, row |-> u.row, field |-> u.field,
              from |-> u.from, input |-> u.input]
  BY <1>2 DEF EditorInv, Fits
<1>4. Fits(u, doc)
  BY <1>3 DEF EditorInv, Fits
<1>5. QED
  BY <1>1, <1>2, <1>3, <1>4, Shown DEF At

LEMMA CancelEditKeeps == ASSUME EditorInv, CancelEdit PROVE EditorInv'
  BY ReturnFits, Shown DEF CancelEdit, At

LEMMA CommitEditKeeps == ASSUME EditorInv, CommitEdit PROVE EditorInv'
<1>1. PICK key : At("Edit") /\ Change(Put(ui.from, key, ui.input), Return)
  BY DEF CommitEdit
<1>2. /\ ui.from \in {"Section", "Door", "ArtScreen", "SeedBoard"}
      /\ ui.from = "Door" => Row \in 1 .. Len(Doors(doc))
      /\ ui.from = "SeedBoard" => Row \in 1 .. Len(Boards(doc))
  BY <1>1 DEF At, EditorInv, Fits, Row
<1>3. QED
  BY <1>1, <1>2, ReturnFits, PutKeeps DEF At

-----------------------------------------------------------------------------
(* Adding, moving and removing entries. *)

LEMMA Lengths ==
  ASSUME EditorInv
  PROVE  /\ Len(Doors(doc)) \in Nat /\ Len(Boards(doc)) \in Nat
         /\ DOMAIN Doors(doc) = 1 .. Len(Doors(doc))
         /\ DOMAIN Boards(doc) = 1 .. Len(Boards(doc))
         /\ Doors(doc) # <<>> => Len(Doors(doc)) > 0
         /\ Boards(doc) # <<>> => Len(Boards(doc)) > 0
  BY ListsOfDoc, ListFacts, EmptyList DEF EditorInv

LEMMA AddDoorKeeps == ASSUME EditorInv, AddDoor PROVE EditorInv'
<1>1. PICK d : d = WithDoor(doc)
  OBVIOUS
<1>2. IsDoc(d) /\ Len(Doors(d)) = Len(Doors(doc)) + 1 /\ Boards(d) = Boards(doc)
  BY <1>1, OneMoreDoor DEF EditorInv
<1>3. PICK row : row = Len(Doors(doc)) + 1
  OBVIOUS
<1>4. PICK u : u = [ui EXCEPT !.screen = "DoorFields", !.field = 1, !.row = row]
  OBVIOUS
<1>5. At("Doors") /\ Change(d, u)
  BY <1>1, <1>3, <1>4 DEF AddDoor
<1>6. /\ u.screen = "DoorFields" /\ u.section = ui.section /\ u.row = row /\ u.field = 1
      /\ u.from = ui.from
      /\ u = [screen |-> u.screen, section |-> u.section, row |-> u.row, field |-> u.field,
              from |-> u.from, input |-> u.input]
  BY <1>4 DEF EditorInv, Fits
<1>7. Fits(u, d)
  BY <1>2, <1>3, <1>5, <1>6, Lengths DEF EditorInv, Fits, At, Count, Screens
<1>8. QED
  BY <1>2, <1>5, <1>6, <1>7, Changed DEF At

LEMMA AddSeedBoardKeeps == ASSUME EditorInv, AddSeedBoard PROVE EditorInv'
<1>1. CASE Exit
  BY <1>1, Exits
<1>2. CASE ~Exit
  <2>1. PICK d : d = WithBoard(doc)
    OBVIOUS
  <2>2. IsDoc(d) /\ Len(Boards(d)) = Len(Boards(doc)) + 1 /\ Doors(d) = Doors(doc)
    BY <2>1, OneMoreBoard DEF EditorInv
  <2>3. PICK row : row = Len(Boards(doc)) + 1
    OBVIOUS
  <2>4. PICK u : u = [ui EXCEPT !.screen = "SeedBoardFields", !.field = 1, !.row = row]
    OBVIOUS
  <2>5. At("SeedBoards") /\ Change(d, u)
    BY <1>2, <2>1, <2>3, <2>4 DEF AddSeedBoard
  <2>6. /\ u.screen = "SeedBoardFields" /\ u.section = ui.section /\ u.row = row /\ u.field = 1
        /\ u.from = ui.from
        /\ u = [screen |-> u.screen, section |-> u.section, row |-> u.row, field |-> u.field,
                from |-> u.from, input |-> u.input]
    BY <2>4 DEF EditorInv, Fits
  <2>7. Fits(u, d)
    BY <2>2, <2>3, <2>5, <2>6, Lengths DEF EditorInv, Fits, At, Count, Screens
  <2>8. QED
    BY <2>2, <2>5, <2>6, <2>7, Changed DEF At
<1>3. QED
  BY <1>1, <1>2

LEMMA MoveDoorKeeps == ASSUME EditorInv, MoveDoor PROVE EditorInv'
<1>1. PICK n \in RowsAt("Doors") :
         Change(PutDoors(doc, Swapped(doc.doors.list, Row, n)),
                [ui EXCEPT !.row = n])
  BY DEF MoveDoor, Next1
<1>2. PICK list : list = Swapped(doc.doors.list, Row, n)
  OBVIOUS
<1>3. PICK d : d = PutDoors(doc, list)
  OBVIOUS
<1>4. At("Doors") /\ saving = "no" /\ ui.screen = "Doors" /\ Change(d, [ui EXCEPT !.row = n])
  BY <1>1, <1>2, <1>3 DEF MoveDoor, At
<1>5. n \in 1 .. Len(Doors(doc))
  BY <1>1 DEF RowsAt
<1>6. doc.doors.form = "tables" /\ Doors(doc) = doc.doors.list /\ IsList(doc.doors.list)
  BY <1>5, EmptyIsList, ListsOfDoc DEF EditorInv, IsDoc
<1>7. IsList(list) /\ Len(list) = Len(Doors(doc))
  BY <1>2, <1>6, SwappedIsList
<1>8. IsDoc(d) /\ Len(Doors(d)) = Len(Doors(doc)) /\ Boards(d) = Boards(doc)
  BY <1>3, <1>6, <1>7, OtherDoors DEF EditorInv
<1>9. Fits([ui EXCEPT !.row = n], doc)
  BY <1>1, <1>4, RowsFit
<1>10. Fits([ui EXCEPT !.row = n], d) /\ [ui EXCEPT !.row = n].screen # "Save"
  BY <1>4, <1>8, <1>9, FitsAlike DEF EditorInv, Fits
<1>11. QED
  BY <1>4, <1>8, <1>10, Changed

\* A question over a list, and back: the row stays where it is.
LEMMA Asked ==
  ASSUME EditorInv, NEW screen, NEW u, u = [ui EXCEPT !.screen = screen]
  PROVE  /\ u.screen = screen /\ u.section = ui.section /\ u.row = ui.row
         /\ u.field = ui.field /\ u.from = ui.from
         /\ u = [screen |-> u.screen, section |-> u.section, row |-> u.row, field |-> u.field,
                 from |-> u.from, input |-> u.input]
  BY DEF EditorInv, Fits

LEMMA AskRemoveKeeps == ASSUME EditorInv, AskRemove PROVE EditorInv'
<1>1. CASE At("Doors") /\ Doors(doc) # <<>> /\ Show([ui EXCEPT !.screen = "ConfirmRemoveDoor"])
  <2>1. PICK u : u = [ui EXCEPT !.screen = "ConfirmRemoveDoor"]
    OBVIOUS
  <2>2. Fits(u, doc) /\ u.screen # "Save"
    BY <1>1, <2>1, Lengths, Asked DEF At, EditorInv, Fits, Screens
  <2>3. QED
    BY <1>1, <2>1, <2>2, Shown DEF At
<1>2. CASE At("SeedBoards") /\ Row > 0 /\ Boards(doc) # <<>>
           /\ Show([ui EXCEPT !.screen = "ConfirmRemoveSeedBoard"])
  <2>1. PICK u : u = [ui EXCEPT !.screen = "ConfirmRemoveSeedBoard"]
    OBVIOUS
  <2>2. Fits(u, doc) /\ u.screen # "Save"
    BY <1>2, <2>1, Lengths, Asked DEF At, EditorInv, Fits, Screens, Row
  <2>3. QED
    BY <1>2, <2>1, <2>2, Shown DEF At
<1>3. QED
  BY <1>1, <1>2 DEF AskRemove

LEMMA KeepKeeps == ASSUME EditorInv, Keep PROVE EditorInv'
<1>1. CASE At("ConfirmRemoveDoor") /\ Show([ui EXCEPT !.screen = "Doors"])
  <2>1. PICK u : u = [ui EXCEPT !.screen = "Doors"]
    OBVIOUS
  <2>2. Fits(u, doc) /\ u.screen # "Save"
    BY <1>1, <2>1, Asked DEF At, EditorInv, Fits, Screens
  <2>3. QED
    BY <1>1, <2>1, <2>2, Shown DEF At
<1>2. CASE At("ConfirmRemoveSeedBoard") /\ Show([ui EXCEPT !.screen = "SeedBoards"])
  <2>1. PICK u : u = [ui EXCEPT !.screen = "SeedBoards"]
    OBVIOUS
  <2>2. Fits(u, doc) /\ u.screen # "Save"
    BY <1>2, <2>1, Lengths, Asked DEF At, EditorInv, Fits, Screens
  <2>3. QED
    BY <1>2, <2>1, <2>2, Shown DEF At
<1>3. QED
  BY <1>1, <1>2 DEF Keep

LEMMA RemoveDoorKeeps == ASSUME EditorInv, RemoveDoor PROVE EditorInv'
<1>0. ui.screen = "ConfirmRemoveDoor" /\ saving = "no" /\ Row \in 1 .. Len(Doors(doc))
  BY DEF RemoveDoor, At, EditorInv, Fits, Row
<1>1. PICK list : list = DropFrom(doc.doors.list, Row)
  OBVIOUS
<1>2. PICK d : d = PutDoors(doc, list)
  OBVIOUS
<1>3. PICK row : row = IF Row = Len(Doors(doc)) /\ Row > 1 THEN Row - 1 ELSE Row
  OBVIOUS
<1>4. PICK u : u = [ui EXCEPT !.screen = "Doors", !.row = row]
  OBVIOUS
<1>5. Change(d, u)
  BY <1>1, <1>2, <1>3, <1>4 DEF RemoveDoor
<1>6. doc.doors.form = "tables" /\ Doors(doc) = doc.doors.list /\ IsList(doc.doors.list)
  BY <1>0, EmptyIsList, ListsOfDoc DEF EditorInv, IsDoc
<1>7. IsList(list) /\ Len(list) = Len(Doors(doc)) - 1
  BY <1>0, <1>1, <1>6, DropIsList, Lengths
<1>8. IsDoc(d) /\ Len(Doors(d)) = Len(Doors(doc)) - 1 /\ Boards(d) = Boards(doc)
  BY <1>2, <1>6, <1>7, OtherDoors DEF EditorInv
<1>9. /\ u.screen = "Doors" /\ u.section = ui.section /\ u.row = row /\ u.field = ui.field
      /\ u.from = ui.from
      /\ u = [screen |-> u.screen, section |-> u.section, row |-> u.row, field |-> u.field,
              from |-> u.from, input |-> u.input]
  BY <1>4 DEF EditorInv, Fits
<1>10. row \in Nat /\ (row = 1 \/ row \in 1 .. (Len(Doors(doc)) - 1))
  <2>1. Len(Doors(doc)) \in Nat /\ Len(Boards(doc)) \in Nat
    BY Lengths
  <2>2. QED
    BY <1>0, <1>3, <2>1
<1>11. Fits(u, d)
  BY <1>0, <1>8, <1>9, <1>10 DEF EditorInv, Fits, Screens
<1>12. QED
  BY <1>0, <1>5, <1>8, <1>9, <1>11, Changed

LEMMA RemoveSeedBoardKeeps == ASSUME EditorInv, RemoveSeedBoard PROVE EditorInv'
<1>0. /\ ui.screen = "ConfirmRemoveSeedBoard" /\ saving = "no" /\ ui.section = 6
      /\ Row \in 1 .. Len(Boards(doc))
  BY DEF RemoveSeedBoard, At, EditorInv, Fits, Row
<1>1. PICK list : list = DropFrom(doc.boards.list, Row)
  OBVIOUS
<1>2. PICK d : d = PutBoards(doc, list)
  OBVIOUS
<1>3. PICK row : row = IF Row = Len(Boards(doc)) THEN Row - 1 ELSE Row
  OBVIOUS
<1>4. PICK u : u = [ui EXCEPT !.screen = "SeedBoards", !.row = row]
  OBVIOUS
<1>5. Change(d, u)
  BY <1>1, <1>2, <1>3, <1>4 DEF RemoveSeedBoard
<1>6. doc.boards.form = "array" /\ Boards(doc) = doc.boards.list /\ IsList(doc.boards.list)
  BY <1>0, EmptyIsList, ListsOfDoc DEF EditorInv, IsDoc
<1>7. IsList(list) /\ Len(list) = Len(Boards(doc)) - 1
  BY <1>0, <1>1, <1>6, DropIsList, Lengths
<1>8. IsDoc(d) /\ Len(Boards(d)) = Len(Boards(doc)) - 1 /\ Doors(d) = Doors(doc)
  BY <1>2, <1>6, <1>7, OtherBoards DEF EditorInv
<1>9. /\ u.screen = "SeedBoards" /\ u.section = ui.section /\ u.row = row
      /\ u.field = ui.field /\ u.from = ui.from
      /\ u = [screen |-> u.screen, section |-> u.section, row |-> u.row, field |-> u.field,
              from |-> u.from, input |-> u.input]
  BY <1>4 DEF EditorInv, Fits
<1>10. row \in Nat /\ row <= Len(Boards(doc)) - 1
  <2>1. Len(Doors(doc)) \in Nat /\ Len(Boards(doc)) \in Nat
    BY Lengths
  <2>2. QED
    BY <1>0, <1>3, <2>1
<1>11. Fits(u, d)
  BY <1>0, <1>8, <1>9, <1>10 DEF EditorInv, Fits, Screens
<1>12. QED
  BY <1>0, <1>5, <1>8, <1>9, <1>11, Changed

-----------------------------------------------------------------------------
(* Saving and leaving. *)

LEMMA SaveKeeps == ASSUME EditorInv, Save PROVE EditorInv'
<1>1. saving = "no" /\ OpenSave
  BY DEF Save, At
<1>2. QED
  BY <1>1, OpensSave

LEMMA ConfirmSaveKeeps == ASSUME EditorInv, ConfirmSave PROVE EditorInv'
  BY DEF EditorInv, ConfirmSave, At

LEMMA SaveCopyKeeps == ASSUME EditorInv, SaveCopy PROVE EditorInv'
  BY DEF EditorInv, SaveCopy

LEMMA SaveFailsKeeps == ASSUME EditorInv, SaveFails PROVE EditorInv'
  BY DEF EditorInv, SaveFails

LEMMA SaveRenameKeeps == ASSUME EditorInv, SaveRename PROVE EditorInv'
<1>1. Sections = [Sections EXCEPT !.screen = "Sections"]
  BY DEF Sections, Closed
<1>2. Fits(Sections, doc) /\ Sections.screen = "Sections"
  BY <1>1, SectionsFit DEF EditorInv
<1>3. QED
  BY <1>2 DEF EditorInv, SaveRename

LEMMA DontSaveKeeps == ASSUME EditorInv, DontSave PROVE EditorInv'
  BY ShowsSections DEF DontSave, At

LEMMA RequestQuitKeeps == ASSUME EditorInv, RequestQuit PROVE EditorInv'
<1>1. CASE Exit
  BY <1>1, Exits
<1>2. CASE ~Exit
  <2>1. PICK u : u = [ui EXCEPT !.screen = "ConfirmQuit"]
    OBVIOUS
  <2>2. At("Sections") /\ Show(u)
    BY <1>2, <2>1 DEF RequestQuit
  <2>3. Fits(u, doc) /\ u.screen # "Save"
    BY <2>1, <2>2, Asked DEF At, EditorInv, Fits, Screens
  <2>4. QED
    BY <2>2, <2>3, Shown DEF At
<1>3. QED
  BY <1>1, <1>2

LEMMA ConfirmQuitKeeps == ASSUME EditorInv, ConfirmQuit PROVE EditorInv'
  BY Exits, OpensSave, ShowsSections DEF ConfirmQuit, At

LEMMA LaunchKeeps == ASSUME EditorInv, FileInv, Launch PROVE EditorInv'
<1>1. IsDoc(doc')
  <2>1. CASE file.is = "whole"
    BY <2>1 DEF Launch, FileInv, IsText, Missing, Torn, Broken
  <2>2. CASE file.is # "whole"
    BY <2>2, NewDocs DEF Launch
  <2>3. QED
    BY <2>1, <2>2
<1>2. PICK u : u = [Closed EXCEPT !.screen = "Sections"]
  OBVIOUS
<1>3. /\ u.screen = "Sections" /\ u.section = 1 /\ u.row = 0 /\ u.field = 1 /\ u.from = "none"
      /\ u = [screen |-> u.screen, section |-> u.section, row |-> u.row, field |-> u.field,
              from |-> u.from, input |-> u.input]
  BY <1>2 DEF Closed
<1>4. PICK d : d = doc'
  OBVIOUS
<1>5. Fits(u, d)
  BY <1>3 DEF Fits, Screens
<1>6. ui' = u /\ blocked' = blocked /\ saving' = saving /\ saving = "no"
  BY <1>2 DEF Launch, EditorInv
<1>7. QED
  BY <1>1, <1>3, <1>4, <1>5, <1>6 DEF EditorInv

LEMMA BbscfgKeeps == ASSUME EditorInv, FileInv, Bbscfg PROVE EditorInv'
<1>1. CASE MoveSection \/ OpenSection \/ MoveRow \/ MoveField \/ OpenEntry
           \/ (saving = "no" /\ Back)
  BY <1>1, MoveSectionKeeps, OpenSectionKeeps, MoveRowKeeps, MoveFieldKeeps, OpenEntryKeeps,
     BackKeeps
<1>2. CASE \/ Cycle("Fields", "Section") \/ BeginEdit("Fields", "Section")
           \/ Cycle("DoorFields", "Door") \/ BeginEdit("DoorFields", "Door")
           \/ Cycle("SeedBoardFields", "SeedBoard") \/ BeginEdit("SeedBoardFields", "SeedBoard")
  BY <1>2, CycleKeeps, BeginEditKeeps DEF Opens
<1>3. CASE Toggle \/ EditPassword \/ EditArt \/ UnsetCurrent \/ UnsetArt \/ Type \/ CancelEdit
           \/ CommitEdit
  BY <1>3, ToggleKeeps, EditPasswordKeeps, EditArtKeeps, UnsetCurrentKeeps, UnsetArtKeeps,
     TypeKeeps, CancelEditKeeps, CommitEditKeeps
<1>4. CASE AddDoor \/ AddSeedBoard \/ MoveDoor \/ AskRemove \/ Keep \/ RemoveDoor
           \/ RemoveSeedBoard
  BY <1>4, AddDoorKeeps, AddSeedBoardKeeps, MoveDoorKeeps, AskRemoveKeeps, KeepKeeps,
     RemoveDoorKeeps, RemoveSeedBoardKeeps
<1>5. CASE Save \/ ConfirmSave \/ SaveCopy \/ SaveFails \/ DontSave
  BY <1>5, SaveKeeps, ConfirmSaveKeeps, SaveCopyKeeps, SaveFailsKeeps, DontSaveKeeps
<1>6. CASE RequestQuit \/ ConfirmQuit \/ Kill \/ Launch
  BY <1>6, RequestQuitKeeps, ConfirmQuitKeeps, Exits, LaunchKeeps DEF Kill
<1>7. QED
  BY <1>1, <1>2, <1>3, <1>4, <1>5, <1>6 DEF Bbscfg

\* None of it touches the file.
LEMMA BbscfgKeepsFile == ASSUME Bbscfg PROVE UNCHANGED <<file, by>>
<1> USE DEF Show, Change, OpenSave, Exit
<1>1. CASE MoveSection \/ OpenSection \/ MoveRow \/ MoveField \/ OpenEntry \/ Back
  BY <1>1 DEF MoveSection, OpenSection, MoveRow, MoveField, OpenEntry, Back
<1>2. ASSUME NEW screen, NEW from, Cycle(screen, from) \/ BeginEdit(screen, from)
      PROVE  UNCHANGED <<file, by>>
  BY <1>2 DEF Cycle, BeginEdit, TextEdit
<1>3. CASE Toggle \/ EditPassword \/ EditArt \/ UnsetCurrent \/ UnsetArt \/ Type \/ CancelEdit
           \/ CommitEdit
  BY <1>3 DEF Toggle, EditPassword, EditArt, UnsetCurrent, UnsetArt, Type, CancelEdit,
           CommitEdit, TextEdit
<1>4. CASE AddDoor \/ AddSeedBoard \/ MoveDoor \/ AskRemove \/ Keep \/ RemoveDoor
           \/ RemoveSeedBoard
  BY <1>4 DEF AddDoor, AddSeedBoard, MoveDoor, AskRemove, Keep, RemoveDoor, RemoveSeedBoard
<1>5. CASE Save \/ ConfirmSave \/ SaveCopy \/ SaveFails \/ DontSave
  BY <1>5 DEF Save, ConfirmSave, SaveCopy, SaveFails, DontSave
<1>6. CASE RequestQuit \/ ConfirmQuit \/ Kill \/ Launch
  BY <1>6 DEF RequestQuit, ConfirmQuit, Kill, Launch
<1>7. QED
  BY <1>1, <1>2, <1>3, <1>4, <1>5, <1>6 DEF Bbscfg

-----------------------------------------------------------------------------
(* The file and the server. *)

LEMMA WholeIsText == ASSUME NEW d, IsDoc(d) PROVE IsText(Whole(d))
  BY DEF IsText, Whole

\* Who changes nothing of the editor keeps what holds of it.
LEMMA EditorIdle == ASSUME EditorInv, UNCHANGED editorVars PROVE EditorInv'
  BY DEF EditorInv, editorVars

LEMMA FileIdle == ASSUME FileInv, UNCHANGED <<file, by, hand>> PROVE FileInv'
  BY DEF FileInv, BoardStarts

LEMMA EditsKeep == ASSUME IInv, Edits PROVE IInv'
<1>1. EditorInv'
  BY BbscfgKeeps DEF IInv, Edits
<1>2. FileInv'
  BY BbscfgKeepsFile, FileIdle DEF IInv, Edits
<1>3. ServerTypes' /\ Fresh'
  BY BbscfgKeepsFile DEF IInv, Edits, serverVars, ServerTypes, Fresh
<1>4. QED
  BY <1>1, <1>2, <1>3 DEF IInv

\* What bbscfg writes is what it has found no blocking issue with.
LEMMA ReplacesKeep == ASSUME IInv, Replaces PROVE IInv'
<1>1. EditorInv'
  BY SaveRenameKeeps DEF IInv, Replaces
<1>2. FileInv'
  <2>1. IsDoc(doc) /\ ~Blocking(doc)
    BY DEF IInv, EditorInv, Replaces, SaveRename
  <2>2. Starts(doc)
    BY <2>1 DEF Starts, Blocking
  <2>3. IsText(Whole(doc)) /\ Whole(doc).is = "whole" /\ Whole(doc).doc = doc
    BY <2>1, WholeIsText DEF Whole
  <2>4. file' = Whole(doc) /\ by' = "bbscfg" /\ hand' = hand
    BY DEF Replaces, SaveRename
  <2>5. QED
    BY <2>2, <2>3, <2>4 DEF IInv, FileInv, BoardStarts
<1>3. ServerTypes' /\ Fresh'
  BY DEF IInv, Replaces, Notified, ServerTypes, Fresh
<1>4. QED
  BY <1>1, <1>2, <1>3 DEF IInv

LEMMA HandBeginsKeeps ==
  ASSUME IInv, NEW how \in {"truncate", "move"}, NEW text \in HandTexts, HandBegins(how, text)
  PROVE  IInv'
<1>1. EditorInv'
  BY EditorIdle DEF IInv, HandBegins
<1>2. FileInv'
  BY HandAssumption DEF IInv, HandBegins, FileInv, BoardStarts, IsText
<1>3. ServerTypes' /\ Fresh'
  BY DEF IInv, HandBegins, Notified, ServerTypes, Fresh
<1>4. QED
  BY <1>1, <1>2, <1>3 DEF IInv

LEMMA HandEndsKeeps == ASSUME IInv, HandEnds PROVE IInv'
<1>1. EditorInv'
  BY EditorIdle DEF IInv, HandEnds
<1>2. FileInv'
  <2>1. hand' = [how |-> hand'.how, text |-> hand'.text] /\ IsText(hand'.text)
    BY DEF HandEnds, Idle, IsText
  <2>2. QED
    BY <2>1 DEF IInv, HandEnds, FileInv, BoardStarts
<1>3. ServerTypes'
  BY DEF IInv, HandEnds, Notified, ServerTypes
<1>4. Fresh'
  <2>1. CASE UNCHANGED <<file, pending>>
    BY <2>1 DEF IInv, HandEnds, Fresh
  <2>2. CASE Notified(hand.how = "move")
    BY <2>2 DEF IInv, HandEnds, Notified, ServerTypes, Fresh
  <2>3. QED
    BY <2>1, <2>2 DEF HandEnds
<1>5. QED
  BY <1>1, <1>2, <1>3, <1>4 DEF IInv

LEMMA BootKeeps == ASSUME IInv, Boot PROVE IInv'
<1>1. EditorInv'
  BY EditorIdle DEF IInv, Boot
<1>2. FileInv'
  <2>1. CASE file = Missing
    BY <2>1, NewDocs, WholeIsText DEF IInv, Boot, FileInv, BoardStarts
  <2>2. CASE file # Missing
    BY <2>2 DEF IInv, Boot, FileInv, BoardStarts
  <2>3. QED
    BY <2>1, <2>2
<1>3. PICK d : server' = [is |-> "starting", doc |-> d]
  BY DEF Boot
<1>4. ServerTypes' /\ Fresh'
  BY <1>3 DEF IInv, Boot, ServerTypes, Fresh
<1>5. QED
  BY <1>1, <1>2, <1>4 DEF IInv

LEMMA WatchKeeps == ASSUME IInv, Watch PROVE IInv'
<1>1. EditorInv' /\ FileInv'
  BY EditorIdle, FileIdle DEF IInv, Watch
<1>2. ServerTypes'
  <2>1. server' = [is |-> server'.is, doc |-> server'.doc] /\ server'.is \in {"up", "down"}
    BY DEF IInv, Watch, ServerTypes
  <2>2. lagging' \in BOOLEAN
    BY DEF IInv, Watch, ServerTypes
  <2>3. QED
    BY <2>1, <2>2 DEF IInv, Watch, ServerTypes
<1>3. Fresh'
  <2>1. server.is = "starting" /\ ~pending /\ step["watcher"] = "idle"
    BY DEF IInv, Watch, Fresh, Tasks
  <2>2. CASE server' = [server EXCEPT !.is = "up"] /\ lagging' = (file # Whole(server.doc))
    <3>1. server'.is = "up" /\ server'.doc = server.doc
      BY <2>2 DEF IInv, ServerTypes
    <3>2. ~lagging' => file = Whole(server.doc)
      BY <2>2
    <3>3. ~lagging' /\ file.is = "whole" => server.doc = file.doc
      BY <3>2 DEF Whole
    <3>4. QED
      BY <2>1, <3>1, <3>3 DEF Watch, Fresh
  <2>3. CASE server' = [is |-> "down", doc |-> Blank]
    BY <2>1, <2>3 DEF IInv, Watch, Fresh
  <2>4. QED
    BY <2>2, <2>3 DEF Watch
<1>4. QED
  BY <1>1, <1>2, <1>3 DEF IInv

LEMMA StopKeeps == ASSUME IInv, Stop PROVE IInv'
<1>1. EditorInv' /\ FileInv'
  BY EditorIdle, FileIdle DEF IInv, Stop
<1>2. ServerTypes' /\ Fresh'
  BY DEF IInv, Stop, ServerTypes, Fresh
<1>3. QED
  BY <1>1, <1>2 DEF IInv

LEMMA NoticeKeeps == ASSUME IInv, Notice PROVE IInv'
<1>1. EditorInv' /\ FileInv'
  BY EditorIdle, FileIdle DEF IInv, Notice
<1>2. ServerTypes' /\ Fresh'
  BY DEF IInv, Notice, ServerTypes, Fresh, Tasks
<1>3. QED
  BY <1>1, <1>2 DEF IInv

LEMMA WakeKeeps == ASSUME IInv, Wake PROVE IInv'
<1>1. EditorInv' /\ FileInv'
  BY EditorIdle, FileIdle DEF IInv, Wake
<1>2. ServerTypes' /\ Fresh'
  BY DEF IInv, Wake, ServerTypes, Fresh, Tasks, Looked
<1>3. QED
  BY <1>1, <1>2 DEF IInv

LEMMA SighupKeeps == ASSUME IInv, Sighup PROVE IInv'
<1>1. EditorInv' /\ FileInv'
  BY EditorIdle, FileIdle DEF IInv, Sighup
<1>2. ServerTypes' /\ Fresh'
  BY DEF IInv, Sighup, ServerTypes, Fresh, Tasks, Looked
<1>3. QED
  BY <1>1, <1>2 DEF IInv

LEMMA CreateKeeps == ASSUME IInv, NEW t \in Tasks, Create(t) PROVE IInv'
<1>1. EditorInv'
  BY EditorIdle DEF IInv, Create
<1>2. FileInv'
  BY NewDocs, WholeIsText DEF IInv, Create, FileInv, BoardStarts
<1>3. ServerTypes' /\ Fresh'
  BY DEF IInv, Create, Notified, ServerTypes, Fresh
<1>4. QED
  BY <1>1, <1>2, <1>3 DEF IInv

LEMMA ReadKeeps == ASSUME IInv, NEW t \in Tasks, Read(t) PROVE IInv'
<1>1. EditorInv' /\ FileInv'
  BY EditorIdle, FileIdle DEF IInv, Read
<1>2. ServerTypes'
  BY DEF IInv, Read, ServerTypes
<1>3. Fresh'
  <2>1. server.is = "up"
    BY DEF IInv, Read, Fresh
  <2>2. file.is = "whole" => Parsed = {file.doc}
    <3>1. file.is = "whole" => file # Torn
      BY DEF Torn
    <3>2. QED
      BY <3>1 DEF Parsed
  <2>3. QED
    BY <2>1, <2>2 DEF IInv, Read, ServerTypes, Fresh, Tasks
<1>4. QED
  BY <1>1, <1>2, <1>3 DEF IInv

LEMMA StoreKeeps == ASSUME IInv, NEW t \in Tasks, Store(t) PROVE IInv'
<1>1. EditorInv' /\ FileInv'
  BY EditorIdle, FileIdle DEF IInv, Store
<1>2. ServerTypes'
  BY DEF IInv, Store, ServerTypes
<1>3. Fresh'
  <2>1. server'.is = server.is /\ server'.doc = got[t] /\ server.is = "up"
    BY DEF IInv, Store, ServerTypes, Fresh
  <2>2. CASE t = "watcher"
    BY <2>1, <2>2 DEF IInv, Store, ServerTypes, Fresh, Tasks
  <2>3. CASE t = "sighup"
    <3>1. ~lagging' => file = Whole(got[t])
      BY <2>3 DEF Store
    <3>2. ~lagging' /\ file.is = "whole" => got[t] = file.doc
      BY <3>1 DEF Whole
    <3>3. step'["watcher"] = step["watcher"] /\ got'["watcher"] = got["watcher"]
      BY <2>3 DEF Store, IInv, ServerTypes, Tasks
    <3>4. QED
      BY <2>1, <2>3, <3>2, <3>3 DEF IInv, Store, ServerTypes, Fresh, Tasks
  <2>4. QED
    BY <2>2, <2>3 DEF Tasks
<1>4. QED
  BY <1>1, <1>2, <1>3 DEF IInv

-----------------------------------------------------------------------------
(* The theorems. *)

LEMMA InitHolds == Init => IInv
<1> SUFFICES ASSUME Init PROVE IInv
  OBVIOUS
<1>1. EditorInv
  BY ClosedFits, NewDocs DEF Init, InitEditor, EditorInv, Closed
<1>2. FileInv
  <2>1. hand = [how |-> hand.how, text |-> hand.text] /\ IsText(hand.text)
    BY DEF Init, Idle, IsText
  <2>2. QED
    BY <2>1, StartAssumption DEF Init, InitEditor, FileInv, BoardStarts
<1>3. ServerTypes /\ Fresh
  BY DEF Init, ServerTypes, Fresh
<1>4. QED
  BY <1>1, <1>2, <1>3 DEF IInv

LEMMA StepHolds == IInv /\ [Next]_vars => IInv'
<1> SUFFICES ASSUME IInv, [Next]_vars PROVE IInv'
  OBVIOUS
<1>1. ASSUME NEW how \in {"truncate", "move"}, NEW text \in HandTexts, HandBegins(how, text)
      PROVE  IInv'
  BY <1>1, HandBeginsKeeps
<1>2. CASE Edits \/ Replaces \/ HandEnds
  BY <1>2, EditsKeep, ReplacesKeep, HandEndsKeeps
<1>3. CASE Boot \/ Watch \/ Stop \/ Sighup
  BY <1>3, BootKeeps, WatchKeeps, StopKeeps, SighupKeeps
<1>4. CASE Reload
  BY <1>4, NoticeKeeps, WakeKeeps, CreateKeeps, ReadKeeps, StoreKeeps DEF Reload
<1>5. CASE UNCHANGED vars
  <2>1. EditorInv' /\ FileInv'
    BY <1>5, EditorIdle, FileIdle DEF IInv, vars
  <2>2. ServerTypes' /\ Fresh'
    BY <1>5 DEF IInv, vars, serverVars, ServerTypes, Fresh
  <2>3. QED
    BY <2>1, <2>2 DEF IInv
<1>6. QED
  BY <1>1, <1>2, <1>3, <1>4, <1>5 DEF Next

\* The invariant of the file, of bbscfg over it and of the server, in every state.
THEOREM Invariant == Spec => []IInv
  BY InitHolds, StepHolds, PTL DEF Spec

\* Every step keeps the types.
THEOREM TypeCorrect == Spec => []TypeOK
<1>1. IInv => TypeOK
  BY SectionNames DEF IInv, EditorInv, Fits, Screens, FileInv, ServerTypes, TypeOK
<1>2. QED
  BY <1>1, Invariant, PTL

\* Whatever was added, moved and removed, in whatever document, bbscfg's selection
\* is on an entry the document has, and its text editor on a field of the list it
\* was opened from.
THEOREM SelectionStays == Spec => []SelectionHolds
<1>1. IInv => SelectionHolds
  <2> SUFFICES ASSUME IInv PROVE SelectionHolds
    OBVIOUS
  <2>1. ui.screen = "Edit" => ui.field \in DOMAIN FieldsAt(ui.from)
    BY FieldCounts DEF IInv, EditorInv, Fits
  <2>2. /\ DOMAIN Doors(doc) = 1 .. Len(Doors(doc))
        /\ DOMAIN Boards(doc) = 1 .. Len(Boards(doc))
    BY Lengths DEF IInv
  <2>3. QED
    BY <2>1, <2>2 DEF IInv, EditorInv, Fits, SelectionHolds, Row
<1>2. QED
  BY <1>1, Invariant, PTL

\* What bbscfg has written is a whole file that a server does not refuse for its
\* origin.
THEOREM SavedBoardStarts == Spec => []BoardStarts
<1>1. IInv => BoardStarts
  BY DEF IInv, FileInv
<1>2. QED
  BY <1>1, Invariant, PTL

\* Once the watcher has nothing left to do, the server runs what the file says,
\* unless a start or a SIGHUP that read it before it changed was done after.
THEOREM SettledServerIsCurrent == Spec => []SettledIsCurrent
<1>1. IInv => SettledIsCurrent
  BY DEF IInv, Fresh, SettledIsCurrent, Settled, Tasks
<1>2. QED
  BY <1>1, Invariant, PTL

==============================================================================
