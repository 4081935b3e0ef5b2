------------------------------- MODULE Screens -------------------------------
(***************************************************************************)
(* One session of the BBS as app/mod.rs keeps it: the record "app" has the *)
(* fields of struct App that outlive a key press, and there is an action   *)
(* per handler of handle_key.  The services behind a handler answer freely *)
(* (rows appear and vanish under a session that does not look), so what a  *)
(* handler loads is a choice; an answer that only sets the status line is  *)
(* a key without effect and is left out.                                   *)
(*                                                                         *)
(* Rust checks none of what this module is about: that the screen shown    *)
(* has the record it works on, that a form has the fields its submission   *)
(* reads, that the menu has the entry the cursor is on, and that a draft   *)
(* carries nothing over from the draft before it.                          *)
(***************************************************************************)
EXTENDS Naturals, Sequences, SequencesExt, FiniteSets

CONSTANTS
  Configs,          \* what operators configure: [menu, submenus, features, doors]
  MaxMenuDepth,     \* MAX_MENU_DEPTH
  Files,            \* files of the library
  MyFiles,          \* those the user uploaded
  MaxAttachments    \* [limits] max_attachments, 0 for no cap

\* The items that have a switch of their own in [features], or follow
\* federation.enabled.
Switches == {"oneliners", "polls", "timeline", "remote_boards", "mail", "mail_sysop", "who",
             "chat", "files", "keys", "register"}

ASSUME ScreensAssumption ==
  /\ MaxMenuDepth \in Nat \ {0}
  /\ MaxAttachments \in Nat
  /\ MyFiles \subseteq Files
  /\ \A c \in Configs :      \* [[menu]] and [[submenu]] are arrays of entries
       /\ c.features \subseteq Switches
       /\ \A g \in {c.menu} \cup {c.submenus[n] : n \in DOMAIN c.submenus} : g \in Seq(ToSet(g))

None == "none"

VARIABLES config, app
screensVars == <<config, app>>

Guest == app.role = "guest"
Admin == app.role = "admin"

(***************************************************************************)
(* Menus.  An entry leads to a built-in item, a door, a board or a submenu.*)
(***************************************************************************)
Entry(kind, name) == [kind |-> kind, name |-> name]
Item(name) == Entry("item", name)

Always   == {"bulletins", "boards", "stats", "search", "help", "quit"}
DefaultOrder ==
  <<"bulletins", "boards", "oneliners", "polls", "timeline", "remote_boards", "mail",
    "mail_sysop", "who", "chat", "profile", "stats", "search", "doors", "files", "keys",
    "register", "admin", "help", "quit">>

\* menu_item_available: features switched on and roles the session has.
ItemAvailable(i, c, role) ==
  \/ i \in Always
  \/ i = "profile"  /\ role # "guest"
  \/ i = "doors"    /\ c.doors # {}
  \/ i = "keys"     /\ i \in c.features /\ role # "guest"
  \/ i = "register" /\ i \in c.features /\ role = "guest"
  \/ i = "admin"    /\ role = "admin"
  \/ i \in c.features \ {"keys", "register"}

\* menu_action_available; a name MenuItem::from_action does not know is in no set.
Available(e, c, role) ==
  \/ e.kind = "item" /\ ItemAvailable(e.name, c, role)
  \/ e.kind = "door" /\ e.name \in c.doors
  \/ e.kind = "submenu" /\ e.name \in DOMAIN c.submenus
  \/ e.kind = "board"

\* What is available, in order.
BuildGroup(entries, c, role) ==
  LET kept[n \in 0..Len(entries)] ==
        IF n = 0 THEN <<>>
        ELSE IF Available(entries[n], c, role) THEN Append(kept[n - 1], entries[n])
        ELSE kept[n - 1]
  IN kept[Len(entries)]

BuiltIn == [n \in DOMAIN DefaultOrder |-> Item(DefaultOrder[n])]
BuildMenu(c, role) == BuildGroup(IF c.menu = <<>> THEN BuiltIn ELSE c.menu, c, role)

(***************************************************************************)
(* What bbsctl validate-menu accepts.  A board that does not exist yet and *)
(* a submenu nothing leads to are warnings; hotkeys are left out.          *)
(***************************************************************************)
SubmenusIn(entries) == {e.name : e \in {f \in ToSet(entries) : f.kind = "submenu"}}

\* The submenus that the submenus of a group lead to.
LedTo(group, c) ==
  DOMAIN c.submenus \cap
  UNION {SubmenusIn(c.submenus[g]) : g \in group \cap DOMAIN c.submenus}

\* Those that submenu n leads to, directly or not: what is in every set that
\* holds all its members and n lead to.
Beneath(n, c) ==
  {m \in DOMAIN c.submenus :
     \A group \in SUBSET DOMAIN c.submenus : LedTo(group \cup {n}, c) \subseteq group => m \in group}

BuiltIns == ToSet(DefaultOrder)      \* MenuItem::from_action knows no others
ValidEntry(e, c) ==
  /\ e.kind = "item" => e.name \in BuiltIns
  /\ e.kind = "door" => e.name \in c.doors
  /\ e.kind = "submenu" => e.name \in DOMAIN c.submenus

ValidateMenu(c) ==
  /\ \A g \in {c.menu} \cup {c.submenus[n] : n \in DOMAIN c.submenus} :
       \A e \in ToSet(g) : ValidEntry(e, c)
  /\ \A n \in DOMAIN c.submenus : n \notin Beneath(n, c)

(***************************************************************************)
(* Moves.  A handler overlays the fields it assigns on the record.         *)
(***************************************************************************)
With(r, s) == [f \in DOMAIN s |-> IF f \in DOMAIN r THEN r[f] ELSE s[f]]

\* handle_key: nothing is read once the session quits or a door has the terminal.
At(s) == ~app.quit /\ ~app.panicked /\ app.door = None /\ app.screen = s

Become(r) == app' = With(r, app) /\ UNCHANGED config
Go(s)     == Become([screen |-> s])
Open(n, s) == Become([form |-> n, screen |-> s])       \* Form::new of n fields

\* Form::value(n-1) on a form with fewer fields is out of bounds.
Submit(n, r) == IF n =< app.form THEN Become(r) ELSE Become([panicked |-> TRUE])

PasswordForm(forced) == IF forced THEN 2 ELSE 3
PollForm    == 9      \* a question and polls::MAX_OPTIONS options
ProfileForm == 4

\* Where Esc leads from each screen; five screens keep that in a field.
Back ==
  [ReadBulletin |-> "Bulletins", ComposeOneliner |-> "Oneliners", ViewPoll |-> "Polls",
   ComposePoll |-> "Polls", FollowRemote |-> "Timeline", RemoteBoardPosts |-> "RemoteBoards",
   ComposeRemotePost |-> "RemoteBoardPosts", MessageList |-> "BoardList",
   ReadMessage |-> "MessageList", ComposePost |-> "MessageList", ReadMail |-> "Mailbox",
   ComposeMail |-> "Mailbox", ConfirmDeleteMail |-> "Mailbox",  \* mail_delete_return
   MailSearchInput |-> "Mailbox", MailSearchResults |-> "Mailbox",
   ComposePage |-> "WhoOnline", IgnoreList |-> "Profile",
   EditProfile |-> "Profile", FileList |-> "FileAreas", FileDetail |-> "FileList",
   EditFileDesc |-> "FileDetail", ArchiveList |-> "FileDetail", AddKey |-> "Keys",
   ChangePassword |-> "Profile", AdminLogins |-> "AdminUsers", AdminAudit |-> "AdminUsers",
   AdminFederation |-> "AdminUsers", ComposeFederation |-> "AdminFederation",
   ComposeBroadcast |-> "AdminUsers", Profile |-> app.profileBack,
   FileView |-> app.textBack, AttachPicker |-> app.attachBack, Attachments |-> app.viewBack]

Menuward == {"Bulletins", "Oneliners", "Polls", "Chat", "Timeline", "RemoteBoards",
  "BoardList", "Mailbox", "MailSysop", "WhoOnline", "Stats", "SearchInput",
  "SearchResults", "Doors", "FileAreas", "Keys", "Register", "Help", "AdminUsers"}

EscapeTo(s) == IF s \in Menuward THEN "MainMenu" ELSE Back[s]
Leave == Go(EscapeTo(app.screen))

(***************************************************************************)
(* App::new and load_startup_bulletins.                                    *)
(***************************************************************************)
ScreensInit ==
  \E c \in Configs, role \in {"guest", "user", "admin"}, force \in BOOLEAN,
     bulletins \in BOOLEAN :
    /\ force => role # "guest"
    /\ config = c
    /\ app = [role |-> role, quit |-> FALSE, panicked |-> FALSE, force |-> force,
         screen |-> IF bulletins THEN "Bulletins"
                    ELSE IF force THEN "ChangePassword" ELSE "MainMenu",
         form |-> IF force THEN PasswordForm(TRUE) ELSE 0,
         menu |-> BuildMenu(c, role), sel |-> 1, stack |-> <<>>,
         poll |-> None, rboard |-> None, board |-> None, message |-> None,
         edit |-> None, pending |-> {}, attachBack |-> "ComposePost",
         viewBack |-> "ReadMessage", file |-> None, archive |-> None,
         textBack |-> "FileDetail", profile |-> None, profileBack |-> "MainMenu",
         mail |-> FALSE, page |-> FALSE, fed |-> FALSE, door |-> None, chat |-> FALSE]

Hangup ==       \* Ctrl-C, or the client is gone
  /\ ~app.quit /\ ~app.panicked /\ app.door = None
  /\ Become([quit |-> TRUE])

(***************************************************************************)
(* The main menu and its submenus.                                         *)
(***************************************************************************)
\* Up and Down, and the cursor's jump to the entry of a hotkey.
MoveCursor ==
  /\ At("MainMenu")
  /\ \E n \in DOMAIN app.menu : Become([sel |-> n])

Frame == [menu |-> app.menu, sel |-> app.sel]

FaultyDescend(group) == [stack |-> Append(app.stack, Frame), menu |-> group]
Descend(group) == [stack |-> Append(app.stack, Frame), menu |-> group, sel |-> 1]

FaultyPushSubmenu(name) ==
  LET group == BuildGroup(config.submenus[name], config, app.role) IN
  group # <<>> /\ Become(Descend(group))
PushSubmenu(name) ==
  LET group == BuildGroup(config.submenus[name], config, app.role) IN
  /\ Len(app.stack) < MaxMenuDepth
  /\ group # <<>>
  /\ Become(Descend(group))

\* The built-in items that only load a list and show it.
Landing ==
  [bulletins |-> "Bulletins", boards |-> "BoardList", oneliners |-> "Oneliners",
   polls |-> "Polls", timeline |-> "Timeline", remote_boards |-> "RemoteBoards",
   who |-> "WhoOnline", stats |-> "Stats", doors |-> "Doors", files |-> "FileAreas",
   keys |-> "Keys", admin |-> "AdminUsers", help |-> "Help"]

FaultyMailOpens == TRUE
MailOpens == ~Guest

ActivateItem(i) ==
  \/ i \in DOMAIN Landing /\ Go(Landing[i])
  \/ i = "mail" /\ MailOpens /\ Go("Mailbox")
  \/ i = "mail_sysop" /\ ~Guest /\ Open(1, "MailSysop")
  \/ i = "chat" /\ Become([chat |-> TRUE, screen |-> "Chat"])
  \/ i = "profile" /\ Become([profile |-> "own", profileBack |-> "MainMenu",
                              screen |-> "Profile"])
  \/ i = "search" /\ Open(1, "SearchInput")
  \/ i = "register" /\ Open(3, "Register")
  \/ i = "quit" /\ Become([quit |-> TRUE])

Boards == {"open", "locked", "staff"}      \* staff: min_write_role is admin

Activate(e) ==
  \/ e.kind = "item" /\ ActivateItem(e.name)
  \/ e.kind = "door" /\ Become([door |-> e.name])
  \/ e.kind = "board" /\ \E b \in Boards : Become([board |-> b, screen |-> "MessageList"])
  \/ e.kind = "submenu" /\ PushSubmenu(e.name)

\* activate_menu indexes the menu with the cursor.
EnterMenu ==
  /\ At("MainMenu")
  /\ IF app.sel \in DOMAIN app.menu THEN Activate(app.menu[app.sel])
     ELSE Become([panicked |-> TRUE])

EscapeMenu ==
  /\ At("MainMenu")
  /\ \/ /\ app.stack # <<>>
        /\ LET top == Last(app.stack) IN
           Become([menu |-> top.menu, sel |-> top.sel, stack |-> Front(app.stack)])
     \/ app.stack = <<>> /\ Become([quit |-> TRUE])

(***************************************************************************)
(* Bulletins, one-liners, polls, the timeline, chat and the wall.          *)
(***************************************************************************)
OnBulletins == At("Bulletins") /\ (Go("ReadBulletin") \/ Leave)
OnReader    == (At("ReadBulletin") \/ At("Help")) /\ Leave
OnStats     == At("Stats") /\ Leave

OnOneliners == At("Oneliners") /\ ((~Guest /\ Open(1, "ComposeOneliner")) \/ Leave)
OnComposeOneliner ==
  At("ComposeOneliner") /\ (Submit(1, [screen |-> "Oneliners"]) \/ Leave)

\* Whose a poll or a post is; the guest account can write neither.
Mine == IF Guest THEN {"other"} ELSE {"own", "other"}

OpenPoll(p) == [poll |-> p, screen |-> "ViewPoll"]
OnPolls ==
  /\ At("Polls")
  /\ \/ \E p \in Mine : Become(OpenPoll(p))
     \/ ~Guest /\ Open(PollForm, "ComposePoll")
     \/ Leave

CanModeratePoll == Admin \/ app.poll = "own"
ClosePoll == [screen |-> "Polls", poll |-> None]
OnViewPoll ==
  /\ At("ViewPoll")
  /\ \/ CanModeratePoll /\ Become(ClosePoll)        \* delete_current_poll
     \/ Become(ClosePoll)                           \* Esc
     \/ Become([poll |-> None])                     \* the list of polls fails to load
OnComposePoll == At("ComposePoll") /\ (Submit(PollForm, OpenPoll("own")) \/ Leave)

OnChat == At("Chat") /\ Become([chat |-> FALSE, screen |-> "MainMenu"])

OnTimeline == At("Timeline") /\ ((~Guest /\ Open(1, "FollowRemote")) \/ Leave)
OnFollowRemote == At("FollowRemote") /\ (Submit(1, [screen |-> "Timeline"]) \/ Leave)

OnRemoteBoards ==
  /\ At("RemoteBoards")
  /\ \/ \E b \in {"accepted", "pending"} :
          Become([rboard |-> b, screen |-> "RemoteBoardPosts"])
     \/ Leave
CanSubmitRemote == ~Guest /\ app.rboard = "accepted"
OnRemoteBoardPosts ==
  /\ At("RemoteBoardPosts")
  /\ \/ CanSubmitRemote /\ Open(2, "ComposeRemotePost")
     \/ Become([rboard |-> None, screen |-> "RemoteBoards"])
OnComposeRemotePost ==
  /\ At("ComposeRemotePost")
  /\ Submit(2, [screen |-> "RemoteBoardPosts"]) \/ Leave

(***************************************************************************)
(* Boards: reading, posting, editing.                                      *)
(***************************************************************************)
OpenBoard(b) == [board |-> b, screen |-> "MessageList"]
OnBoardList ==
  /\ At("BoardList")
  /\ \/ \E b \in Boards : Become(OpenBoard(b))
     \/ Leave

CanEdit(m)   == m = "own" /\ app.board # "locked"
CanDelete(m) == Admin \/ CanEdit(m)

MayPost ==
  /\ app.board # None /\ ~Guest
  /\ (app.board \in {"locked", "staff"}) => Admin
BeginComposePost == MayPost /\ Become([form |-> 1, pending |-> {}, screen |-> "ComposePost"])
BeginEditPost(m) ==
  CanEdit(m) /\ Become([form |-> 1, edit |-> m, screen |-> "ComposePost"])

OnMessageList ==
  /\ At("MessageList")
  /\ \/ \E m \in Mine : Become([message |-> m, screen |-> "ReadMessage"])
     \/ BeginComposePost                             \* new, or a reply
     \/ \E m \in Mine : BeginEditPost(m)
     \/ Leave

OnReadMessage ==
  /\ At("ReadMessage")
  /\ \/ BeginComposePost
     \/ BeginEditPost(app.message)
     \/ CanDelete(app.message) /\ Go("MessageList")
     \/ Leave

FaultyCancelPost == [pending |-> {}, screen |-> "MessageList"]
CancelPost == [edit |-> None, pending |-> {}, screen |-> "MessageList"]

SubmitPost == Submit(1, [pending |-> {}, screen |-> "MessageList"])
\* Whether the row was the user's to edit or is no longer; the text in the
\* reader follows the row.
SubmitEdit ==
  \E m \in {app.edit, app.message} :
    Submit(1, [edit |-> None, message |-> m, screen |-> "MessageList"])

BeginAttachPicker ==
  /\ ~Guest /\ Files # {}
  /\ Become([attachBack |-> app.screen, screen |-> "AttachPicker"])

OnComposePost ==
  /\ At("ComposePost")
  /\ \/ Become(CancelPost)
     \/ BeginAttachPicker
     \/ app.edit = None /\ SubmitPost
     \/ app.edit # None /\ SubmitEdit

\* search: the results lead to a message in its board; if it is gone by then,
\* to the board.
OnSearchInput == At("SearchInput") /\ (Submit(1, [screen |-> "SearchResults"]) \/ Leave)
Jump(b, m) == [board |-> b, message |-> m, screen |-> "ReadMessage"]
OnSearchResults ==
  /\ At("SearchResults")
  /\ \/ \E b \in Boards :
          /\ b = "staff" => Admin
          /\ \/ \E m \in Mine : Become(Jump(b, m))
             \/ Become(OpenBoard(b))
     \/ Open(1, "SearchInput")
     \/ Leave

(***************************************************************************)
(* Attachments, in both directions.                                        *)
(***************************************************************************)
Toggle(f) ==
  IF f \in app.pending THEN app.pending \ {f} ELSE app.pending \cup {f}
OnAttachPicker ==
  /\ At("AttachPicker")
  /\ \/ \E f \in Files :
          /\ \/ f \in app.pending
             \/ MaxAttachments = 0
             \/ Cardinality(app.pending) < MaxAttachments
          /\ Become([pending |-> Toggle(f)])
     \/ Leave

OpenAttachments ==
  /\ At("ReadMessage") \/ At("ReadMail")
  /\ Become([viewBack |-> app.screen, screen |-> "Attachments"])

ShowText(back) == [textBack |-> back, screen |-> "FileView"]
ListArchive(f) == [archive |-> f, screen |-> "ArchiveList"]

\* open_selected_attachment: an archive is listed, a text shown.
OnAttachments ==
  /\ At("Attachments")
  /\ \/ \E f \in Files : Become(ListArchive(f))
     \/ Become(ShowText("Attachments"))
     \/ Leave

(***************************************************************************)
(* The file library.                                                       *)
(***************************************************************************)
OnFileAreas ==
  /\ At("FileAreas")
  /\ Go("FileList") \/ Leave
OnFileList ==
  /\ At("FileList")
  /\ \/ \E f \in Files : Become([file |-> f, screen |-> "FileDetail"])
     \/ Leave

CanEditFile == app.file # None /\ (Admin \/ app.file \in MyFiles)
OnFileDetail ==
  /\ At("FileDetail")
  /\ \/ CanEditFile /\ Open(1, "EditFileDesc")
     \/ app.file # None /\ Become(ListArchive(app.file))
     \/ app.file # None /\ Become(ShowText("FileDetail"))
     \/ Leave
OnEditFileDesc == At("EditFileDesc") /\ (Submit(1, [screen |-> "FileDetail"]) \/ Leave)

\* open_archive_entry reads the entry out of the current file.
OnArchiveList ==
  /\ At("ArchiveList")
  /\ \/ app.file # None /\ Become(ShowText("ArchiveList"))
     \/ Leave
OnFileView == At("FileView") /\ Leave

(***************************************************************************)
(* Mail.                                                                   *)
(***************************************************************************)
\* begin_compose_mail keeps whatever is staged.
BeginComposeMail == Open(2, "ComposeMail")

OnMailbox ==
  /\ At("Mailbox")
  /\ \/ Become([mail |-> TRUE, screen |-> "ReadMail"])
     \/ BeginComposeMail
     \/ Open(1, "MailSearchInput")
     \/ Become([mail |-> TRUE, screen |-> "ConfirmDeleteMail"])
     \/ Leave
OnMailSearchInput ==
  At("MailSearchInput") /\ (Submit(1, [screen |-> "MailSearchResults"]) \/ Leave)
OnMailSearchResults ==
  /\ At("MailSearchResults")
  /\ \/ Become([mail |-> TRUE, screen |-> "ReadMail"])
     \/ Open(1, "MailSearchInput")
     \/ Leave
OnReadMail ==
  /\ At("ReadMail")
  /\ \/ BeginComposeMail                              \* reply, forward
     \/ app.mail /\ Go("ConfirmDeleteMail")
     \/ Leave
DropMail == [mail |-> FALSE, screen |-> "Mailbox"]
OnConfirmDeleteMail ==
  /\ At("ConfirmDeleteMail")
  /\ \/ app.mail /\ Become(DropMail)
     \/ Become([mail |-> FALSE])                     \* the mailbox fails to load
     \/ Leave
\* A local recipient; a remote one, refused while files are staged, whose
\* failure leaves for the mailbox as well.
OnComposeMail ==
  /\ At("ComposeMail")
  /\ \/ Become([pending |-> {}, screen |-> "Mailbox"])
     \/ BeginAttachPicker
     \/ Submit(2, [pending |-> {}, screen |-> "Mailbox"])
     \/ app.pending = {} /\ Submit(2, [screen |-> "Mailbox"])
OnMailSysop == At("MailSysop") /\ (Submit(1, [screen |-> "MainMenu"]) \/ Leave)

(***************************************************************************)
(* Who is online, pages, profiles and the ignore list.                     *)
(***************************************************************************)
Profiles == {"own", "other", "admin"}
OpenProfile(p, back) == [profile |-> p, profileBack |-> back, screen |-> "Profile"]

OnWho ==
  /\ At("WhoOnline")
  /\ \/ \E p \in Profiles : Become(OpenProfile(p, "WhoOnline"))
     \/ ~Guest /\ Become([page |-> TRUE, form |-> 1, screen |-> "ComposePage"])
     \/ Leave
OnComposePage ==
  /\ At("ComposePage")
  /\ \/ Submit(1, [page |-> FALSE, screen |-> "WhoOnline"])
     \/ Become([page |-> FALSE, screen |-> "WhoOnline"])

OwnProfile == app.profile = "own" /\ ~Guest
OnProfile ==
  /\ At("Profile")
  /\ \/ OwnProfile /\ Open(ProfileForm, "EditProfile")
     \/ OwnProfile /\ Go("IgnoreList")
     \/ OwnProfile /\ Become([force |-> FALSE, form |-> PasswordForm(FALSE),
                              screen |-> "ChangePassword"])
     \/ Leave
OnIgnoreList  == At("IgnoreList") /\ Leave
FaultyReopen == OpenProfile("own", "Profile")
Reopen == OpenProfile("own", app.profileBack)
OnEditProfile == At("EditProfile") /\ (Submit(ProfileForm, Reopen) \/ Leave)

\* The form of the forced change has no field for the current password.  A
\* refusal clears the fields.
OnChangePassword ==
  /\ At("ChangePassword")
  /\ \/ Submit(PasswordForm(app.force),
          [force |-> FALSE, form |-> 0,
           screen |-> IF app.force THEN "MainMenu" ELSE "Profile"])
     \/ Become([form |-> PasswordForm(app.force)])
     \/ ~app.force /\ Leave

(***************************************************************************)
(* Keys, registration, doors, the operator's screens.                      *)
(***************************************************************************)
OnKeys     == At("Keys") /\ (Open(1, "AddKey") \/ Leave)
OnAddKey   == At("AddKey") /\ (Submit(1, [screen |-> "Keys"]) \/ Leave)
OnRegister == At("Register") /\ (Submit(3, [screen |-> "MainMenu"]) \/ Leave)

OnDoors ==
  /\ At("Doors")
  /\ \/ \E d \in config.doors : Become([door |-> d])
     \/ Leave
\* The run loop bridges the terminal to the program until that ends.
RunDoor == app.door # None /\ Become([door |-> None])

OnAdminUsers ==
  /\ At("AdminUsers")
  /\ \/ \E s \in {"AdminLogins", "AdminAudit", "AdminFederation"} : Go(s)
     \/ Open(1, "ComposeBroadcast")
     \/ Leave
OnAdminLogins == At("AdminLogins") /\ Leave
OnAdminAudit  == At("AdminAudit") /\ Leave
OnComposeBroadcast ==
  At("ComposeBroadcast") /\ (Submit(1, [screen |-> "AdminUsers"]) \/ Leave)
OnAdminFederation ==
  /\ At("AdminFederation")
  /\ \/ Become([fed |-> TRUE, form |-> 1, screen |-> "ComposeFederation"])
     \/ Leave
\* Stored or refused, the entry is done with and the list shown again.
OnComposeFederation ==
  /\ At("ComposeFederation")
  /\ \/ Submit(1, [fed |-> FALSE, screen |-> "AdminFederation"])
     \/ Become([fed |-> FALSE, screen |-> "AdminFederation"])

ScreensNext ==
  \/ Hangup \/ MoveCursor \/ EnterMenu \/ EscapeMenu
  \/ OnBulletins \/ OnReader \/ OnStats \/ OnOneliners \/ OnComposeOneliner
  \/ OnPolls \/ OnViewPoll \/ OnComposePoll \/ OnChat
  \/ OnTimeline \/ OnFollowRemote
  \/ OnRemoteBoards \/ OnRemoteBoardPosts \/ OnComposeRemotePost
  \/ OnBoardList \/ OnMessageList \/ OnReadMessage \/ OnComposePost
  \/ OnSearchInput \/ OnSearchResults
  \/ OnAttachPicker \/ OpenAttachments \/ OnAttachments
  \/ OnFileAreas \/ OnFileList \/ OnFileDetail \/ OnEditFileDesc
  \/ OnArchiveList \/ OnFileView
  \/ OnMailbox \/ OnMailSearchInput \/ OnMailSearchResults \/ OnReadMail
  \/ OnConfirmDeleteMail \/ OnComposeMail \/ OnMailSysop
  \/ OnWho \/ OnComposePage \/ OnProfile \/ OnIgnoreList \/ OnEditProfile
  \/ OnChangePassword \/ OnKeys \/ OnAddKey \/ OnRegister \/ OnDoors \/ RunDoor
  \/ OnAdminUsers \/ OnAdminLogins \/ OnAdminAudit \/ OnComposeBroadcast
  \/ OnAdminFederation \/ OnComposeFederation

ScreensSpec == ScreensInit /\ [][ScreensNext]_screensVars

(***************************************************************************)
(* Properties.                                                             *)
(***************************************************************************)
AllScreens == Menuward \cup DOMAIN Back \cup {"MainMenu"}

\* Types of the fields.
ScreensTypeOK ==
  /\ config \in Configs
  /\ app.screen \in AllScreens
  /\ app.sel \in Nat \ {0} /\ app.form \in 0..PollForm
  /\ Len(app.stack) =< MaxMenuDepth
  /\ app.pending \subseteq Files /\ {app.file, app.archive} \subseteq Files \cup {None}

\* No key panics the session: the cursor is on an entry of the menu shown
\* (activate_menu indexes it), after any descent into and return from
\* submenus, and a form has the fields that its submission indexes.
NoPanic == ~app.panicked

\* Every screen has the record it works on, whatever way led to it; and what
\* belongs to one composer (the post being edited, the user being paged, the
\* domain being judged, the poll in view) is gone once that composer is left:
\* a stray edit_target would turn the next new post into an edit of an old one.
Drafting(s) == s \in {"ComposePost", "ComposeMail"}
            \/ (s = "AttachPicker" /\ app.attachBack \in {"ComposePost", "ComposeMail"})

ScreensHaveContext ==
  LET s == app.screen IN
  /\ s \in {"MessageList", "ReadMessage", "ComposePost"} => app.board # None
  /\ s = "ReadMessage" => app.message # None
  /\ s = "ReadMail" => app.mail
  /\ s \in {"Profile", "EditProfile", "IgnoreList"} => app.profile # None
  /\ s \in {"EditProfile", "IgnoreList"} => app.profile = "own"
  /\ app.edit # None => Drafting(s)
  /\ app.poll # None => s = "ViewPoll"
  /\ app.rboard # None <=> s \in {"RemoteBoardPosts", "ComposeRemotePost"}
  /\ app.page <=> s = "ComposePage"
  /\ app.fed <=> s = "ComposeFederation"
  /\ app.chat <=> s = "Chat"

\* What a session may see follows from its role and the operator's switches,
\* on every screen and not only in the menu: a guest never holds a composer
\* open, the operator's screens are an operator's, and a feature that is off
\* has no screen, though screens lead to one another.  (Files are another
\* matter: see ArchiveIsCurrent.)
ScreensOf ==
  [mail |-> {"Mailbox", "ReadMail", "ComposeMail", "ConfirmDeleteMail", "MailSearchInput",
             "MailSearchResults"},
   oneliners |-> {"Oneliners", "ComposeOneliner"},
   polls |-> {"Polls", "ViewPoll", "ComposePoll"}, chat |-> {"Chat"},
   who |-> {"WhoOnline", "ComposePage"},
   timeline |-> {"Timeline", "FollowRemote"}, keys |-> {"Keys", "AddKey"},
   remote_boards |-> {"RemoteBoards", "RemoteBoardPosts", "ComposeRemotePost"},
   register |-> {"Register"}, mail_sysop |-> {"MailSysop"}]
ForAdmins == {"AdminUsers", "AdminLogins", "AdminAudit", "AdminFederation",
              "ComposeFederation", "ComposeBroadcast"}
NotForGuests == ScreensOf.mail \cup ScreensOf.keys \cup ForAdmins \cup
  {"ComposeOneliner", "ComposePoll", "FollowRemote", "ComposeRemotePost", "ComposePost",
   "ComposePage", "EditProfile", "IgnoreList", "ChangePassword", "AttachPicker", "MailSysop"}

GatesHold ==
  /\ app.screen \in ForAdmins => Admin
  /\ app.screen \in NotForGuests => ~Guest
  /\ \A i \in DOMAIN ScreensOf : app.screen \in ScreensOf[i] => i \in config.features

\* Esc leads out: from every screen but the forced change of password, pressing
\* it again and again reaches the main menu, and there the top of the tree,
\* each return being to the menu that held the entry taken.  The fields that
\* remember where to return to never form a loop.  In a tree of submenus that
\* validate-menu accepts, no submenu is entered twice on the way down: the depth cap ("a
\* cycle guard") has nothing to guard against.
Esc(s) == IF s = "MainMenu" THEN s ELSE EscapeTo(s)
Way == Esc(Esc(Esc(Esc(Esc(Esc(app.screen))))))

\* The submenu entered from the menu at depth n.
Taken(n) == app.stack[n].menu[app.stack[n].sel].name

EscLeadsOut ==
  /\ ~(app.screen = "ChangePassword" /\ app.force) => Way = "MainMenu"
  /\ app.stack # <<>> => app.stack[1].menu = BuildMenu(config, app.role)
  /\ \A n \in DOMAIN app.stack :
       LET f == app.stack[n]
           below == IF n = Len(app.stack) THEN app.menu ELSE app.stack[n + 1].menu
       IN /\ f.sel \in DOMAIN f.menu
          /\ f.menu[f.sel].kind = "submenu"
          /\ below = BuildGroup(config.submenus[f.menu[f.sel].name], config, app.role)
  /\ ValidateMenu(config) => IsInjective([n \in DOMAIN app.stack |-> Taken(n)])

\* Files staged for a draft are of that draft: a composer opens with none
\* ("Files staged for the post/mail currently being composed").
DraftStartsClean ==
  [][~Drafting(app.screen) /\ Drafting(app.screen') => app'.pending = {}]_screensVars

\* The entries listed are those of the file they are read from: an attachment
\* opens in "the same text/archive viewer the file browser uses".  Where they
\* are not, Esc leads from the reader of a post into the file library.
ArchiveIsCurrent == app.screen = "ArchiveList" => app.file = app.archive
=============================================================================
