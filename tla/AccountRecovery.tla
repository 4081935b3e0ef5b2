-------------------------- MODULE AccountRecovery --------------------------
(***************************************************************************)
(* What follows when a sysop resets the password of one account: the       *)
(* account is flagged in the database, a session that logs in from then on *)
(* is held on the change-password screen, and the sweeper ends the ones    *)
(* that were already running.                                              *)
(*                                                                         *)
(* The flag is the time of the reset.  Three copies of it matter: the row, *)
(* the User a connection keeps from the moment it authenticated, and what  *)
(* the sweeper has read.  Whether somebody knows the current password is   *)
(* up to the environment.                                                  *)
(***************************************************************************)
EXTENDS Naturals

CONSTANTS
  Sessions,      \* connections of the account, made again once they have ended
  Owner,         \* the one whose user insists on a new password
  Bulletins,     \* has the sysop posted any?
  MayNotForce,   \* may a reset come with --no-force?
  MaxResets,     \* bound: resets
  MaxClock       \* bound: seconds

ASSUME RecoveryAssumption ==
  /\ Owner \in Sessions
  /\ Bulletins \in BOOLEAN
  /\ MayNotForce \in BOOLEAN
  /\ MaxResets \in Nat
  /\ MaxClock \in Nat \ {0}

VARIABLES
  clock,     \* seconds, from 1
  resetAt,   \* users.password_reset_at, 0 for NULL
  resets,    \* resets so far
  phase,     \* progress of each connection
  seen,      \* the flag in the User it authenticated as
  since,     \* when it joined the registry, 0: it is not there
  screen,    \* what its app shows
  force,     \* its app's force_password_change
  proven,    \* connections in change_password, past the check
  quit,      \* connections with an Event::Quit on its way
  swept,     \* the flag the sweeper has read, 0: it is between two sweeps
  last,      \* history: when the account was last flagged
  owes,      \* history: sessions that found it flagged and have not obeyed yet
  old,       \* history: sessions that were running when it was flagged
  current    \* history: connections whose checked password is still the stored one

row == <<resetAt, resets, last>>
recoveryVars == <<clock, row, phase, seen, since, screen, force, proven, quit, swept,
                  owes, old, current>>

Started == {"joined", "running"}
Screens == {"ChangePassword", "Bulletins", "Elsewhere"}

-----------------------------------------------------------------------------
RecoveryInit ==
  /\ clock   = 1
  /\ resetAt = 0
  /\ resets  = 0
  /\ phase   = [s \in Sessions |-> "none"]
  /\ seen    = [s \in Sessions |-> 0]
  /\ since   = [s \in Sessions |-> 0]
  /\ screen  = [s \in Sessions |-> "Elsewhere"]
  /\ force   = [s \in Sessions |-> FALSE]
  /\ proven  = {}
  /\ quit    = {}
  /\ swept   = 0
  /\ last    = 0
  /\ owes    = {}
  /\ old     = {}
  /\ current = {}

\* The user of session s is in front of a given screen and the app awaits a key.
At(s, shown) ==
  /\ phase[s] = "running"
  /\ s \notin proven
  /\ screen[s] = shown

-----------------------------------------------------------------------------
(* The operator. *)

\* bbsctl passwd: a new password and, unless --no-force, the flag.
Reset(forced) ==
  /\ resets < MaxResets
  /\ clock < MaxClock
  /\ forced \/ MayNotForce
  /\ resets'  = resets + 1
  /\ resetAt' = IF forced THEN clock ELSE 0
  /\ last'    = IF forced THEN clock ELSE last
  /\ old'     = IF forced THEN {s \in Sessions : phase[s] \in Started} ELSE old
  /\ current' = {}
  /\ UNCHANGED <<clock, phase, seen, since, screen, force, proven, quit, swept, owes>>

Elapse ==
  /\ clock < MaxClock
  /\ clock' = clock + 1
  /\ UNCHANGED <<row, phase, seen, since, screen, force, proven, quit, swept, owes,
                 old, current>>

-----------------------------------------------------------------------------
(* The sessions. *)

\* attempt_login or attempt_pubkey_login returns the row of users.
Authenticate(s) ==
  /\ phase[s] = "none"
  /\ phase' = [phase EXCEPT ![s] = "authenticated"]
  /\ seen'  = [seen EXCEPT ![s] = resetAt]
  /\ UNCHANGED <<clock, row, since, screen, force, proven, quit, swept, owes, old,
                 current>>

\* The shell is requested: join the registry, then App::new with the User that
\* the connection has kept.
Shell(s) ==
  /\ phase[s] = "authenticated"
  /\ phase'  = [phase EXCEPT ![s] = "joined"]
  /\ since'  = [since EXCEPT ![s] = clock]
  /\ force'  = [force EXCEPT ![s] = (seen[s] # 0)]
  /\ screen' = [screen EXCEPT ![s] = IF seen[s] # 0 THEN "ChangePassword" ELSE "Elsewhere"]
  /\ owes'   = IF seen[s] # 0 THEN owes \cup {s} ELSE owes
  /\ UNCHANGED <<clock, row, seen, proven, quit, swept, old, current>>

\* app::run begins with load_startup_bulletins.
Start(s) ==
  /\ phase[s] = "joined"
  /\ phase'  = [phase EXCEPT ![s] = "running"]
  /\ screen' = [screen EXCEPT ![s] = IF Bulletins THEN "Bulletins" ELSE @]
  /\ UNCHANGED <<clock, row, seen, since, force, proven, quit, swept, owes, old,
                 current>>

\* Faulty: Esc leaves the change-password screen, gate or not.
FaultyGo(s) ==
  /\ \/ At(s, "Bulletins")
     \/ At(s, "Elsewhere") /\ Bulletins
     \/ At(s, "ChangePassword")
  /\ \E shown \in {"Bulletins", "Elsewhere"} :
        screen' = [screen EXCEPT ![s] = shown]
  /\ UNCHANGED <<clock, row, phase, seen, since, force, proven, quit, swept, owes, old,
                 current>>

\* From the bulletins to the menu and back, and Esc on the change-password screen
\* of the user's profile.
Go(s) ==
  /\ \/ /\ At(s, "Bulletins") \/ (At(s, "ChangePassword") /\ ~force[s])
        /\ screen' = [screen EXCEPT ![s] = "Elsewhere"]
     \/ /\ At(s, "Elsewhere")
        /\ screen' = [screen EXCEPT ![s] = "Bulletins"]
  /\ UNCHANGED <<clock, row, phase, seen, since, force, proven, quit, swept, owes, old,
                 current>>

\* begin_change_password, from the user's own profile.
BeginChange(s) ==
  /\ At(s, "Elsewhere")
  /\ force'  = [force EXCEPT ![s] = FALSE]
  /\ screen' = [screen EXCEPT ![s] = "ChangePassword"]
  /\ UNCHANGED <<clock, row, phase, seen, since, proven, quit, swept, owes, old, current>>

\* set_own_password, and the app's state after it.
SetOwnPassword(s, shown) ==
  /\ resetAt' = 0
  /\ force'   = [force EXCEPT ![s] = FALSE]
  /\ screen'  = [screen EXCEPT ![s] = shown]
  /\ owes'    = owes \ {s}
  /\ current' = {}
  /\ UNCHANGED <<clock, resets, last, phase, seen, since, quit, swept, old>>

\* The gate asks for no current password.
SubmitForced(s) ==
  /\ At(s, "ChangePassword")
  /\ force[s]
  /\ SetOwnPassword(s, "Elsewhere")
  /\ UNCHANGED proven

\* change_password reads the stored password and finds the typed one right ...
Verify(s) ==
  /\ At(s, "ChangePassword")
  /\ ~force[s]
  /\ proven'  = proven \cup {s}
  /\ current' = current \cup {s}
  /\ UNCHANGED <<clock, row, phase, seen, since, screen, force, quit, swept, owes, old>>

\* ... and overwrites it when it has hashed the new one.
SubmitOwn(s) ==
  /\ s \in proven
  /\ SetOwnPassword(s, "Elsewhere")
  /\ proven' = proven \ {s}

\* Faulty: the session does not leave the registry.
FaultyEnd(s) ==
  /\ phase[s] = "running"
  /\ s \notin proven
  /\ phase'  = [phase EXCEPT ![s] = "none"]
  /\ force'  = [force EXCEPT ![s] = FALSE]
  /\ screen' = [screen EXCEPT ![s] = "Elsewhere"]
  /\ quit'   = quit \ {s}
  /\ owes'   = owes \ {s}
  /\ old'    = old \ {s}
  /\ UNCHANGED <<clock, row, seen, since, proven, swept, current>>

\* The app loop ends, by Ctrl-C or by the sweeper's Event::Quit, and the session
\* leaves the registry.
End(s) ==
  /\ phase[s] = "running"
  /\ s \notin proven
  /\ phase'  = [phase EXCEPT ![s] = "none"]
  /\ since'  = [since EXCEPT ![s] = 0]
  /\ force'  = [force EXCEPT ![s] = FALSE]
  /\ screen' = [screen EXCEPT ![s] = "Elsewhere"]
  /\ quit'   = quit \ {s}
  /\ owes'   = owes \ {s}
  /\ old'    = old \ {s}
  /\ UNCHANGED <<clock, row, seen, proven, swept, current>>

-----------------------------------------------------------------------------
(* The sweeper (enforce_password_resets). *)

SweepRead ==
  /\ swept = 0
  /\ resetAt # 0
  /\ swept' = resetAt
  /\ UNCHANGED <<clock, row, phase, seen, since, screen, force, proven, quit, owes, old,
                 current>>

\* Faulty: the same second counts as later.
FaultySweepTie ==
  /\ swept # 0
  /\ quit'  = quit \cup {s \in Sessions : since[s] \in 1 .. (swept - 1)}
  /\ swept' = 0
  /\ UNCHANGED <<clock, row, phase, seen, since, screen, force, proven, owes, old,
                 current>>

\* Faulty: every session of the account is ended.
FaultySweepAll ==
  /\ swept # 0
  /\ quit'  = quit \cup {s \in Sessions : since[s] # 0}
  /\ swept' = 0
  /\ UNCHANGED <<clock, row, phase, seen, since, screen, force, proven, owes, old,
                 current>>

\* The registered sessions that are not younger than the reset are told to quit.
SweepSend ==
  /\ swept # 0
  /\ quit'  = quit \cup {s \in Sessions : since[s] \in 1 .. swept}
  /\ swept' = 0
  /\ UNCHANGED <<clock, row, phase, seen, since, screen, force, proven, owes, old,
                 current>>

-----------------------------------------------------------------------------
RecoveryNext ==
  \/ \E forced \in BOOLEAN : Reset(forced)
  \/ Elapse
  \/ \E s \in Sessions : \/ Authenticate(s)
                         \/ Shell(s)
                         \/ Start(s)
                         \/ Go(s)
                         \/ BeginChange(s)
                         \/ SubmitForced(s)
                         \/ Verify(s)
                         \/ SubmitOwn(s)
                         \/ End(s)
  \/ SweepRead
  \/ SweepSend

\* The owner logs in, obeys the gate, and hangs up where there is none; given
\* a gate and no Event::Quit under way time and again, the owner does not hang up
\* every time.
Insist(s) ==
  \/ Authenticate(s)
  \/ Shell(s)
  \/ Start(s)
  \/ SubmitForced(s)
  \/ SubmitOwn(s)
  \/ End(s) /\ ~(At(s, "ChangePassword") /\ force[s])

\* Time passes, the sweeper ticks, a started app runs and obeys Event::Quit.
Fairness ==
  /\ WF_recoveryVars(Elapse)
  /\ WF_recoveryVars(SweepRead)
  /\ WF_recoveryVars(SweepSend)
  /\ \A s \in Sessions : /\ WF_recoveryVars(Start(s))
                         /\ WF_recoveryVars(SubmitOwn(s))
                         /\ SF_recoveryVars(s \in quit /\ End(s))
  /\ WF_recoveryVars(Insist(Owner))
  /\ SF_recoveryVars(Owner \notin quit /\ SubmitForced(Owner))

RecoverySpec == RecoveryInit /\ [][RecoveryNext]_recoveryVars /\ Fairness

-----------------------------------------------------------------------------
(* Properties. *)

\* The types; a session is registered from its shell to its end.
RecoveryTypeOK ==
  /\ clock \in 1 .. MaxClock
  /\ resetAt \in 0 .. MaxClock
  /\ resets \in 0 .. MaxResets
  /\ phase \in [Sessions -> {"none", "authenticated"} \cup Started]
  /\ seen \in [Sessions -> 0 .. MaxClock]
  /\ since \in [Sessions -> 0 .. MaxClock]
  /\ \A s \in Sessions : since[s] # 0 <=> phase[s] \in Started
  /\ screen \in [Sessions -> Screens]
  /\ force \in [Sessions -> BOOLEAN]
  /\ proven \subseteq Sessions
  /\ quit \subseteq Sessions
  /\ swept \in 0 .. MaxClock
  /\ last \in 0 .. MaxClock
  /\ owes \subseteq Sessions
  /\ old \subseteq Sessions
  /\ current \subseteq Sessions

\* A session that found its account flagged shows nothing but the change-password
\* screen until a new password is set ("nothing else is reachable", app/mod.rs).
GateHolds ==
  \A s \in owes : phase[s] = "running" => screen[s] = "ChangePassword" /\ force[s]

\* The sweeper ends no session that is younger than every reset, however late it
\* acts on what it has read: kicking the one that just logged in "would make the
\* account impossible to recover".
YoungAreSpared == \A s \in quit : since[s] <= last

\* A sweep that has read the latest flag tells every session that was running when
\* the account was flagged, those that started in that very second included.
SweepIsThorough ==
  [][swept # 0 /\ swept' = 0 /\ swept = last => old \subseteq quit']_recoveryVars

\* An owner who insists sets a new password, sweeps or not.
Recoverable == resetAt # 0 ~> resetAt = 0

\* README: "the sweeper also ends any session that was already running when the
\* reset happened", flagged or not by the time it looks.
OldEnd == \A s \in Sessions : s \in old ~> s \notin old

\* README: "the user's next session is held on a change-password screen".
NextIsHeld ==
  \A s \in Sessions :
     phase[s] = "running" /\ resetAt # 0 /\ since[s] > resetAt =>
        screen[s] = "ChangePassword"

\* change_password: "verify `current` before replacing it".
VerifiedIsReplaced ==
  [][\A s \in Sessions : SubmitOwn(s) => s \in current]_recoveryVars

=============================================================================
