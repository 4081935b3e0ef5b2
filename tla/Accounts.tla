------------------------------ MODULE Accounts ------------------------------
(***************************************************************************)
(* The accounts of the board: registration and its approval, logging in by *)
(* password or key, roles, bans of users and addresses, private mail and   *)
(* the block list, and the daily time budget.                              *)
(*                                                                         *)
(* The connections, the sweeper and the operator (an admin's session, or   *)
(* bbsctl in a process of its own) share the database and nothing else.  A *)
(* connection keeps the User it was authenticated with: its role is as old *)
(* as the login.  Every step is one SQL statement; what a function has     *)
(* read for its next one is in the connection's job.                       *)
(***************************************************************************)
EXTENDS Naturals, FiniteSets

CONSTANTS
  Conns,             \* connections, all from one address
  Names,             \* user names; Sysop's and Guest's accounts are seeded
  Sysop, Guest,
  RequireValidation, \* [accounts] require_validation
  DailyLimit,        \* [limits] daily_minutes; 0: none.  In ticks, as below:
  Day,               \* length of a day
  SweepPeriod,       \* [network] ban_sweep_interval
  MaxFailures,       \* [abuse]; failures are counted over the whole run
  BanTicks,
  MaxIds,            \* bound: accounts ever registered
  MaxMail,           \* bound: mail ever sent
  MaxNow             \* bound: ticks

ASSUME AccountsAssumption ==
  /\ IsFiniteSet(Conns)
  /\ Sysop # Guest
  /\ {Sysop, Guest} \subseteq Names
  /\ RequireValidation \in BOOLEAN
  /\ {DailyLimit, MaxFailures, BanTicks, MaxIds, MaxMail, MaxNow} \subseteq Nat
  /\ {Day, SweepPeriod} \subseteq Nat \ {0}
  /\ MaxIds >= 2

Ids     == 1 .. MaxIds
Nobody  == 0
SysopId == 1
Never   == MaxNow + BanTicks + 1   \* the expiry of a permanent ban

VARIABLES
  now,
  users,    \* rows of users
  lastId,   \* the AUTOINCREMENT counter of users
  keys,     \* ids of the accounts with a registered key
  blocks,   \* user_blocks: <<blocker, blocked>>
  mail,     \* rows of mail
  sent,     \* the AUTOINCREMENT counter of mail
  time,     \* user_time: ticks banked for an account and a day
  ipBan,    \* the address' row of ip_bans: when it expires, 0 without a row
  fails,    \* failed logins of the address
  conn,     \* connections: the job, and the User they were authenticated as
  sweep,    \* the sweeper: what it is at
  due,      \* the tick it comes round next
  todo,     \* the sessions of its snapshot that it has not looked at yet
  manual,   \* history: the operator banned the address, and lifted no ban
  raised    \* history: the accounts whose role was ever set

people == <<users, lastId, keys>>
post   == <<mail, sent>>
sweeper == <<sweep, due, todo>>
past   == <<manual, raised>>
vars   == <<now, people, blocks, post, time, ipBan, fails, conn, sweeper, past>>

Roles == {"guest", "user", "admin"}

Off == [at |-> "off"]

Account(i, n, role, valid) ==
  [id |-> i, name |-> n, role |-> role, valid |-> valid, banned |-> FALSE]

\* A board whose operator has an account.
Init ==
  /\ now    = 0
  /\ users  = {Account(SysopId, Sysop, "admin", TRUE), Account(2, Guest, "guest", TRUE)}
  /\ lastId = 2
  /\ keys   = {}
  /\ blocks = {}
  /\ mail   = {}
  /\ sent   = 0
  /\ time   = [x \in Ids \X (0 .. MaxNow \div Day) |-> 0]
  /\ ipBan  = 0
  /\ fails  = 0
  /\ conn   = [c \in Conns |-> Off]
  /\ sweep  = "rest"
  /\ due    = 0     \* the first tick of an interval is at once
  /\ todo   = {}
  /\ manual = FALSE
  /\ raised = {}

Named(n)     == {u \in users : u.name = n}
Lives(i)     == \E u \in users : u.id = i
ById(i)      == CHOOSE u \in users : u.id = i
Becomes(c, j) == conn' = [conn EXCEPT ![c] = j]
Replace(u, v) == users' = (users \ {u}) \cup {v}

\* A session: the User it logged in as, since when, and what it is doing; had is
\* history: what was banked for the account on that day when it came.
In(u)   == [at |-> "in", me |-> u, since |-> now, had |-> time[<<u.id, now \div Day>>],
            job |-> "idle", with |-> Nobody, name |-> Guest]
Online(c) == conn[c].at = "in"
Idle(c)   == Online(c) /\ conn[c].job = "idle"
Me(c)     == conn[c].me
IsGuest(u) == u.role = "guest"
IsAdmin(u) == u.role = "admin"
Starts(c, job, with, n) ==
  Becomes(c, [conn[c] EXCEPT !.job = job, !.with = with, !.name = n])
Done(c)   == Starts(c, "idle", Nobody, Guest)

-----------------------------------------------------------------------------
(* Logging in (attempt_login, attempt_pubkey_login).                        *)

IpBanned == ipBan > now
Failure  == fails' = IF fails < MaxFailures THEN fails + 1 ELSE fails

\* The address is looked up first.
Connect(c, n) ==
  /\ conn[c].at = "off"
  /\ IF IpBanned THEN Failure /\ UNCHANGED conn
     ELSE /\ Becomes(c, [at |-> "login", name |-> n])
          /\ UNCHANGED fails
  /\ UNCHANGED <<now, people, blocks, post, time, ipBan, sweeper, past>>

\* The row; for a key, the row of an account that has it.  A password takes a
\* while to verify: the row may be old when it has.
FindUser(c, u, proof) ==
  /\ conn[c].at = "login"
  /\ u.name = conn[c].name
  /\ proof = "key" => u.id \in keys
  /\ Becomes(c, [at |-> "proof", me |-> u])
  /\ UNCHANGED <<now, people, blocks, post, time, ipBan, fails, sweeper, past>>

\* Admins and guests count as validated.
IsValidated(u) == u.valid \/ IsAdmin(u) \/ IsGuest(u)
MayEnter(u)    == IsValidated(u) /\ ~u.banned

Enter(c) ==
  /\ conn[c].at = "proof"
  /\ MayEnter(Me(c))
  /\ Becomes(c, In(Me(c)))
  /\ UNCHANGED <<now, people, blocks, post, time, ipBan, fails, sweeper, past>>

\* A wrong name, a wrong password, or an account that may not enter.
Refuse(c) ==
  /\ conn[c].at \in {"login", "proof"}
  /\ Becomes(c, Off)
  /\ Failure
  /\ UNCHANGED <<now, people, blocks, post, time, ipBan, sweeper, past>>

\* The app banks the session's time on the day it began.
Bank(c) ==
  LET i == Me(c).id IN
  IF Lives(i)
  THEN [time EXCEPT ![<<i, conn[c].since \div Day>>] = @ + (now - conn[c].since)]
  ELSE time

Ends(c) ==
  /\ time' = Bank(c)
  /\ Becomes(c, Off)
  /\ todo' = todo \ {c}

Leave(c) ==
  /\ Online(c)
  /\ Ends(c)
  /\ UNCHANGED <<now, people, blocks, post, ipBan, fails, sweep, due, past>>

\* A frame cannot be written, or the bridge's other half aborts the app: nothing is
\* banked.
Vanish(c) ==
  /\ Online(c)
  /\ Becomes(c, Off)
  /\ todo' = todo \ {c}
  /\ UNCHANGED <<now, people, blocks, post, time, ipBan, fails, sweep, due, past>>

-----------------------------------------------------------------------------
(* Registration, from any session the menu lets register.                   *)

AskName(c, n) ==
  /\ Idle(c)
  /\ n \notin {Sysop, Guest}     \* reserved names
  /\ Named(n) = {}
  /\ Starts(c, "register", Nobody, n)
  /\ UNCHANGED <<now, people, blocks, post, time, ipBan, fails, sweeper, past>>

\* The password has been hashed.  The name is UNIQUE: the second of two
\* registrations that met is refused.
InsertUser(c) ==
  LET n == conn[c].name IN
  /\ Online(c)
  /\ conn[c].job = "register"
  /\ IF Named(n) = {}
     THEN /\ lastId < MaxIds
          /\ users' = users \cup
                      {Account(lastId + 1, n, "user", ~RequireValidation)}
          /\ lastId' = lastId + 1
     ELSE UNCHANGED <<users, lastId>>
  /\ Done(c)
  /\ UNCHANGED <<now, keys, blocks, post, time, ipBan, fails, sweeper, past>>

\* validate_user and reject_user go by the name and find an account without the
\* stamp: one that bbsctl has given a role is no exception.
Validate(u) ==
  /\ ~u.valid
  /\ Replace(u, [u EXCEPT !.valid = TRUE])
  /\ UNCHANGED <<now, lastId, keys, blocks, post, time, ipBan, fails, conn,
                 sweeper, past>>

\* A row that mail, a key or a block refers to is not deleted: the statement
\* fails on the foreign key.  Banked time goes with the account.
\* FAULTY: the recipient of a mail is not referred to.
FaultyReferred(i) ==
  \/ i \in keys
  \/ \E m \in mail : m.from = i
  \/ \E b \in blocks : i \in {b[1], b[2]}

Referred(i) ==
  \/ i \in keys
  \/ \E m \in mail : i \in {m.from, m.to}
  \/ \E b \in blocks : i \in {b[1], b[2]}

\* FAULTY: an account is deleted that has been approved meanwhile.
FaultyReject(u) ==
  /\ ~Referred(u.id)
  /\ users' = users \ {u}
  /\ time' = [x \in DOMAIN time |-> IF x[1] = u.id THEN 0 ELSE time[x]]
  /\ UNCHANGED <<now, lastId, keys, blocks, post, ipBan, fails, conn, sweeper,
                 past>>

Reject(u) ==
  /\ ~u.valid
  /\ ~Referred(u.id)
  /\ users' = users \ {u}
  /\ time' = [x \in DOMAIN time |-> IF x[1] = u.id THEN 0 ELSE time[x]]
  /\ UNCHANGED <<now, lastId, keys, blocks, post, ipBan, fails, conn, sweeper,
                 past>>

SetRole(u, r) ==
  /\ u.role # r
  /\ Replace(u, [u EXCEPT !.role = r])
  /\ raised' = raised \cup {u.id}
  /\ UNCHANGED <<now, lastId, keys, blocks, post, time, ipBan, fails, conn,
                 sweeper, manual>>

SetBan(u) ==
  /\ Replace(u, [u EXCEPT !.banned = ~@])
  /\ UNCHANGED <<now, lastId, keys, blocks, post, time, ipBan, fails, conn,
                 sweeper, past>>

\* From the account's session, or bbsctl for any account.
AddKey(i) ==
  /\ Lives(i)
  /\ keys' = keys \cup {i}
  /\ UNCHANGED <<now, users, lastId, blocks, post, time, ipBan, fails, conn,
                 sweeper, past>>

RemoveKey(i) ==
  /\ keys' = keys \ {i}
  /\ UNCHANGED <<now, users, lastId, blocks, post, time, ipBan, fails, conn,
                 sweeper, past>>

-----------------------------------------------------------------------------
(* Mail and blocks.                                                         *)

Blocked(by, whom) == <<by, whom>> \in blocks

\* check_sender, the recipient, and the recipient's block list.
CheckMail(c, to) ==
  /\ Idle(c)
  /\ ~IsGuest(Me(c))
  /\ IsAdmin(Me(c)) \/ ~Blocked(to.id, Me(c).id)
  /\ Starts(c, "send", to.id, Guest)
  /\ UNCHANGED <<now, people, blocks, post, time, ipBan, fails, sweeper, past>>

InsertMail(c) ==
  LET to == conn[c].with IN
  /\ Online(c)
  /\ conn[c].job = "send"
  /\ IF Lives(to) /\ Lives(Me(c).id)
     THEN /\ sent < MaxMail
          /\ mail' = mail \cup [id : {sent + 1}, from : {Me(c).id}, to : {to},
                                read : {FALSE}]
          /\ sent' = sent + 1
     ELSE UNCHANGED post
  /\ Done(c)
  /\ UNCHANGED <<now, people, blocks, time, ipBan, fails, sweeper, past>>

\* read_mail and delete_mail are scoped to the recipient.
ReadMail(c, m) ==
  /\ Idle(c)
  /\ m.to = Me(c).id /\ ~m.read
  /\ mail' = (mail \ {m}) \cup {[m EXCEPT !.read = TRUE]}
  /\ UNCHANGED <<now, people, blocks, sent, time, ipBan, fails, conn, sweeper,
                 past>>

DeleteMail(c, m) ==
  /\ Idle(c)
  /\ m.to = Me(c).id
  /\ mail' = mail \ {m}
  /\ UNCHANGED <<now, people, blocks, sent, time, ipBan, fails, conn, sweeper,
                 past>>

\* The target is looked up, and judged by what the look found.
AskBlock(c, u) ==
  /\ Idle(c)
  /\ ~IsGuest(Me(c))
  /\ u.id # Me(c).id
  /\ ~IsAdmin(u)
  /\ Starts(c, "block", u.id, Guest)
  /\ UNCHANGED <<now, people, blocks, post, time, ipBan, fails, sweeper, past>>

InsertBlock(c) ==
  LET whom == conn[c].with IN
  /\ Online(c)
  /\ conn[c].job = "block"
  /\ IF Lives(whom) /\ Lives(Me(c).id)
     THEN blocks' = blocks \cup {<<Me(c).id, whom>>}
     ELSE UNCHANGED blocks
  /\ Done(c)
  /\ UNCHANGED <<now, people, post, time, ipBan, fails, sweeper, past>>

Unblock(c, u) ==
  /\ Idle(c)
  /\ Blocked(Me(c).id, u)
  /\ blocks' = blocks \ {<<Me(c).id, u>>}
  /\ UNCHANGED <<now, people, post, time, ipBan, fails, conn, sweeper, past>>

-----------------------------------------------------------------------------
(* The sweeper, and bans of the address.                                    *)

\* FAULTY: what sessions before have banked is not counted.
FaultySpent(c, u) == now - conn[c].since

\* What is banked on this day, and all the session has been up.
Spent(c, u) == time[<<u.id, now \div Day>>] + (now - conn[c].since)

\* The account is looked up by the session's name; its role is read afresh.
OverTime(c) ==
  /\ Online(c)
  /\ DailyLimit > 0
  /\ \E u \in Named(Me(c).name) : ~IsAdmin(u) /\ Spent(c, u) >= DailyLimit

\* The sweeper comes round, and takes a snapshot of the sessions.
StartSweep ==
  /\ sweep = "rest"
  /\ now = due
  /\ sweep' = "time"
  /\ todo' = {c \in Conns : Online(c)}
  /\ due' = due + SweepPeriod
  /\ UNCHANGED <<now, people, blocks, post, time, ipBan, fails, conn, past>>

\* enforce_time_limits: whom it finds over time is sent Event::Quit, and leaves.
LookAt(c) ==
  /\ sweep = "time"
  /\ c \in todo
  /\ IF OverTime(c) THEN Ends(c)
     ELSE todo' = todo \ {c} /\ UNCHANGED <<time, conn>>
  /\ UNCHANGED <<now, people, blocks, post, ipBan, fails, sweep, due, past>>

\* Then the bans that have run out go.
Purge ==
  /\ sweep = "time"
  /\ todo = {}
  /\ ipBan' = IF ipBan > now THEN ipBan ELSE 0
  /\ sweep' = "auto"
  /\ UNCHANGED <<now, people, blocks, post, time, fails, conn, due, todo, past>>

\* auto_ban selects offenders without an active ban, and bans them by and by.
FindOffender ==
  /\ sweep = "auto"
  /\ sweep' = IF MaxFailures > 0 /\ fails >= MaxFailures /\ ~IpBanned
              THEN "banning" ELSE "bans"
  /\ UNCHANGED <<now, people, blocks, post, time, ipBan, fails, conn, due, todo,
                 past>>

\* ban_ip is an upsert; a configured length of 0 makes the ban permanent.
AutoBan ==
  /\ sweep = "banning"
  /\ ipBan' = IF BanTicks > 0 THEN now + BanTicks ELSE Never
  /\ sweep' = "bans"
  /\ UNCHANGED <<now, people, blocks, post, time, fails, conn, due, todo, past>>

Banned(c) == IpBanned \/ \E u \in users : u.name = Me(c).name /\ u.banned

\* The bans are read, and the sessions under them collected ...
ReadBans ==
  /\ sweep = "bans"
  /\ sweep' = "kick"
  /\ todo' = {c \in Conns : Online(c) /\ Banned(c)}
  /\ UNCHANGED <<now, people, blocks, post, time, ipBan, fails, conn, due, past>>

\* ... and sent Event::Quit.
Kick(c) ==
  /\ sweep = "kick"
  /\ c \in todo
  /\ Ends(c)
  /\ UNCHANGED <<now, people, blocks, post, ipBan, fails, sweep, due, past>>

EndSweep ==
  /\ sweep = "kick"
  /\ todo = {}
  /\ sweep' = "rest"
  /\ UNCHANGED <<now, people, blocks, post, time, ipBan, fails, conn, due, todo,
                 past>>

BanIp ==
  /\ ~manual
  /\ ipBan' = Never
  /\ manual' = TRUE
  /\ UNCHANGED <<now, people, blocks, post, time, fails, conn, sweeper, raised>>

UnbanIp ==
  /\ ipBan # 0
  /\ ipBan' = 0
  /\ manual' = FALSE
  /\ UNCHANGED <<now, people, blocks, post, time, fails, conn, sweeper, raised>>

\* Time passes between the sweeps: one takes less than a tick.
Tick ==
  /\ sweep = "rest"
  /\ now < due
  /\ now < MaxNow
  /\ now' = now + 1
  /\ UNCHANGED <<people, blocks, post, time, ipBan, fails, conn, sweeper, past>>

-----------------------------------------------------------------------------
ConnStep(c) ==
  \/ \E n \in Names : Connect(c, n)
  \/ \E u \in users, proof \in {"password", "key"} : FindUser(c, u, proof)
  \/ Enter(c)
  \/ Refuse(c)
  \/ Leave(c)
  \/ Vanish(c)
  \/ \E n \in Names : AskName(c, n)
  \/ InsertUser(c)
  \/ \E u \in users : CheckMail(c, u)
  \/ InsertMail(c)
  \/ \E m \in mail : ReadMail(c, m)
  \/ \E m \in mail : DeleteMail(c, m)
  \/ \E u \in users : AskBlock(c, u)
  \/ InsertBlock(c)
  \/ \E i \in Ids : Unblock(c, i)

\* The operator at bbsctl: approve to unban-ip, role, add-key and rm-key.
Police ==
  \/ \E u \in users : Validate(u) \/ Reject(u) \/ SetBan(u)
  \/ BanIp
  \/ UnbanIp
Promote  == \E u \in users, r \in Roles : SetRole(u, r)
EditKeys == (\E i \in Ids : AddKey(i)) \/ (\E i \in keys : RemoveKey(i))

Sweep ==
  \/ StartSweep \/ Purge \/ FindOffender \/ AutoBan \/ ReadBans \/ EndSweep
  \/ \E c \in Conns : LookAt(c) \/ Kick(c)

Next ==
  \/ \E c \in Conns : ConnStep(c)
  \/ Police
  \/ Promote
  \/ EditKeys
  \/ Sweep
  \/ Tick

Spec == Init /\ [][Next]_vars

-----------------------------------------------------------------------------
(* Properties. *)

\* The types.
TypeOK ==
  /\ now \in 0 .. MaxNow
  /\ users \subseteq [id : Ids, name : Names, role : Roles,
                      valid : BOOLEAN, banned : BOOLEAN]
  /\ lastId \in 2 .. MaxIds
  /\ keys \subseteq Ids
  /\ blocks \subseteq Ids \X Ids
  /\ ipBan \in 0 .. Never
  /\ fails \in 0 .. MaxFailures
  /\ sweep \in {"rest", "time", "auto", "banning", "bans", "kick"}
  /\ due \in Nat
  /\ todo \subseteq Conns

\* Behind every session is an account under the name it logged in with, the
\* same one still, which somebody has let in: a registration that is pending,
\* rejected, or made again under the name gets no session, unless somebody has
\* set its role.
SessionsHaveAccounts ==
  /\ \A u, v \in users : u.name = v.name => u = v
  /\ \A c \in Conns : Online(c) /\ Me(c).id \notin raised =>
        \E u \in users : u.id = Me(c).id /\ u.name = Me(c).name /\ u.valid

\* Nothing refers to an account that is gone.
OwnersLive ==
  /\ \A m \in mail : Lives(m.from) /\ Lives(m.to)
  /\ \A i \in keys : Lives(i)
  /\ \A b \in blocks : Lives(b[1]) /\ Lives(b[2])
  /\ \A x \in DOMAIN time : time[x] > 0 => Lives(x[1])

\* "Staying connected can't dodge the cap" (ssh/server.rs): what a session
\* has been up, with what its user had banked on that day when it came, exceeds the
\* limit by less than a sweep's period; a younger session no sweep may have met yet.
OverstayBounded ==
  DailyLimit > 0 =>
    \A c \in Conns :
       LET up     == now - conn[c].since
           banked == IF conn[c].since \div Day = now \div Day THEN conn[c].had ELSE 0
       IN Online(c) /\ Me(c).id # SysopId /\ Me(c).id \notin raised /\ up > SweepPeriod
            => up + banked < DailyLimit + SweepPeriod

\* Nor can coming back: the limit bounds the time a user has on a day, by a limit for
\* each connection kept up side by side, and one for what is carried over midnight
\* ("a connected-time budget per day", README.md).  The code does not keep this: no
\* login looks at the budget.
BudgetBounds ==
  DailyLimit > 0 =>
    \A x \in DOMAIN time :
       x[1] # SysopId /\ x[1] \notin raised
         => time[x] < (Cardinality(Conns) + 1) * DailyLimit

\* A block refuses the mail of whom it names (services/blocks.rs), an admin's apart.
\* Mail that has passed the check before the block still arrives.
BlockedMailStops ==
  [][\A m \in mail' : m.id > sent => IsAdmin(ById(m.from)) \/ ~Blocked(m.to, m.from)]_vars

\* "an admin can't be blocked" (services/blocks.rs).
NoAdminBlocked ==
  \A b \in blocks : ~IsAdmin(ById(b[2]))

\* reject_user never takes an active account: "an already-active user can't be
\* dropped through this path".
ActiveIsKept == \A c \in Conns : Online(c) => Lives(Me(c).id)

\* "Manual bans are permanent" (bbsctl): until the operator lifts it.
ManualBansStay == manual => ipBan = Never

=============================================================================
