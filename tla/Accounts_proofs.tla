--------------------------- MODULE Accounts_proofs ---------------------------
(***************************************************************************)
(* What holds of the accounts for every number of connections, names and   *)
(* accounts and every limit: behind every session is an account somebody   *)
(* has let in, nothing refers to an account that is gone, and no session   *)
(* stays far beyond the budget of a day.                                   *)
(***************************************************************************)
EXTENDS Accounts, AccountRecovery, FiniteSetTheorems, TLAPS

-----------------------------------------------------------------------------
(* The inductive invariant. *)

Days     == 0 .. MaxNow \div Day
JobNames == {"idle", "register", "send", "block"}
Rows     == [id : Ids, name : Names, role : Roles, valid : BOOLEAN, banned : BOOLEAN]
States   == {Off} \cup [at : {"login"}, name : Names] \cup [at : {"proof"}, me : Rows]
            \cup [at : {"in"}, me : Rows, since : 0 .. MaxNow, had : Nat,
                  job : JobNames, with : Ids \cup {Nobody}, name : Names]

\* The types of the connections and of the banked time, which TypeOK leaves out;
\* the sweeper has sessions to look at only.
Types == /\ TypeOK
         /\ conn \in [Conns -> States]
         /\ time \in [Ids \X Days -> Nat]
         /\ \A c \in Conns : Online(c) => conn[c].since <= now
         /\ \A c \in todo : Online(c)

\* The sweeper comes round in time, and a sweep takes none.
Sched == /\ now <= due /\ due <= now + SweepPeriod
         /\ sweep # "rest" => due = now + SweepPeriod

\* A connection that has found an account: its me is a row of users as it was.
Found(c) == conn[c].at \in {"proof", "in"}

\* Names and ids are unique, and who is not a plain user without having been raised has
\* been let in from the start.
RowsHold ==
  /\ \A u, v \in users : u.name = v.name => u = v
  /\ \A u, v \in users : u.id = v.id => u = v
  /\ \A u \in users : u.id <= lastId
  /\ \A u \in users : u.id \notin raised /\ ~u.valid => u.role = "user"
  /\ \A u \in users : u.id \notin raised /\ IsAdmin(u) => u.id = SysopId

\* The row a connection has found says no more than the row of now: who was
\* valid then still is, under the same name and id.
SeenHolds == \A c \in Conns : Found(c) /\ Me(c).id \notin raised =>
  /\ ~Me(c).valid => Me(c).role = "user"
  /\ Me(c).valid => \E u \in users : u.id = Me(c).id /\ u.name = Me(c).name /\ u.valid

\* Nobody is inside who was not let in.
InsideHolds == \A c \in Conns : Online(c) /\ Me(c).id \notin raised => Me(c).valid

\* Whom the budget is for.
Bounded(i) == i # SysopId /\ i \notin raised

\* How long session c has been up is within the bound.
UpBound(c) ==
  LET up     == now - conn[c].since
      banked == IF conn[c].since \div Day = now \div Day THEN conn[c].had ELSE 0
  IN up > SweepPeriod => up + banked < DailyLimit + SweepPeriod

\* What is banked is not lost; a session that the last sweep, one period before the
\* next, is done with came after it or will be within the bound until the next.
Stay(c) ==
  /\ conn[c].had <= time[<<Me(c).id, conn[c].since \div Day>>]
  /\ IF sweep = "time" /\ c \in todo THEN UpBound(c)
     ELSE \/ conn[c].since + SweepPeriod >= due
          \/ due + (IF conn[c].since \div Day = (due - SweepPeriod) \div Day
                    THEN conn[c].had ELSE 0)
               < DailyLimit + SweepPeriod + conn[c].since

StayHolds == DailyLimit > 0 =>
  \A c \in Conns : Online(c) /\ Bounded(Me(c).id) => Stay(c)

PeopleInv == RowsHold /\ SeenHolds /\ InsideHolds

IInv == Types /\ Sched /\ PeopleInv /\ StayHolds

-----------------------------------------------------------------------------
(* What the steps do to one connection. *)

\* The connections are States, and those online have a session's fields.
LEMMA OnlineFields ==
  ASSUME Types, NEW c \in Conns
  PROVE  /\ conn[c] \in States
         /\ Online(c) => /\ Me(c) \in Rows
                         /\ conn[c].since \in 0 .. MaxNow /\ conn[c].since <= now
                         /\ conn[c].had \in Nat
                         /\ conn[c].job \in JobNames
                         /\ conn[c].with \in Ids \cup {Nobody}
                         /\ conn[c].name \in Names
         /\ Found(c) => Me(c) \in Rows
  BY DEF Types, States, Online, Found, Me, Off

\* What becomes of one connection.
LEMMA Moved ==
  ASSUME Types, NEW c \in Conns, NEW s, Becomes(c, s)
  PROVE  \A x \in Conns : conn'[x] = IF x = c THEN s ELSE conn[x]
  BY DEF Types, Becomes

\* A session that starts or ends a job stays the session it is.
LEMMA StartsJob ==
  ASSUME Types, NEW c \in Conns, Online(c), NEW job \in JobNames,
         NEW with \in Ids \cup {Nobody}, NEW n \in Names, Starts(c, job, with, n)
  PROVE  /\ \A x \in Conns \ {c} : conn'[x] = conn[x]
         /\ conn'[c] \in States
         /\ conn'[c].at = "in" /\ conn'[c].me = Me(c) /\ conn'[c].since = conn[c].since
         /\ conn'[c].had = conn[c].had
         /\ conn'[c].job = job /\ conn'[c].with = with
  <1> DEFINE s == [conn[c] EXCEPT !.job = job, !.with = with, !.name = n]
  <1>1. conn[c] \in [at : {"in"}, me : Rows, since : 0 .. MaxNow, had : Nat,
                     job : JobNames, with : Ids \cup {Nobody}, name : Names]
    BY DEF Types, States, Online, Off
  <1>2. /\ s \in [at : {"in"}, me : Rows, since : 0 .. MaxNow, had : Nat,
                  job : JobNames, with : Ids \cup {Nobody}, name : Names]
        /\ s.at = "in" /\ s.me = conn[c].me /\ s.since = conn[c].since
        /\ s.had = conn[c].had
        /\ s.job = job /\ s.with = with
    BY <1>1
  <1>3. Becomes(c, s)
    BY DEF Starts
  <1> HIDE DEF s
  <1>4. conn'[c] = s /\ (\A x \in Conns \ {c} : conn'[x] = conn[x])
    BY <1>3, Moved
  <1>5. s \in States
    BY <1>2 DEF States
  <1> QED
    BY <1>2, <1>4, <1>5 DEF Me

\* So does one that is done with it.
LEMMA DoneJob ==
  ASSUME Types, NEW c \in Conns, Online(c), Done(c)
  PROVE  /\ \A x \in Conns \ {c} : conn'[x] = conn[x]
         /\ conn'[c] \in States
         /\ conn'[c].at = "in" /\ conn'[c].me = Me(c) /\ conn'[c].since = conn[c].since
         /\ conn'[c].had = conn[c].had
         /\ conn'[c].job = "idle"
  <1>1. "idle" \in JobNames /\ Nobody \in Ids \cup {Nobody} /\ Guest \in Names
    BY AccountsAssumption DEF JobNames
  <1>2. Starts(c, "idle", Nobody, Guest)
    BY DEF Done
  <1> QED
    BY <1>1, <1>2, StartsJob

\* The steps of a session that only take up a job or are done with one.
JobStep(c) ==
  \/ \E n \in Names : AskName(c, n)
  \/ InsertUser(c)
  \/ \E u \in users : CheckMail(c, u)
  \/ InsertMail(c)
  \/ \E u \in users : AskBlock(c, u)
  \/ InsertBlock(c)

\* They leave the session its account and its start.
LEMMA JobStepStays ==
  ASSUME Types, NEW c \in Conns, JobStep(c)
  PROVE  /\ Online(c) /\ now' = now /\ time' = time /\ raised' = raised
         /\ UNCHANGED sweeper
         /\ \A x \in Conns \ {c} : conn'[x] = conn[x]
         /\ conn' \in [Conns -> States]
         /\ conn'[c].at = "in" /\ conn'[c].me = Me(c) /\ conn'[c].since = conn[c].since
         /\ conn'[c].had = conn[c].had
  <1>0. Guest \in Names /\ {"register", "send", "block"} \subseteq JobNames /\ Nobody \in Ids \cup {Nobody}
        /\ \A u \in users : u.id \in Ids \cup {Nobody}
    BY AccountsAssumption DEF JobNames, Types, TypeOK
  <1>1. ASSUME NEW s, Becomes(c, s), s \in States PROVE conn' \in [Conns -> States]
    BY <1>1 DEF Types, Becomes
  <1>2. now' = now /\ time' = time /\ raised' = raised /\ UNCHANGED sweeper
    BY DEF JobStep, AskName, InsertUser, CheckMail, InsertMail, AskBlock, InsertBlock, past
  <1>3. conn' = [conn EXCEPT ![c] = conn'[c]]
    BY DEF JobStep, AskName, InsertUser, CheckMail, InsertMail, AskBlock, InsertBlock,
           Done, Starts, Becomes, Types
  <1>4. CASE \E n \in Names : AskName(c, n)
    <2>1. PICK n \in Names : AskName(c, n)
      BY <1>4
    <2>2. Online(c) /\ Starts(c, "register", Nobody, n)
      BY <2>1 DEF AskName, Idle
    <2> QED
      BY <1>0, <1>1, <1>2, <1>3, <2>2, StartsJob DEF Becomes
  <1>5. CASE \E u \in users : CheckMail(c, u)
    <2>1. PICK u \in users : CheckMail(c, u)
      BY <1>5
    <2>2. Online(c) /\ Starts(c, "send", u.id, Guest)
      BY <2>1 DEF CheckMail, Idle
    <2> QED
      BY <1>0, <1>1, <1>2, <1>3, <1>5, <2>2, StartsJob DEF Becomes
  <1>6. CASE \E u \in users : AskBlock(c, u)
    <2>1. PICK u \in users : AskBlock(c, u)
      BY <1>6
    <2>2. Online(c) /\ Starts(c, "block", u.id, Guest)
      BY <2>1 DEF AskBlock, Idle
    <2> QED
      BY <1>0, <1>1, <1>2, <1>3, <2>2, StartsJob DEF Becomes
  <1>7. CASE InsertUser(c) \/ InsertMail(c) \/ InsertBlock(c)
    <2>1. Online(c) /\ Done(c)
      BY <1>7 DEF InsertUser, InsertMail, InsertBlock
    <2> QED
      BY <1>1, <1>2, <1>3, <2>1, DoneJob DEF Becomes
  <1> QED
    BY <1>4, <1>5, <1>6, <1>7 DEF JobStep

\* The ends of a session.
Gone(c) == Leave(c) \/ Vanish(c) \/ Kick(c) \/ (LookAt(c) /\ OverTime(c))

LEMMA Ended ==
  ASSUME Types, NEW c \in Conns, Gone(c)
  PROVE  /\ Online(c) /\ (time' = Bank(c) \/ time' = time) /\ Becomes(c, Off)
         /\ \A x \in Conns \ {c} : conn'[x] = conn[x]
         /\ conn'[c] = Off /\ Off \in States /\ Off.at = "off"
         /\ todo' = todo \ {c}
         /\ UNCHANGED <<now, users, raised, lastId, keys, blocks, ipBan, fails, sweep, due>>
  <1>1. /\ Online(c) /\ Becomes(c, Off) /\ (time' = Bank(c) \/ time' = time)
        /\ todo' = todo \ {c}
        /\ UNCHANGED <<now, users, raised, lastId, keys, blocks, ipBan, fails, sweep, due>>
    BY DEF Gone, Leave, Vanish, Kick, LookAt, Ends, Types, people, past
  <1>2. Off \in States /\ Off.at = "off"
    BY DEF States, Off
  <1> QED
    BY <1>1, <1>2, Moved

\* What the sweeper does besides.
SweepStep ==
  \/ StartSweep \/ Purge \/ FindOffender \/ AutoBan \/ ReadBans \/ EndSweep
  \/ \E c \in Conns : LookAt(c) /\ ~OverTime(c)

LEMMA Swept ==
  ASSUME Types, SweepStep
  PROVE  /\ UNCHANGED <<now, users, lastId, keys, blocks, time, fails, conn, raised>>
         /\ UNCHANGED post
         /\ ipBan' \in 0 .. Never
         /\ sweep' \in {"rest", "time", "auto", "banning", "bans", "kick"}
         /\ due' = due \/ (due' = due + SweepPeriod /\ StartSweep)
         /\ todo' \subseteq Conns /\ \A c \in todo' : Online(c)
  <1>1. /\ UNCHANGED <<now, users, lastId, keys, blocks, time, fails, conn, raised>>
        /\ UNCHANGED post
    BY DEF SweepStep, StartSweep, Purge, FindOffender, AutoBan, ReadBans, EndSweep, LookAt,
           people, past
  <1>2. ipBan' \in 0 .. Never
    BY AccountsAssumption DEF SweepStep, StartSweep, Purge, FindOffender, AutoBan, ReadBans,
           EndSweep, LookAt, Types, TypeOK, Never
  <1>3. sweep' \in {"rest", "time", "auto", "banning", "bans", "kick"}
    BY DEF SweepStep, StartSweep, Purge, FindOffender, AutoBan, ReadBans, EndSweep, LookAt,
           Types, TypeOK
  <1>4. due' = due \/ (due' = due + SweepPeriod /\ StartSweep)
    BY DEF SweepStep, StartSweep, Purge, FindOffender, AutoBan, ReadBans, EndSweep, LookAt
  <1>5. todo' \subseteq Conns /\ \A c \in todo' : Online(c)
    <2>1. todo' \subseteq todo \/ todo' \subseteq {c \in Conns : Online(c)}
      BY DEF SweepStep, StartSweep, Purge, FindOffender, AutoBan, ReadBans, EndSweep, LookAt
    <2> QED
      BY <2>1 DEF Types, TypeOK
  <1> QED
    BY <1>1, <1>2, <1>3, <1>4, <1>5

\* The sweeper ends a session, or none.
LEMMA SweepCases ==
  ASSUME Sweep
  PROVE  SweepStep \/ \E c \in Conns : Gone(c)
  BY DEF Sweep, SweepStep, Gone

-----------------------------------------------------------------------------
(* The types. *)

\* Banked time stays a natural for every account and day.
LEMMA BankTyped ==
  ASSUME Types, NEW c \in Conns, Online(c)
  PROVE  Bank(c) \in [Ids \X Days -> Nat]
  <1>1. time \in [Ids \X Days -> Nat] /\ now \in Nat
    BY AccountsAssumption DEF Types, TypeOK
  <1>2. conn[c].since \in Nat /\ conn[c].since <= now
    BY OnlineFields, AccountsAssumption
  <1>3. now - conn[c].since \in Nat
    BY <1>1, <1>2
  <1> DEFINE x == <<Me(c).id, conn[c].since \div Day>>
             g == [time EXCEPT ![x] = @ + (now - conn[c].since)]
  <1>4. Bank(c) = IF Lives(Me(c).id) THEN g ELSE time
    BY DEF Bank
  <1>5. g \in [Ids \X Days -> Nat]
    <2> HIDE DEF x
    <2>1. ASSUME x \in Ids \X Days PROVE time[x] + (now - conn[c].since) \in Nat
      BY <1>1, <1>3, <2>1
    <2> QED
      BY <1>1, <2>1
  <1> QED
    BY <1>1, <1>4, <1>5

\* Days pass in order.
LEMMA DaysPass ==
  ASSUME NEW t \in 0 .. MaxNow
  PROVE  t \div Day \in Days
  <1>1. Day \in Nat /\ Day > 0 /\ MaxNow \in Nat /\ t \in Nat /\ t <= MaxNow
    BY AccountsAssumption
  <1>2. t \div Day \in Nat /\ MaxNow \div Day \in Nat
    BY <1>1
  <1>3. t \div Day <= MaxNow \div Day
    BY <1>1
  <1> QED
    BY <1>2, <1>3 DEF Days

\* A row in place of a row.
LEMMA ReplaceTyped ==
  ASSUME Types, NEW u \in users, NEW v \in Rows, Replace(u, v)
  PROVE  users' \subseteq Rows
  BY DEF Types, TypeOK, Replace, Rows

\* A connection that is no session is none of those to look at.
LEMMA TodoStays ==
  ASSUME Types, NEW c \in Conns, ~Online(c), NEW s, conn' = conn \/ Becomes(c, s), UNCHANGED sweeper
  PROVE  \A x \in todo' : Online(x)'
  <1>1. \A x \in todo : x # c /\ x \in Conns /\ Online(x)
    BY DEF Types, TypeOK
  <1>2. \A x \in todo : conn'[x] = conn[x]
    BY <1>1, Moved
  <1> QED
    BY <1>1, <1>2 DEF Online, sweeper

\* Every step keeps the types.
LEMMA TypesKept ==
  ASSUME Types, [Next]_vars
  PROVE  Types'
  <1> USE AccountsAssumption
  <1>0. /\ users \subseteq Rows /\ now \in Nat /\ now <= MaxNow
        /\ Nobody \in Ids \cup {Nobody} /\ "idle" \in JobNames /\ Off \in States
        /\ Off.at # "in"
    BY DEF Types, TypeOK, Rows, JobNames, States, Off
  <1>1. ASSUME NEW c \in Conns, NEW n \in Names, Connect(c, n) PROVE Types'
    <2> DEFINE s == [at |-> "login", name |-> n]
    <2>1. s \in States /\ s.at # "in"
      BY DEF States
    <2>2. /\ UNCHANGED <<now, users, lastId, keys, blocks, time, ipBan, sweeper>>
          /\ conn' = conn \/ Becomes(c, s)
          /\ fails' \in 0 .. MaxFailures
          /\ ~Online(c)
      BY <1>1 DEF Connect, people, Failure, Types, TypeOK, Online
    <2> HIDE DEF s
    <2> QED
      BY <2>1, <2>2, TodoStays DEF Types, TypeOK, Becomes, Online, sweeper
  <1>2. ASSUME NEW c \in Conns, NEW u \in users, NEW proof \in {"password", "key"},
               FindUser(c, u, proof)
        PROVE  Types'
    <2> DEFINE s == [at |-> "proof", me |-> u]
    <2>1. s \in States /\ s.at # "in"
      BY <1>0 DEF States
    <2>2. /\ UNCHANGED <<now, users, lastId, keys, blocks, time, ipBan, fails, sweeper>>
          /\ Becomes(c, s) /\ ~Online(c)
      BY <1>2 DEF FindUser, people, Online
    <2> HIDE DEF s
    <2> QED
      BY <2>1, <2>2, TodoStays DEF Types, TypeOK, Becomes, Online, sweeper
  <1>3. ASSUME NEW c \in Conns, Enter(c) PROVE Types'
    <2>1. Me(c) \in Rows
      BY <1>3, OnlineFields DEF Enter, Found
    <2>7. time[<<Me(c).id, now \div Day>>] \in Nat
      BY <2>1, DaysPass DEF Types, TypeOK, Rows
    <2>2. In(Me(c)) \in States /\ In(Me(c)).since = now
      BY <1>0, <2>1, <2>7 DEF In, States
    <2>3. /\ UNCHANGED <<now, users, lastId, keys, blocks, time, ipBan, fails, sweeper>>
          /\ Becomes(c, In(Me(c))) /\ ~Online(c)
      BY <1>3 DEF Enter, people, Online
    <2>4. \A x \in Conns : conn'[x] = IF x = c THEN In(Me(c)) ELSE conn[x]
      BY <2>3, Moved
    <2>5. conn' \in [Conns -> States]
      BY <2>2, <2>3 DEF Becomes, Types
    <2>6. \A x \in Conns : Online(x)' => (conn'[x].since <= now)
      BY <1>0, <2>2, <2>4 DEF Types, Online
    <2> QED
      BY <2>3, <2>5, <2>6, TodoStays DEF Types, TypeOK, sweeper
  <1>4. ASSUME NEW c \in Conns, Refuse(c) PROVE Types'
    <2>1. /\ UNCHANGED <<now, users, lastId, keys, blocks, time, ipBan, sweeper>>
          /\ Becomes(c, Off) /\ ~Online(c)
          /\ fails' \in 0 .. MaxFailures
      BY <1>4 DEF Refuse, people, Failure, Types, TypeOK, Online
    <2> QED
      BY <1>0, <2>1, TodoStays DEF Types, TypeOK, Becomes, Online, sweeper
  <1>5. ASSUME NEW c \in Conns, Gone(c) PROVE Types'
    <2>1. conn' \in [Conns -> States] /\ (\A x \in Conns : Online(x)' => conn'[x] = conn[x] /\ Online(x))
      BY <1>0, <1>5, Ended DEF Types, Online, Becomes
    <2>2. time' \in [Ids \X Days -> Nat]
      BY <1>5, Ended, BankTyped DEF Types
    <2>3. todo' \subseteq Conns /\ \A x \in todo' : Online(x)'
      BY <1>5, Ended DEF Types, TypeOK, Online
    <2> QED
      BY <1>5, <2>1, <2>2, <2>3, Ended DEF Types, TypeOK
  <1>6. ASSUME NEW c \in Conns, JobStep(c) PROVE Types'
    <2>1. /\ users' \subseteq Rows /\ lastId' \in 2 .. MaxIds
      <3>1. CASE InsertUser(c)
        <4>1. Online(c) /\ conn[c].name \in Names
          BY <1>6, JobStepStays, OnlineFields
        <4>2. CASE Named(conn[c].name) = {}
          <5>1. lastId < MaxIds /\ lastId' = lastId + 1
                /\ users' = users \cup {Account(lastId + 1, conn[c].name, "user", ~RequireValidation)}
            BY <3>1, <4>2 DEF InsertUser
          <5>2. lastId + 1 \in Ids /\ lastId + 1 \in 2 .. MaxIds
            BY <5>1 DEF Types, TypeOK, Ids
          <5>3. Account(lastId + 1, conn[c].name, "user", ~RequireValidation) \in Rows
            BY <4>1, <5>2 DEF Account, Rows, Roles
          <5> QED
            BY <1>0, <5>1, <5>2, <5>3
        <4> QED
          BY <1>0, <3>1, <4>2 DEF InsertUser, Types, TypeOK
      <3>2. CASE ~InsertUser(c)
        <4>1. UNCHANGED people
          BY <1>6, <3>2 DEF JobStep, AskName, CheckMail, InsertMail, AskBlock, InsertBlock
        <4> QED
          BY <1>0, <4>1 DEF people, Types, TypeOK
      <3> QED
        BY <3>1, <3>2
    <2>2. blocks' \subseteq Ids \X Ids
      <3>1. CASE InsertBlock(c)
        <4>1. Lives(conn[c].with) => conn[c].with \in Ids
          BY <1>0 DEF Lives, Rows
        <4>2. Me(c).id \in Ids
          BY <1>6, JobStepStays, OnlineFields DEF Rows
        <4> QED
          BY <3>1, <4>1, <4>2 DEF InsertBlock, Types, TypeOK
      <3>2. CASE ~InsertBlock(c)
        BY <1>6, <3>2 DEF JobStep, AskName, InsertUser, CheckMail, InsertMail, AskBlock, Types, TypeOK
      <3> QED
        BY <3>1, <3>2
    <2>3. UNCHANGED <<now, keys, time, ipBan, fails, sweeper>>
      BY <1>6 DEF JobStep, AskName, InsertUser, CheckMail, InsertMail, AskBlock, InsertBlock, people
    <2>4. \A x \in Conns : Online(x)' => conn'[x].since <= now
      BY <1>6, JobStepStays DEF Types, Online
    <2> QED
      BY <1>6, <2>1, <2>2, <2>3, <2>4, JobStepStays DEF Types, TypeOK, Rows, Online, sweeper
  <1>7. ASSUME NEW c \in Conns,
               \/ \E m \in mail : ReadMail(c, m) \/ DeleteMail(c, m)
               \/ \E i \in Ids : Unblock(c, i)
        PROVE  Types'
    <2>1. /\ UNCHANGED <<now, users, lastId, keys, time, ipBan, fails, sweeper, conn>>
          /\ blocks' \subseteq blocks
      BY <1>7 DEF ReadMail, DeleteMail, Unblock, people
    <2> QED
      BY <2>1 DEF Types, TypeOK, Online, sweeper
  <1>8. ASSUME NEW u \in users, Validate(u) \/ SetBan(u) \/ \E r \in Roles : SetRole(u, r)
        PROVE  Types'
    <2>1. /\ [u EXCEPT !.valid = TRUE] \in Rows
          /\ [u EXCEPT !.banned = ~@] \in Rows
          /\ \A r \in Roles : [u EXCEPT !.role = r] \in Rows
      BY <1>0 DEF Rows
    <2>2. /\ users' \subseteq Rows
          /\ UNCHANGED <<now, lastId, keys, blocks, time, ipBan, fails, sweeper, conn>>
      BY <1>8, <2>1, ReplaceTyped DEF Validate, SetBan, SetRole
    <2> QED
      BY <2>2 DEF Types, TypeOK, Online, Rows, sweeper
  <1>9. ASSUME NEW u \in users, Reject(u) PROVE Types'
    <2>1. time' \in [Ids \X Days -> Nat]
      BY <1>9 DEF Reject, Types
    <2> QED
      BY <1>9, <2>1 DEF Reject, Types, TypeOK, Online, sweeper
  <1>10. CASE EditKeys
    BY <1>0, <1>10 DEF EditKeys, AddKey, RemoveKey, Types, TypeOK, Online, sweeper
  <1>11. CASE BanIp \/ UnbanIp
    <2>1. ipBan' \in 0 .. Never
      BY <1>0, <1>11 DEF BanIp, UnbanIp, Types, TypeOK, Never
    <2>2. UNCHANGED <<now, users, lastId, keys, blocks, time, fails, conn, sweeper>>
      BY <1>11 DEF BanIp, UnbanIp, people
    <2> QED
      BY <2>1, <2>2 DEF Types, TypeOK, Online, sweeper
  <1>14. CASE SweepStep
    <2>1. due' \in Nat
      BY <1>14, Swept DEF Types, TypeOK
    <2> QED
      BY <1>14, <2>1, Swept DEF Types, TypeOK, Online
  <1>12. CASE Tick
    <2>1. /\ now' \in 0 .. MaxNow /\ now <= now' /\ now' \in Nat
          /\ UNCHANGED <<users, lastId, keys, blocks, time, ipBan, fails, conn, sweeper>>
      BY <1>0, <1>12 DEF Tick, people
    <2>2. \A x \in Conns : Online(x)' => conn'[x].since <= now'
      BY <1>0, <2>1, OnlineFields DEF Online
    <2> QED
      BY <2>1, <2>2 DEF Types, TypeOK, Online, sweeper
  <1>13. CASE UNCHANGED vars
    BY <1>13 DEF vars, people, post, past, sweeper, Types, TypeOK, Online
  <1> QED
    BY <1>1, <1>2, <1>3, <1>4, <1>5, <1>6, <1>7, <1>8, <1>9, <1>10, <1>11, <1>12, <1>13, <1>14,
       SweepCases DEF Next, ConnStep, Gone, Police, Promote, JobStep

-----------------------------------------------------------------------------
(* The accounts behind the sessions. *)

\* What is a session after a step was one before it, that came at the same tick with
\* the same time banked.
SameSession(x) ==
  conn'[x].at = "in" => /\ Online(x) /\ conn'[x].since = conn[x].since
                         /\ conn'[x].had = conn[x].had

\* No step takes a found connection's row from it, or gives it another.
LEMMA FoundStays ==
  ASSUME Types, Types', Next, NEW x \in Conns, Found(x)'
  PROVE  \/ Found(x) /\ conn'[x].me = Me(x) /\ SameSession(x)
         \/ /\ Enter(x) /\ Found(x) /\ conn'[x].me = Me(x) /\ conn'[x].since = now
            /\ conn'[x].had = time[<<Me(x).id, now \div Day>>]
         \/ \E u \in users, proof \in {"password", "key"} : FindUser(x, u, proof) /\ conn'[x].me = u
  <1>0. ASSUME conn'[x] = conn[x]
        PROVE  Found(x) /\ conn'[x].me = Me(x) /\ SameSession(x)
    BY <1>0 DEF Found, Me, Online, SameSession
  <1>1. ASSUME NEW c \in Conns, NEW n \in Names, Connect(c, n) PROVE conn'[x] = conn[x]
    <2>1. \/ conn' = conn
          \/ Becomes(c, [at |-> "login", name |-> n])
      BY <1>1 DEF Connect
    <2>2. CASE Becomes(c, [at |-> "login", name |-> n])
      BY <2>2, Moved DEF Found
    <2> QED
      BY <2>1, <2>2
  <1>2. ASSUME NEW c \in Conns, NEW u \in users, NEW proof \in {"password", "key"},
               FindUser(c, u, proof), c # x
        PROVE  conn'[x] = conn[x]
    BY <1>2, Moved DEF FindUser
  <1>3. ASSUME NEW u \in users, NEW proof \in {"password", "key"}, FindUser(x, u, proof)
        PROVE  conn'[x].me = u
    BY <1>3, Moved DEF FindUser
  <1>4. ASSUME NEW c \in Conns, Enter(c), c # x PROVE conn'[x] = conn[x]
    BY <1>4, Moved DEF Enter
  <1>5. ASSUME Enter(x) PROVE /\ Found(x) /\ conn'[x].me = Me(x) /\ conn'[x].since = now
                              /\ conn'[x].had = time[<<Me(x).id, now \div Day>>]
    <2>1. conn'[x] = In(Me(x)) /\ Found(x)
      BY <1>5, Moved DEF Enter, Found
    <2> QED
      BY <2>1 DEF In
  <1>6. ASSUME NEW c \in Conns, Refuse(c) \/ Gone(c) PROVE conn'[x] = conn[x]
    <2>1. Becomes(c, Off)
      BY <1>6, Ended DEF Refuse
    <2> QED
      BY <2>1, Moved DEF Found, Off
  <1>7. ASSUME NEW c \in Conns, JobStep(c)
        PROVE  Found(x) /\ conn'[x].me = Me(x) /\ SameSession(x)
    BY <1>0, <1>7, JobStepStays DEF Found, Online, SameSession
  <1>8. ASSUME NEW c \in Conns,
               \/ \E m \in mail : ReadMail(c, m) \/ DeleteMail(c, m)
               \/ \E i \in Ids : Unblock(c, i)
        PROVE  conn' = conn
    BY <1>8 DEF ReadMail, DeleteMail, Unblock
  <1>9. CASE Police \/ Promote \/ EditKeys \/ SweepStep \/ Tick
    <2>1. conn' = conn
      BY <1>9, Swept DEF Police, Promote, EditKeys, Tick, Validate, Reject, SetBan, BanIp, UnbanIp, SetRole, AddKey, RemoveKey
    <2> QED
      BY <1>0, <2>1
  <1> QED
    BY <1>0, <1>1, <1>2, <1>3, <1>4, <1>5, <1>6, <1>7, <1>8, <1>9, SweepCases
       DEF Next, ConnStep, Gone, JobStep

\* What the steps do to the rows of users: a row keeps its name and id, and the
\* stamp of its validation; only one without the stamp is deleted; a new name
\* is a plain user's; a role that changes is remembered.
LEMMA RowsMove ==
  ASSUME Types, Next
  PROVE  /\ raised \subseteq raised' /\ lastId <= lastId'
         /\ \/ users' = users
            \/ \E u \in users, v \in Rows :
                 /\ users' = (users \ {u}) \cup {v}
                 /\ v.id = u.id /\ v.name = u.name
                 /\ u.valid => v.valid
                 /\ v.role = u.role \/ u.id \in raised'
            \/ \E u \in users : ~u.valid /\ users' = users \ {u}
            \/ \E v \in Rows : /\ users' = users \cup {v} /\ v.role = "user"
                               /\ v.id = lastId' /\ lastId < lastId'
                               /\ \A u \in users : u.name # v.name
  <1>0. users \subseteq Rows
    BY DEF Types, TypeOK, Rows
  <1>1. ASSUME NEW u \in users, Validate(u) \/ SetBan(u) \/ \E r \in Roles : SetRole(u, r)
        PROVE  \E v \in Rows : /\ users' = (users \ {u}) \cup {v}
                               /\ v.id = u.id /\ v.name = u.name
                               /\ u.valid => v.valid
                               /\ v.role = u.role \/ u.id \in raised'
    <2>1. CASE Validate(u)
      <3> DEFINE v == [u EXCEPT !.valid = TRUE]
      <3>1. v \in Rows /\ v.id = u.id /\ v.name = u.name /\ v.valid /\ v.role = u.role
        BY <1>0 DEF Rows
      <3>2. users' = (users \ {u}) \cup {v}
        BY <2>1 DEF Validate, Replace
      <3> QED
        BY <3>1, <3>2
    <2>2. CASE SetBan(u)
      <3> DEFINE v == [u EXCEPT !.banned = ~@]
      <3>1. v \in Rows /\ v.id = u.id /\ v.name = u.name /\ v.valid = u.valid /\ v.role = u.role
        BY <1>0 DEF Rows
      <3>2. users' = (users \ {u}) \cup {v}
        BY <2>2 DEF SetBan, Replace
      <3> QED
        BY <3>1, <3>2
    <2>3. ASSUME NEW r \in Roles, SetRole(u, r)
          PROVE  \E v \in Rows : /\ users' = (users \ {u}) \cup {v}
                                 /\ v.id = u.id /\ v.name = u.name
                                 /\ u.valid => v.valid
                                 /\ u.id \in raised'
      <3> DEFINE v == [u EXCEPT !.role = r]
      <3>1. v \in Rows /\ v.id = u.id /\ v.name = u.name /\ v.valid = u.valid
        BY <1>0 DEF Rows
      <3>2. users' = (users \ {u}) \cup {v} /\ u.id \in raised'
        BY <2>3 DEF SetRole, Replace
      <3> QED
        BY <3>1, <3>2
    <2> QED
      BY <1>1, <2>1, <2>2, <2>3
  <1>2. ASSUME NEW c \in Conns, InsertUser(c)
        PROVE  \/ users' = users
               \/ \E v \in Rows : /\ users' = users \cup {v} /\ v.role = "user"
                                  /\ v.id = lastId' /\ lastId < lastId'
                                  /\ \A u \in users : u.name # v.name
    <2>1. CASE Named(conn[c].name) = {}
      <3> DEFINE v == Account(lastId + 1, conn[c].name, "user", ~RequireValidation)
      <3>1. users' = users \cup {v} /\ lastId < MaxIds /\ lastId' = lastId + 1
        BY <1>2, <2>1 DEF InsertUser
      <3>2. lastId + 1 \in Ids /\ conn[c].name \in Names /\ lastId < lastId + 1
        BY <1>2, <3>1, OnlineFields, AccountsAssumption DEF InsertUser, Types, TypeOK, Ids
      <3>3. v \in Rows /\ v.role = "user" /\ v.name = conn[c].name /\ v.id = lastId + 1
        BY <3>2, AccountsAssumption DEF Account, Rows, Roles
      <3>4. \A u \in users : u.name # conn[c].name
        BY <2>1 DEF Named
      <3> HIDE DEF v
      <3> QED
        BY <3>1, <3>2, <3>3, <3>4
    <2> QED
      BY <1>2, <2>1 DEF InsertUser
  <1>3. ASSUME NEW u \in users, Reject(u) PROVE ~u.valid /\ users' = users \ {u}
    BY <1>3 DEF Reject
  <1>4. raised \subseteq raised'
    BY DEF Next, ConnStep, Police, Promote, EditKeys, Sweep, StartSweep, LookAt, Kick, Ends, Purge,
           FindOffender, AutoBan, ReadBans, EndSweep, Tick, Vanish, Validate,
           Reject, SetBan, BanIp, UnbanIp, SetRole, AddKey, RemoveKey, Connect, FindUser, Enter,
           Refuse, Leave, AskName, InsertUser, CheckMail, InsertMail, ReadMail, DeleteMail,
           AskBlock, InsertBlock, Unblock, past
  <1>6. lastId <= lastId'
    <2>1. lastId' = lastId \/ \E c \in Conns : InsertUser(c)
      BY DEF Next, ConnStep, Police, Promote, EditKeys, Sweep, StartSweep, LookAt, Kick, Ends, Purge,
           FindOffender, AutoBan, ReadBans, EndSweep, Tick, Vanish, Validate,
           Reject, SetBan, BanIp, UnbanIp, SetRole, AddKey, RemoveKey, Connect, FindUser, Enter,
           Refuse, Leave, AskName, InsertUser, CheckMail, InsertMail, ReadMail, DeleteMail,
           AskBlock, InsertBlock, Unblock, people
    <2> QED
      BY <2>1 DEF InsertUser, Types, TypeOK
  <1>5. \/ users' = users
        \/ \E u \in users : Validate(u) \/ SetBan(u) \/ (\E r \in Roles : SetRole(u, r)) \/ Reject(u)
        \/ \E c \in Conns : InsertUser(c)
    BY DEF Next, ConnStep, Police, Promote, EditKeys, Sweep, StartSweep, LookAt, Kick, Ends, Purge,
           FindOffender, AutoBan, ReadBans, EndSweep, Tick, Vanish,
           BanIp, UnbanIp, AddKey, RemoveKey, Connect, FindUser, Enter,
           Refuse, Leave, AskName, CheckMail, InsertMail, ReadMail, DeleteMail,
           AskBlock, InsertBlock, Unblock, people
  <1> QED
    BY <1>1, <1>2, <1>3, <1>4, <1>5, <1>6

\* Every step keeps the accounts behind the sessions.
LEMMA PeopleKept ==
  ASSUME Types, Types', PeopleInv, [Next]_vars
  PROVE  PeopleInv'
  <1>1. CASE UNCHANGED vars
    BY <1>1 DEF vars, people, past, PeopleInv, RowsHold, SeenHolds, InsideHolds, Found, Me, Online,
                IsAdmin
  <1>2. CASE Next
    <2>0. /\ users \subseteq Rows /\ raised \subseteq raised'
          /\ lastId <= lastId' /\ lastId \in Nat /\ lastId' \in Nat
          /\ \A u \in Rows : u.id \in Nat
      BY <1>2, RowsMove DEF Types, TypeOK, Rows, Ids
    <2>1. RowsHold'
      <3>1. CASE users' = users
        BY <2>0, <3>1 DEF PeopleInv, RowsHold, IsAdmin
      <3>2. ASSUME NEW u \in users, NEW v \in Rows,
                   users' = (users \ {u}) \cup {v}, v.id = u.id, v.name = u.name,
                   u.valid => v.valid, v.role = u.role \/ u.id \in raised'
            PROVE  RowsHold'
        BY <2>0, <3>2 DEF PeopleInv, RowsHold, IsAdmin
      <3>3. ASSUME NEW u \in users, users' = users \ {u} PROVE RowsHold'
        BY <2>0, <3>3 DEF PeopleInv, RowsHold, IsAdmin
      <3>4. ASSUME NEW v \in Rows, users' = users \cup {v}, v.role = "user",
                   v.id = lastId', lastId < lastId',
                   \A u \in users : u.name # v.name
            PROVE  RowsHold'
        <4>1. \A u \in users : u.id \in Nat /\ u.id <= lastId /\ u.id # v.id /\ u.id <= lastId'
          BY <2>0, <3>4 DEF PeopleInv, RowsHold
        <4>2. \A u, w \in users' : u.id = w.id => u = w
          BY <3>4, <4>1 DEF PeopleInv, RowsHold
        <4>3. \A u \in users' : u.id <= lastId'
          BY <2>0, <3>4, <4>1
        <4>4. \A u, w \in users' : u.name = w.name => u = w
          BY <3>4 DEF PeopleInv, RowsHold
        <4> QED
          BY <2>0, <3>4, <4>2, <4>3, <4>4 DEF PeopleInv, RowsHold, IsAdmin
      <3> QED
        BY <1>2, <3>1, <3>2, <3>3, <3>4, RowsMove
    <2>2. ASSUME NEW u \in users, u.valid
          PROVE  \E v \in users' : v.id = u.id /\ v.name = u.name /\ v.valid
      BY <1>2, <2>2, RowsMove
    <2>3. ASSUME NEW x \in Conns, Found(x)', conn'[x].me.id \notin raised'
          PROVE  /\ ~conn'[x].me.valid => conn'[x].me.role = "user"
                 /\ conn'[x].me.valid =>
                      \E v \in users' : v.id = conn'[x].me.id /\ v.name = conn'[x].me.name /\ v.valid
      <3>1. CASE Found(x) /\ conn'[x].me = Me(x)
        BY <2>0, <2>2, <2>3, <3>1 DEF PeopleInv, SeenHolds
      <3>2. ASSUME NEW u \in users, conn'[x].me = u
            PROVE  /\ ~u.valid => u.role = "user"
                   /\ u.valid => \E v \in users' : v.id = u.id /\ v.name = u.name /\ v.valid
        BY <2>0, <2>2, <2>3, <3>2 DEF PeopleInv, RowsHold
      <3> QED
        BY <1>2, <2>3, <3>1, <3>2, FoundStays
    <2>4. ASSUME NEW x \in Conns, Online(x)', conn'[x].me.id \notin raised'
          PROVE  conn'[x].me.valid
      <3>0. Found(x)'
        BY <2>4 DEF Found, Online
      <3>1. CASE SameSession(x) /\ conn'[x].me = Me(x)
        BY <2>0, <2>4, <3>1 DEF PeopleInv, InsideHolds, SameSession, Online
      <3>2. CASE Enter(x) /\ Found(x) /\ conn'[x].me = Me(x)
        <4>1. IsValidated(Me(x)) /\ Me(x) \in Rows /\ Me(x).id \notin raised
          BY <2>0, <2>4, <3>2, OnlineFields DEF Enter, MayEnter
        <4>2. ~Me(x).valid => Me(x).role = "user"
          BY <3>2, <4>1 DEF PeopleInv, SeenHolds
        <4> QED
          BY <3>2, <4>1, <4>2 DEF IsValidated, IsAdmin, IsGuest, Rows
      <3>3. ASSUME NEW u \in users, NEW proof \in {"password", "key"}, FindUser(x, u, proof)
            PROVE  FALSE
        BY <2>4, <3>3, Moved DEF FindUser, Online
      <3> QED
        BY <1>2, <2>4, <3>0, <3>1, <3>2, <3>3, FoundStays
    <2>5. SeenHolds' /\ InsideHolds'
      BY <2>3, <2>4 DEF SeenHolds, InsideHolds, Me
    <2> QED
      BY <2>1, <2>5 DEF PeopleInv
  <1> QED
    BY <1>1, <1>2

\* The property follows from the invariant.
LEMMA PeopleSuffice ==
  ASSUME PeopleInv
  PROVE  SessionsHaveAccounts
  BY DEF PeopleInv, RowsHold, SeenHolds, InsideHolds, SessionsHaveAccounts, Found, Online

-----------------------------------------------------------------------------
(* The budget. *)

\* So do the days in between.
LEMMA DaysBetween ==
  ASSUME NEW a \in Nat, NEW b \in Nat, NEW c \in Nat, a <= b, b <= c, a \div Day = c \div Day
  PROVE  a \div Day = b \div Day
  <1>1. Day \in Nat /\ Day > 0
    BY AccountsAssumption
  <1>2. a \div Day <= b \div Day /\ b \div Day <= c \div Day
    BY <1>1
  <1>3. a \div Day \in Nat /\ b \div Day \in Nat /\ c \div Day \in Nat
    BY <1>1
  <1> QED
    BY <1>2, <1>3

\* Whom the sweeper finds up and not over time is within the limit with what is banked.
LEMMA WithinLimit ==
  ASSUME Types, PeopleInv, DailyLimit > 0, NEW c \in Conns, Online(c), ~OverTime(c),
         Bounded(Me(c).id)
  PROVE  time[<<Me(c).id, now \div Day>>] + (now - conn[c].since) < DailyLimit
  <1>1. PICK u \in users : u.id = Me(c).id /\ u.name = Me(c).name
    BY PeopleSuffice DEF SessionsHaveAccounts, Bounded
  <1>2. ~IsAdmin(u)
    BY <1>1 DEF PeopleInv, RowsHold, Bounded
  <1>3. ~(Spent(c, u) >= DailyLimit)
    BY <1>1, <1>2 DEF OverTime, Named
  <1>4. Spent(c, u) = time[<<Me(c).id, now \div Day>>] + (now - conn[c].since)
    BY <1>1 DEF Spent
  <1>5. /\ now \in 0 .. MaxNow /\ now \in Nat /\ time \in [Ids \X Days -> Nat] /\ Me(c).id \in Ids
        /\ conn[c].since \in Nat /\ conn[c].since <= now
    BY OnlineFields, AccountsAssumption DEF Types, TypeOK, Rows
  <1>6. time[<<Me(c).id, now \div Day>>] \in Nat
    BY <1>5, DaysPass
  <1> QED
    BY <1>3, <1>4, <1>5, <1>6, AccountsAssumption

\* The rest of the steps takes no time, and leaves the sweeper alone.
LEMMA SweeperRests ==
  ASSUME [Next]_vars, ~Tick, ~Sweep, \A c \in Conns : ~Leave(c) /\ ~Vanish(c)
  PROVE  now' = now /\ UNCHANGED sweeper
  BY DEF Next, ConnStep, Police, Promote, EditKeys, Validate, Reject, SetBan, BanIp, UnbanIp,
           SetRole, AddKey, RemoveKey, Connect, FindUser, Enter, Refuse, AskName, InsertUser,
           CheckMail, InsertMail, ReadMail, DeleteMail, AskBlock, InsertBlock, Unblock, vars

\* The sweeper keeps its time.
LEMMA SchedKept ==
  ASSUME Types, Types', Sched, [Next]_vars
  PROVE  Sched'
  <1>0. now \in Nat /\ due \in Nat /\ SweepPeriod \in Nat /\ SweepPeriod > 0
    BY AccountsAssumption DEF Types, TypeOK
  <1>1. CASE StartSweep
    BY <1>0, <1>1 DEF StartSweep, Sched
  <1>2. CASE Tick
    BY <1>0, <1>2 DEF Tick, Sched, sweeper
  <1>3. CASE now' = now /\ due' = due /\ (sweep' # "rest" => sweep # "rest")
    BY <1>3 DEF Sched
  <1>4. ASSUME NEW c \in Conns, Gone(c)
        PROVE  now' = now /\ due' = due /\ (sweep' # "rest" => sweep # "rest")
    BY <1>4, Ended
  <1>5. CASE SweepStep /\ ~StartSweep
    BY <1>3, <1>5, Swept DEF SweepStep, Purge, FindOffender, AutoBan, ReadBans, EndSweep, LookAt
  <1>6. CASE ~Tick /\ ~Sweep /\ \A c \in Conns : ~Leave(c) /\ ~Vanish(c)
    <2>1. now' = now /\ UNCHANGED sweeper
      BY <1>6, SweeperRests
    <2> QED
      BY <1>3, <2>1 DEF sweeper
  <1> QED
    BY <1>1, <1>2, <1>3, <1>4, <1>5, <1>6, SweepCases DEF Gone

\* What is banked for an account stays banked until the account is rejected.
LEMMA TimeGrows ==
  ASSUME Types, Types', [Next]_vars, NEW i \in Ids, NEW d \in Days,
         \A u \in users : Reject(u) => u.id # i
  PROVE  time[<<i, d>>] <= time'[<<i, d>>]
  <1>0. /\ time \in [Ids \X Days -> Nat] /\ time' \in [Ids \X Days -> Nat]
        /\ <<i, d>> \in Ids \X Days
        /\ time[<<i, d>>] \in Nat /\ time'[<<i, d>>] \in Nat
    BY DEF Types
  <1>1. ASSUME NEW c \in Conns, Online(c), time' = Bank(c)
        PROVE  time[<<i, d>>] <= time'[<<i, d>>]
    <2> DEFINE y == <<Me(c).id, conn[c].since \div Day>>
    <2>1. now - conn[c].since \in Nat
      BY <1>1, OnlineFields, AccountsAssumption DEF Types, TypeOK
    <2>2. \/ time' = time
          \/ time' = [time EXCEPT ![y] = @ + (now - conn[c].since)]
      BY <1>1 DEF Bank
    <2> DEFINE up == now - conn[c].since
    <2> HIDE DEF y, up
    <2>3. time' = time \/ time' = [time EXCEPT ![y] = @ + up]
      BY <2>2 DEF up
    <2>4. up \in Nat
      BY <2>1 DEF up
    <2>5. CASE y = <<i, d>> /\ time' = [time EXCEPT ![y] = @ + up]
      BY <1>0, <2>4, <2>5
    <2>6. CASE y # <<i, d>> /\ time' = [time EXCEPT ![y] = @ + up]
      BY <1>0, <2>6
    <2> QED
      BY <1>0, <2>3, <2>5, <2>6
  <1>2. ASSUME NEW u \in users, Reject(u) PROVE time'[<<i, d>>] = time[<<i, d>>]
    <2>1. time' = [x \in DOMAIN time |-> IF x[1] = u.id THEN 0 ELSE time[x]] /\ u.id # i
      BY <1>2 DEF Reject
    <2> QED
      BY <1>0, <2>1
  <1>3. \/ time' = time
        \/ \E c \in Conns : Online(c) /\ time' = Bank(c)
        \/ \E u \in users : Reject(u)
    <2>1. ASSUME NEW c \in Conns, Gone(c) PROVE Online(c) /\ (time' = Bank(c) \/ time' = time)
      BY <2>1, Ended
    <2>2. CASE SweepStep
      BY <2>2, Swept
    <2>3. CASE ~Sweep /\ \A c \in Conns : ~Leave(c) /\ ~Vanish(c)
      BY <2>3 DEF Next, ConnStep, Police, Promote, EditKeys, Tick, Validate, SetBan, BanIp, UnbanIp,
           SetRole, AddKey, RemoveKey, Connect, FindUser, Enter, Refuse, AskName, InsertUser,
           CheckMail, InsertMail, ReadMail, DeleteMail, AskBlock, InsertBlock, Unblock, vars
    <2> QED
      BY <2>1, <2>2, <2>3, SweepCases DEF Gone
  <1> QED
    BY <1>0, <1>1, <1>2, <1>3

\* A session that is bounded has an account that nobody rejects.
LEMMA HeldAccount ==
  ASSUME Types, PeopleInv, NEW c \in Conns, Online(c), Me(c).id \notin raised,
         NEW u \in users, Reject(u)
  PROVE  u.id # Me(c).id
  <1>1. PICK v \in users : v.id = Me(c).id /\ v.valid
    BY PeopleSuffice DEF SessionsHaveAccounts
  <1>2. ~u.valid
    BY DEF Reject
  <1> QED
    BY <1>1, <1>2 DEF PeopleInv, RowsHold

\* Whoever holds to Stay is within the bound now.
LEMMA StaySuffices ==
  ASSUME Types, Sched, NEW c \in Conns, Online(c), Stay(c)
  PROVE  UpBound(c)
  <1> DEFINE s == due - SweepPeriod
             from == conn[c].since
             had == conn[c].had
             b == IF from \div Day = now \div Day THEN had ELSE 0
             a == IF from \div Day = s \div Day THEN had ELSE 0
  <1>1. /\ now \in Nat /\ due \in Nat /\ SweepPeriod \in Nat /\ DailyLimit \in Nat
        /\ from \in Nat /\ from <= now /\ had \in Nat
    BY OnlineFields, AccountsAssumption DEF Types, TypeOK
  <1>2. now <= due /\ due <= now + SweepPeriod
    BY DEF Sched
  <1>3. CASE sweep = "time" /\ c \in todo
    BY <1>3 DEF Stay
  <1>4. CASE from + SweepPeriod >= due
    <2>1. ~(now - from > SweepPeriod)
      BY <1>1, <1>2, <1>4
    <2> QED
      BY <2>1 DEF UpBound
  <1>5. CASE due + a < DailyLimit + SweepPeriod + from /\ ~(from + SweepPeriod >= due)
    <2>1. s \in Nat /\ from <= s /\ s <= now
      BY <1>1, <1>2, <1>5
    <2>2. from \div Day = now \div Day => from \div Day = s \div Day
      BY <1>1, <2>1, DaysBetween
    <2>3. b <= a /\ a \in Nat /\ b \in Nat
      BY <1>1, <2>2
    <2> HIDE DEF a, b, from
    <2>4. (now - from) + b < DailyLimit + SweepPeriod
      BY <1>1, <1>2, <1>5, <2>3
    <2> QED
      BY <2>4 DEF UpBound, b, from
  <1> QED
    BY <1>3, <1>4, <1>5 DEF Stay

\* Whom the sweeper lets pass is within the bound until it comes again.
LEMMA PassedStays ==
  ASSUME Types, Sched, PeopleInv, DailyLimit > 0, NEW c \in Conns, Online(c), Bounded(Me(c).id),
         conn[c].had <= time[<<Me(c).id, conn[c].since \div Day>>],
         sweep = "time", ~OverTime(c)
  PROVE  due + (IF conn[c].since \div Day = (due - SweepPeriod) \div Day
                THEN conn[c].had ELSE 0) < DailyLimit + SweepPeriod + conn[c].since
  <1> DEFINE spent == time[<<Me(c).id, now \div Day>>]
             a == IF conn[c].since \div Day = now \div Day THEN conn[c].had ELSE 0
  <1>1. /\ now \in Nat /\ due \in Nat /\ SweepPeriod \in Nat /\ DailyLimit \in Nat
        /\ conn[c].since \in Nat /\ conn[c].had \in Nat /\ Me(c).id \in Ids
        /\ now \in 0 .. MaxNow
    BY OnlineFields, AccountsAssumption DEF Types, TypeOK, Rows
  <1>2. due = now + SweepPeriod /\ due - SweepPeriod = now
    BY <1>1 DEF Sched
  <1>3. spent + (now - conn[c].since) < DailyLimit
    BY WithinLimit
  <1>4. spent \in Nat
    BY <1>1, DaysPass DEF Types
  <1>5. a <= spent /\ a \in Nat
    BY <1>1, <1>4
  <1> HIDE DEF a, spent
  <1>6. due + a < DailyLimit + SweepPeriod + conn[c].since
    BY <1>1, <1>2, <1>3, <1>4, <1>5
  <1> QED
    BY <1>2, <1>6 DEF a

\* Every step keeps the sessions' stays.
LEMMA StayKept ==
  ASSUME Types, Types', Sched, Sched', PeopleInv, StayHolds, [Next]_vars
  PROVE  StayHolds'
  <1> SUFFICES ASSUME DailyLimit > 0, NEW x \in Conns, Online(x)', Bounded(Me(x).id)'
               PROVE  Stay(x)'
    BY DEF StayHolds
  <1>0. raised \subseteq raised'
    <2>1. CASE UNCHANGED vars
      BY <2>1 DEF vars, past
    <2> QED
      BY <2>1, RowsMove
  <1>1. CASE UNCHANGED vars
    <2>1. Stay(x)
      BY <1>1 DEF vars, past, StayHolds, Online, Bounded, Me
    <2> QED
      BY <1>1, <2>1 DEF vars, sweeper, Stay, UpBound, Me
  <1>2. CASE Enter(x) /\ conn'[x].since = now /\ conn'[x].me = Me(x)
             /\ conn'[x].had = time[<<Me(x).id, now \div Day>>]
    <2>1. UNCHANGED <<now, time, sweeper>>
      BY <1>2 DEF Enter
    <2>2. ~Online(x)
      BY <1>2 DEF Enter, Online
    <2>3. x \notin todo
      BY <2>2 DEF Types
    <2>4. now + SweepPeriod >= due
      BY AccountsAssumption DEF Sched, Types, TypeOK
    <2>5. Me(x).id \in Ids /\ now \div Day \in Days
      BY <1>2, OnlineFields, DaysPass DEF Enter, Found, Rows, Types, TypeOK
    <2>6. time[<<Me(x).id, now \div Day>>] \in Nat
      BY <2>5 DEF Types
    <2>7. conn'[x].had <= time'[<<conn'[x].me.id, conn'[x].since \div Day>>]
      BY <1>2, <2>1, <2>6
    <2> QED
      BY <1>2, <2>1, <2>3, <2>4, <2>7 DEF Stay, Me, sweeper
  <1>3. CASE Next /\ Online(x) /\ conn'[x].me = Me(x) /\ SameSession(x)
    <2>1. /\ conn'[x].since = conn[x].since /\ conn'[x].had = conn[x].had
          /\ Bounded(Me(x).id) /\ Me(x).id \notin raised
      BY <1>0, <1>3 DEF SameSession, Online, Bounded, Me
    <2>2. Stay(x) /\ UpBound(x)
      BY <1>3, <2>1, StaySuffices DEF StayHolds
    <2>3. conn'[x].had <= time'[<<conn'[x].me.id, conn'[x].since \div Day>>]
      <3>1. Me(x).id \in Ids /\ conn[x].since \div Day \in Days /\ conn[x].had \in Nat
        BY <1>3, OnlineFields, DaysPass DEF Rows
      <3>2. \A u \in users : Reject(u) => u.id # Me(x).id
        BY <1>3, <2>1, HeldAccount
      <3>3. time[<<Me(x).id, conn[x].since \div Day>>] <= time'[<<Me(x).id, conn[x].since \div Day>>]
        BY <3>1, <3>2, TimeGrows
      <3>4. conn[x].had <= time[<<Me(x).id, conn[x].since \div Day>>]
        BY <2>2 DEF Stay
      <3>5. time[<<Me(x).id, conn[x].since \div Day>>] \in Nat /\ time'[<<Me(x).id, conn[x].since \div Day>>] \in Nat
        BY <3>1 DEF Types
      <3> QED
        BY <1>3, <2>1, <3>1, <3>3, <3>4, <3>5
    <2>4. CASE now' = now /\ due' = due /\ sweep' = sweep /\ (x \in todo' <=> x \in todo)
      BY <1>3, <2>1, <2>2, <2>3, <2>4 DEF Stay, UpBound, Me
    <2>5. CASE due' = due /\ ~(sweep = "time" /\ x \in todo) /\ ~(sweep' = "time" /\ x \in todo')
      BY <1>3, <2>1, <2>2, <2>3, <2>5 DEF Stay, Me
    <2>6. CASE StartSweep
      <3>1. sweep' = "time" /\ x \in todo' /\ now' = now
        BY <1>3, <2>6 DEF StartSweep
      <3>2. UpBound(x)'
        BY <2>1, <2>2, <3>1 DEF UpBound
      <3> QED
        BY <1>3, <2>1, <2>3, <3>1, <3>2 DEF Stay, Me
    <2>7. ASSUME NEW c \in Conns, LookAt(c), ~OverTime(c) PROVE Stay(x)'
      <3>1. sweep = "time" /\ sweep' = sweep /\ due' = due /\ now' = now /\ todo' = todo \ {c}
        BY <2>7 DEF LookAt
      <3>2. CASE c # x
        BY <2>4, <3>1, <3>2
      <3>3. CASE c = x
        <4>1. conn[x].had <= time[<<Me(x).id, conn[x].since \div Day>>]
          BY <2>2 DEF Stay
        <4>2. due + (IF conn[x].since \div Day = (due - SweepPeriod) \div Day
                     THEN conn[x].had ELSE 0) < DailyLimit + SweepPeriod + conn[x].since
          BY <1>3, <2>1, <2>7, <3>1, <3>3, <4>1, PassedStays
        <4>3. x \notin todo'
          BY <3>1, <3>3
        <4> QED
          BY <1>3, <2>1, <2>3, <3>1, <4>2, <4>3 DEF Stay, Me
      <3> QED
        BY <3>2, <3>3
    <2>8. CASE Purge \/ FindOffender \/ AutoBan \/ ReadBans \/ EndSweep
      <3>1. due' = due /\ ~(sweep = "time" /\ x \in todo) /\ ~(sweep' = "time" /\ x \in todo')
        BY <2>8 DEF Purge, FindOffender, AutoBan, ReadBans, EndSweep
      <3> QED
        BY <2>5, <3>1
    <2>9. CASE Tick
      <3>1. due' = due /\ sweep = "rest" /\ sweep' = sweep
        BY <2>9 DEF Tick, sweeper
      <3> QED
        BY <2>5, <3>1
    <2>10. ASSUME NEW c \in Conns, Gone(c) PROVE Stay(x)'
      <3>1. c # x
        BY <2>10, Ended DEF Online
      <3>2. now' = now /\ due' = due /\ sweep' = sweep /\ todo' = todo \ {c}
        BY <2>10, Ended
      <3> QED
        BY <2>4, <3>1, <3>2
    <2>11. CASE ~Tick /\ ~Sweep /\ \A c \in Conns : ~Leave(c) /\ ~Vanish(c)
      <3>1. now' = now /\ UNCHANGED sweeper
        BY <1>3, <2>11, SweeperRests
      <3> QED
        BY <2>4, <3>1 DEF sweeper
    <2> QED
      BY <2>6, <2>7, <2>8, <2>9, <2>10, <2>11, SweepCases DEF SweepStep, Gone
  <1>4. ASSUME NEW u \in users, NEW proof \in {"password", "key"}, FindUser(x, u, proof) PROVE FALSE
    BY <1>4, Moved DEF FindUser, Online
  <1>5. Found(x)'
    BY DEF Found, Online
  <1>6. CASE Next /\ Found(x) /\ conn'[x].me = Me(x) /\ SameSession(x)
    BY <1>3, <1>6 DEF SameSession, Online
  <1> QED
    BY <1>1, <1>2, <1>4, <1>5, <1>6, FoundStays

-----------------------------------------------------------------------------
(* The theorems. *)

\* Nobody is connected at first, and only Sysop and Guest have accounts.
LEMMA InitHolds ==
  ASSUME Init
  PROVE  IInv
  <1> USE AccountsAssumption
  <1>1. /\ Account(SysopId, Sysop, "admin", TRUE) \in Rows
        /\ Account(2, Guest, "guest", TRUE) \in Rows
        /\ Off \in States /\ Off.at = "off"
        /\ now = 0 /\ \A c \in Conns : conn[c] = Off
    BY DEF Init, Account, Rows, Ids, SysopId, Roles, States, Off
  <1>2. time \in [Ids \X Days -> Nat] /\ (\A i \in Ids, d \in Days : time[<<i, d>>] = 0)
    BY DEF Init, Days
  <1>3. Types
    <2>1. TypeOK
      <3>1. users \subseteq Rows
        BY <1>1 DEF Init
      <3>2. ipBan \in 0 .. Never /\ lastId \in 2 .. MaxIds /\ fails \in 0 .. MaxFailures /\ now \in 0 .. MaxNow
        BY DEF Init, Never
      <3> QED
        BY <3>1, <3>2 DEF Init, TypeOK, Rows
    <2>2. conn \in [Conns -> States]
      BY <1>1 DEF Init
    <2>3. (\A c \in Conns : ~Online(c)) /\ todo = {}
      BY <1>1 DEF Online, Init
    <2> QED
      BY <1>2, <2>1, <2>2, <2>3 DEF Types
  <1>4. PeopleInv
    <2>1. \A u \in users : \/ u = Account(SysopId, Sysop, "admin", TRUE)
                           \/ u = Account(2, Guest, "guest", TRUE)
      BY DEF Init
    <2>2. Sysop # Guest
      BY AccountsAssumption
    <2>3. /\ \A u \in users : u.valid
          /\ \A u \in users : IsAdmin(u) => u.id = SysopId
      BY <2>1 DEF Account, IsAdmin
    <2>4. \A u, v \in users : u.name = v.name => u = v
      <3> DEFINE a == Account(SysopId, Sysop, "admin", TRUE)
                 b == Account(2, Guest, "guest", TRUE)
      <3>1. a.name = Sysop /\ b.name = Guest
        BY DEF Account
      <3>2. \A u \in users : u = a \/ u = b
        BY <2>1
      <3> HIDE DEF a, b
      <3> QED
        BY <2>2, <3>1, <3>2
    <2>6. \A u, v \in users : u.id = v.id => u = v
      <3> DEFINE a == Account(SysopId, Sysop, "admin", TRUE)
                 b == Account(2, Guest, "guest", TRUE)
      <3>1. a.id = 1 /\ b.id = 2
        BY DEF Account, SysopId
      <3>2. \A u \in users : u = a \/ u = b
        BY <2>1
      <3> HIDE DEF a, b
      <3> QED
        BY <3>1, <3>2
    <2>7. \A u \in users : u.id <= lastId
      BY <2>1 DEF Account, SysopId, Init
    <2>5. RowsHold
      BY <2>3, <2>4, <2>6, <2>7 DEF RowsHold
    <2> QED
      BY <1>1, <2>5 DEF PeopleInv, SeenHolds, InsideHolds, Found, Online
  <1>5. Sched
    BY <1>1 DEF Init, Sched
  <1>6. StayHolds
    BY <1>1 DEF StayHolds, Online
  <1> QED
    BY <1>3, <1>4, <1>5, <1>6 DEF IInv

\* The inductive invariant holds of every reachable state.
THEOREM Invariant == Spec => []IInv
  <1>1. Init => IInv
    BY InitHolds
  <1>2. IInv /\ [Next]_vars => IInv'
    BY TypesKept, SchedKept, PeopleKept, StayKept DEF IInv
  <1> QED
    BY <1>1, <1>2, PTL DEF Spec

\* Every variable stays within its type.
THEOREM TypeCorrect == Spec => []TypeOK
  <1>1. IInv => TypeOK
    BY DEF IInv, Types
  <1> QED
    BY <1>1, Invariant, PTL

\* Behind every session is an account under its name that somebody has let in.
THEOREM SessionsAreAccounts == Spec => []SessionsHaveAccounts
  <1>1. IInv => SessionsHaveAccounts
    BY PeopleSuffice DEF IInv
  <1> QED
    BY <1>1, Invariant, PTL

\* No session stays beyond the limit by a sweep's period, whatever its user had banked
\* when it came (enforce_time_limits), for every limit, period and length of a day.
THEOREM StaysAreBounded == Spec => []OverstayBounded
  <1>1. IInv => OverstayBounded
    <2>1. ASSUME IInv, DailyLimit > 0, NEW c \in Conns, Online(c), Bounded(Me(c).id)
          PROVE  UpBound(c)
      BY <2>1, StaySuffices DEF IInv, StayHolds
    <2> QED
      BY <2>1 DEF OverstayBounded, UpBound, Bounded
  <1> QED
    BY <1>1, Invariant, PTL

\* What OwnersLive rests on besides: the columns of a mail.
Letters == [id : Nat, from : Ids, to : Ids, read : BOOLEAN]
OwnersInv == OwnersLive /\ mail \subseteq Letters /\ sent \in Nat

\* Who refers to accounts i and j in the tables.
Refers(m, i, j) == m.from = i /\ m.to = j

\* A live account is still there after a step, unless the step rejects it.
LEMMA AccountsLast ==
  ASSUME Types, [Next]_vars
  PROVE  \/ \A i : Lives(i) => Lives(i)'
         \/ \E u \in users : Reject(u)
  <1>1. CASE UNCHANGED vars
    BY <1>1 DEF vars, people, Lives
  <1>2. CASE Next /\ ~\E u \in users : Reject(u)
    <2>1. \/ users' = users
          \/ \E u \in users : Validate(u) \/ SetBan(u) \/ (\E r \in Roles : SetRole(u, r))
          \/ \E c \in Conns : InsertUser(c)
      BY <1>2 DEF Next, ConnStep, Police, Promote, EditKeys, Sweep, StartSweep, LookAt, Kick, Ends, Purge,
           FindOffender, AutoBan, ReadBans, EndSweep, Tick, Vanish,
             BanIp, UnbanIp, AddKey, RemoveKey, Connect, FindUser, Enter,
             Refuse, Leave, AskName, CheckMail, InsertMail, ReadMail, DeleteMail,
             AskBlock, InsertBlock, Unblock, people
    <2>2. ASSUME NEW c \in Conns, InsertUser(c) PROVE users \subseteq users'
      BY <2>2 DEF InsertUser
    <2>3. ASSUME NEW u \in users, Validate(u) \/ SetBan(u) \/ \E r \in Roles : SetRole(u, r)
          PROVE  \E v : users' = (users \ {u}) \cup {v} /\ v.id = u.id
      <3>1. u \in Rows
        BY DEF Types, TypeOK, Rows
      <3>2. /\ [u EXCEPT !.valid = TRUE].id = u.id
            /\ [u EXCEPT !.banned = ~@].id = u.id
            /\ \A r \in Roles : [u EXCEPT !.role = r].id = u.id
        BY <3>1 DEF Rows
      <3> QED
        BY <2>3, <3>2 DEF Validate, SetBan, SetRole, Replace
    <2>4. \/ users \subseteq users'
          \/ \E u \in users : \E v : users' = (users \ {u}) \cup {v} /\ v.id = u.id
      BY <2>1, <2>2, <2>3
    <2> QED
      BY <2>4 DEF Lives
  <1> QED
    BY <1>1, <1>2

\* What refers to an account is inserted while the account lives.
LEMMA MailMoves ==
  ASSUME Types, OwnersInv, [Next]_vars
  PROVE  /\ mail' \subseteq Letters /\ sent' \in Nat
         /\ \A m \in mail' : \/ Lives(m.from) /\ Lives(m.to)
                            \/ \E n \in mail : Refers(n, m.from, m.to)
  <1> DEFINE Goal == /\ mail' \subseteq Letters /\ sent' \in Nat
                     /\ \A m \in mail' : \/ Lives(m.from) /\ Lives(m.to)
                                        \/ \E n \in mail : Refers(n, m.from, m.to)
  <1>1. mail \subseteq Letters /\ sent \in Nat
    BY DEF OwnersInv
  <1>2. CASE mail' \subseteq mail /\ sent' = sent
    BY <1>1, <1>2 DEF Refers
  <1>3. ASSUME NEW c \in Conns, InsertMail(c) PROVE Goal
    <2>1. CASE ~(Lives(conn[c].with) /\ Lives(Me(c).id))
      BY <1>2, <1>3, <2>1 DEF InsertMail, post
    <2>2. CASE Lives(conn[c].with) /\ Lives(Me(c).id)
      <3> DEFINE new == [id : {sent + 1}, from : {Me(c).id}, to : {conn[c].with}, read : {FALSE}]
      <3>1. mail' = mail \cup new /\ sent' = sent + 1
        BY <1>3, <2>2 DEF InsertMail
      <3>2. Me(c).id \in Ids /\ conn[c].with \in Ids
        BY <2>2 DEF Lives, Types, TypeOK
      <3>3. ASSUME NEW m \in new PROVE m \in Letters /\ m.from = Me(c).id /\ m.to = conn[c].with
        <4>1. sent + 1 \in Nat /\ FALSE \in BOOLEAN
          BY <1>1
        <4> HIDE DEF Me
        <4> QED
          BY <3>2, <4>1 DEF Letters
      <3> HIDE DEF new
      <3> QED
        BY <1>1, <2>2, <3>1, <3>3 DEF Refers
    <2> QED
      BY <2>1, <2>2
  <1>4. ASSUME NEW c \in Conns, NEW m \in mail, ReadMail(c, m) PROVE Goal
    <2> DEFINE n == [m EXCEPT !.read = TRUE]
    <2>1. mail' = (mail \ {m}) \cup {n} /\ sent' = sent
      BY <1>4 DEF ReadMail
    <2>2. n \in Letters /\ n.from = m.from /\ n.to = m.to
      BY <1>1 DEF Letters
    <2> HIDE DEF n
    <2> QED
      BY <1>1, <2>1, <2>2 DEF Refers
  <1>5. ASSUME NEW c \in Conns, NEW m \in mail, DeleteMail(c, m) PROVE Goal
    BY <1>2, <1>5 DEF DeleteMail
  <1>6. \/ mail' = mail /\ sent' = sent
        \/ \E c \in Conns : \/ InsertMail(c)
                            \/ \E m \in mail : ReadMail(c, m) \/ DeleteMail(c, m)
    BY DEF Next, ConnStep, Police, Promote, EditKeys, Sweep, StartSweep, LookAt, Kick, Ends, Purge,
           FindOffender, AutoBan, ReadBans, EndSweep, Tick, Vanish, Validate,
           Reject, SetBan, BanIp, UnbanIp, SetRole, AddKey, RemoveKey, Connect, FindUser, Enter,
           Refuse, Leave, AskName, InsertUser, CheckMail, AskBlock, InsertBlock, Unblock,
           post, vars
  <1> QED
    BY <1>2, <1>3, <1>4, <1>5, <1>6

LEMMA KeysAndBlocksMove ==
  ASSUME Types, [Next]_vars
  PROVE  /\ \A i \in keys' : i \in keys \/ Lives(i)
         /\ \A b \in blocks' : b \in blocks \/ (Lives(b[1]) /\ Lives(b[2]))
  <1>1. ASSUME NEW i \in Ids, AddKey(i)
        PROVE  blocks' = blocks /\ \A k \in keys' : k \in keys \/ Lives(k)
    BY <1>1 DEF AddKey
  <1>2. ASSUME NEW i \in keys, RemoveKey(i) PROVE blocks' = blocks /\ keys' \subseteq keys
    BY <1>2 DEF RemoveKey
  <1>3. ASSUME NEW c \in Conns, InsertBlock(c)
        PROVE  keys' = keys /\ \A b \in blocks' : b \in blocks \/ (Lives(b[1]) /\ Lives(b[2]))
    <2>1. CASE Lives(conn[c].with) /\ Lives(Me(c).id)
      <3>1. blocks' = blocks \cup {<<Me(c).id, conn[c].with>>} /\ keys' = keys
        BY <1>3, <2>1 DEF InsertBlock, people
      <3> QED
        BY <2>1, <3>1
    <2> QED
      BY <1>3, <2>1 DEF InsertBlock, people
  <1>4. ASSUME NEW c \in Conns, NEW i \in Ids, Unblock(c, i)
        PROVE  keys' = keys /\ blocks' \subseteq blocks
    BY <1>4 DEF Unblock, people
  <1>5. \/ keys' = keys /\ blocks' = blocks
        \/ (\E i \in Ids : AddKey(i)) \/ (\E i \in keys : RemoveKey(i))
        \/ \E c \in Conns : InsertBlock(c) \/ \E i \in Ids : Unblock(c, i)
    BY DEF Next, ConnStep, Police, Promote, EditKeys, Sweep, StartSweep, LookAt, Kick, Ends, Purge,
           FindOffender, AutoBan, ReadBans, EndSweep, Tick, Vanish, Validate,
           Reject, SetBan, BanIp, UnbanIp, SetRole, Connect, FindUser, Enter, Refuse, Leave, AskName,
           InsertUser, CheckMail, InsertMail, ReadMail, DeleteMail, AskBlock, people, vars
  <1> QED
    BY <1>1, <1>2, <1>3, <1>4, <1>5

\* Time is banked for an account that lives, and goes with it.
LEMMA TimeMoves ==
  ASSUME Types, [Next]_vars
  PROVE  /\ DOMAIN time' = DOMAIN time
         /\ \A x \in DOMAIN time : \/ time'[x] = time[x] \/ time'[x] = 0
                                  \/ Lives(x[1])
  <1>1. ASSUME NEW c \in Conns, time' = Bank(c)
        PROVE  /\ DOMAIN time' = DOMAIN time
               /\ \A x \in DOMAIN time : time'[x] = time[x] \/ Lives(x[1])
    <2> DEFINE y == <<Me(c).id, conn[c].since \div Day>>
    <2>1. \/ time' = time
          \/ Lives(y[1]) /\ \E v : time' = [time EXCEPT ![y] = v]
      BY <1>1 DEF Bank
    <2> HIDE DEF y
    <2> QED
      BY <2>1
  <1>2. ASSUME NEW u \in users, Reject(u)
        PROVE  time' = [x \in DOMAIN time |-> IF x[1] = u.id THEN 0 ELSE time[x]]
    BY <1>2 DEF Reject
  <1>3. \/ time' = time
        \/ \E c \in Conns : time' = Bank(c)
        \/ \E u \in users : Reject(u)
    BY DEF Next, ConnStep, Police, Promote, EditKeys, Sweep, StartSweep, LookAt, Kick, Ends, Purge,
           FindOffender, AutoBan, ReadBans, EndSweep, Tick, Vanish, Validate,
           SetBan, BanIp, UnbanIp, SetRole, AddKey, RemoveKey, Connect, FindUser, Enter,
           Refuse, Leave, AskName, InsertUser, CheckMail, InsertMail, ReadMail, DeleteMail,
           AskBlock, InsertBlock, Unblock, vars
  <1> QED
    BY <1>1, <1>2, <1>3

\* Nothing refers to an account that is gone: mail, keys and blocks hold an account
\* that is being rejected, and time banked late finds it gone (reject_user, run).
THEOREM OwnersStayAlive == Spec => []OwnersLive
  <1>1. Init => OwnersInv
    BY DEF Init, OwnersInv, OwnersLive
  <1>2. ASSUME Types, OwnersInv, [Next]_vars PROVE OwnersInv'
    <2>1. /\ \A m \in mail : Lives(m.from) /\ Lives(m.to)
          /\ \A i \in keys : Lives(i)
          /\ \A b \in blocks : Lives(b[1]) /\ Lives(b[2])
          /\ \A x \in DOMAIN time : time[x] > 0 => Lives(x[1])
      BY <1>2 DEF OwnersInv, OwnersLive
    <2>2. CASE \A i : Lives(i) => Lives(i)'
      <3>1. \A m \in mail' : Lives(m.from)' /\ Lives(m.to)'
        BY <1>2, <2>1, <2>2, MailMoves DEF Refers
      <3>2. (\A i \in keys' : Lives(i)') /\ (\A b \in blocks' : Lives(b[1])' /\ Lives(b[2])')
        BY <1>2, <2>1, <2>2, KeysAndBlocksMove
      <3>3. \A x \in DOMAIN time' : time'[x] > 0 => Lives(x[1])'
        <4>1. ASSUME NEW x \in DOMAIN time', time'[x] > 0 PROVE Lives(x[1])
          <5>1. x \in DOMAIN time /\ (time'[x] = time[x] \/ time'[x] = 0 \/ Lives(x[1]))
            BY <1>2, <4>1, TimeMoves
          <5>2. ~(0 > 0)
            OBVIOUS
          <5> QED
            BY <2>1, <4>1, <5>1, <5>2
        <4> QED
          BY <2>2, <4>1
      <3> QED
        BY <1>2, <3>1, <3>2, <3>3, MailMoves DEF OwnersInv, OwnersLive
    <2>3. ASSUME NEW u \in users, Reject(u) PROVE OwnersInv'
      <3>1. /\ UNCHANGED <<mail, sent, keys, blocks>>
            /\ users' = users \ {u} /\ ~Referred(u.id)
            /\ time' = [x \in DOMAIN time |-> IF x[1] = u.id THEN 0 ELSE time[x]]
        BY <2>3 DEF Reject, post
      <3>2. \A i : Lives(i) /\ i # u.id => Lives(i)'
        BY <3>1 DEF Lives
      <3>3. /\ \A m \in mail : m.from # u.id /\ m.to # u.id
            /\ u.id \notin keys
            /\ \A b \in blocks : b[1] # u.id /\ b[2] # u.id
        BY <3>1 DEF Referred
      <3>4. \A x \in DOMAIN time' : time'[x] > 0 => Lives(x[1])'
        <4>1. ASSUME NEW x \in DOMAIN time', time'[x] > 0 PROVE x[1] # u.id /\ time[x] > 0 /\ x \in DOMAIN time
          BY <3>1, <4>1
        <4> QED
          BY <2>1, <3>2, <4>1
      <3>5. \A m \in mail' : Lives(m.from)' /\ Lives(m.to)'
        BY <2>1, <3>1, <3>2, <3>3
      <3>6. (\A i \in keys' : Lives(i)') /\ (\A b \in blocks' : Lives(b[1])' /\ Lives(b[2])')
        BY <2>1, <3>1, <3>2, <3>3
      <3> QED
        BY <1>2, <3>1, <3>4, <3>5, <3>6 DEF OwnersInv, OwnersLive
    <2> QED
      BY <1>2, <2>2, <2>3, AccountsLast
  <1>3. IInv => Types
    BY DEF IInv
  <1>4. OwnersInv => OwnersLive
    BY DEF OwnersInv
  <1> QED
    BY <1>1, <1>2, <1>3, <1>4, Invariant, PTL DEF Spec

-----------------------------------------------------------------------------
(* The password of one account, after a reset: module AccountRecovery, of     *)
(* which the following holds for any set of connections of the account, any   *)
(* number of resets and any clock.                                            *)

\* Every step keeps the types, and the registry holds exactly the sessions between
\* their shell and their end.
THEOREM RecoveryTypes == RecoverySpec => []RecoveryTypeOK
<1> USE RecoveryAssumption DEF RecoveryTypeOK, Started, Screens
<1>1. RecoveryInit => RecoveryTypeOK
  BY DEF RecoveryInit
<1>2. RecoveryTypeOK /\ [RecoveryNext]_recoveryVars => RecoveryTypeOK'
  <2> SUFFICES ASSUME RecoveryTypeOK, [RecoveryNext]_recoveryVars PROVE RecoveryTypeOK'
    OBVIOUS
  <2>1. ASSUME NEW forced \in BOOLEAN, Reset(forced) PROVE RecoveryTypeOK'
    BY <2>1 DEF Reset, row
  <2>2. ASSUME Elapse PROVE RecoveryTypeOK'
    BY <2>2 DEF Elapse, row
  <2>3. ASSUME NEW s \in Sessions, Authenticate(s) PROVE RecoveryTypeOK'
    BY <2>3 DEF Authenticate, row
  <2>4. ASSUME NEW s \in Sessions, Shell(s) PROVE RecoveryTypeOK'
    BY <2>4 DEF Shell, row
  <2>5. ASSUME NEW s \in Sessions, Start(s) PROVE RecoveryTypeOK'
    BY <2>5 DEF Start, row
  <2>6. ASSUME NEW s \in Sessions, Go(s) PROVE RecoveryTypeOK'
    BY <2>6 DEF Go, At, row
  <2>7. ASSUME NEW s \in Sessions, BeginChange(s) PROVE RecoveryTypeOK'
    BY <2>7 DEF BeginChange, At, row
  <2>8. ASSUME NEW s \in Sessions, SubmitForced(s) PROVE RecoveryTypeOK'
    BY <2>8 DEF SubmitForced, At, SetOwnPassword, row
  <2>9. ASSUME NEW s \in Sessions, Verify(s) PROVE RecoveryTypeOK'
    BY <2>9 DEF Verify, At, row
  <2>10. ASSUME NEW s \in Sessions, SubmitOwn(s) PROVE RecoveryTypeOK'
    BY <2>10 DEF SubmitOwn, SetOwnPassword, row
  <2>11. ASSUME NEW s \in Sessions, End(s) PROVE RecoveryTypeOK'
    BY <2>11 DEF End, row
  <2>12. ASSUME SweepRead PROVE RecoveryTypeOK'
    BY <2>12 DEF SweepRead, row
  <2>13. ASSUME SweepSend PROVE RecoveryTypeOK'
    BY <2>13 DEF SweepSend, row
  <2>14. CASE UNCHANGED recoveryVars
    BY <2>14 DEF recoveryVars, row
  <2>15. QED
    BY <2>1, <2>2, <2>3, <2>4, <2>5, <2>6, <2>7, <2>8, <2>9, <2>10, <2>11,
       <2>12, <2>13, <2>14 DEF RecoveryNext
<1>3. QED
  BY <1>1, <1>2, PTL DEF RecoverySpec

-----------------------------------------------------------------------------
\* What keeps the clocks of the reset, the sweeper and the sessions in order: the
\* flag and the sweeper's copy of it are no later than the last reset, that is no
\* later than the clock, and a session that is told to quit or that was there at
\* the last reset is registered, and no younger than that.
Clocks ==
  /\ resetAt <= last
  /\ swept <= last
  /\ last <= clock
  /\ \A s \in Sessions : since[s] <= clock
  /\ \A s \in quit \cup old : phase[s] \in Started /\ since[s] <= last

LEMMA ClocksInOrder == RecoverySpec => []Clocks
<1> USE RecoveryAssumption DEF RecoveryTypeOK, Clocks, Started
<1>1. RecoveryInit => Clocks
  BY DEF RecoveryInit
<1>2. RecoveryTypeOK /\ Clocks /\ [RecoveryNext]_recoveryVars => Clocks'
  <2> SUFFICES ASSUME RecoveryTypeOK, Clocks, [RecoveryNext]_recoveryVars PROVE Clocks'
    OBVIOUS
  <2>1. ASSUME NEW forced \in BOOLEAN, Reset(forced) PROVE Clocks'
    BY <2>1 DEF Reset, row
  <2>2. ASSUME Elapse PROVE Clocks'
    BY <2>2 DEF Elapse, row
  <2>3. ASSUME NEW s \in Sessions, Authenticate(s) PROVE Clocks'
    BY <2>3 DEF Authenticate, row
  <2>4. ASSUME NEW s \in Sessions, Shell(s) PROVE Clocks'
    BY <2>4 DEF Shell, row
  <2>5. ASSUME NEW s \in Sessions, Start(s) PROVE Clocks'
    BY <2>5 DEF Start, row
  <2>6. ASSUME NEW s \in Sessions, Go(s) PROVE Clocks'
    BY <2>6 DEF Go, At, row
  <2>7. ASSUME NEW s \in Sessions, BeginChange(s) PROVE Clocks'
    BY <2>7 DEF BeginChange, At, row
  <2>8. ASSUME NEW s \in Sessions, SubmitForced(s) PROVE Clocks'
    BY <2>8 DEF SubmitForced, At, SetOwnPassword, row
  <2>9. ASSUME NEW s \in Sessions, Verify(s) PROVE Clocks'
    BY <2>9 DEF Verify, At, row
  <2>10. ASSUME NEW s \in Sessions, SubmitOwn(s) PROVE Clocks'
    BY <2>10 DEF SubmitOwn, SetOwnPassword, row
  <2>11. ASSUME NEW s \in Sessions, End(s) PROVE Clocks'
    BY <2>11 DEF End, row
  <2>12. ASSUME SweepRead PROVE Clocks'
    BY <2>12 DEF SweepRead, row
  <2>13. ASSUME SweepSend PROVE Clocks'
    BY <2>13 DEF SweepSend, row
  <2>14. CASE UNCHANGED recoveryVars
    BY <2>14 DEF recoveryVars, row
  <2>15. QED
    BY <2>1, <2>2, <2>3, <2>4, <2>5, <2>6, <2>7, <2>8, <2>9, <2>10, <2>11,
       <2>12, <2>13, <2>14 DEF RecoveryNext
<1>3. QED
  BY <1>1, <1>2, RecoveryTypes, PTL DEF RecoverySpec

\* The sweeper ends no session that is younger than every reset, whatever happens
\* between its reading the flag and its acting on it.
THEOREM YoungAreSafe == RecoverySpec => []YoungAreSpared
<1>1. Clocks => YoungAreSpared
  BY DEF Clocks, YoungAreSpared
<1>2. QED
  BY <1>1, ClocksInOrder, PTL

\* A sweep that has read the latest flag reaches every session the reset found.
THEOREM SweepReachesAll == RecoverySpec => SweepIsThorough
<1>1. RecoveryTypeOK /\ Clocks /\ [RecoveryNext]_recoveryVars =>
        [swept # 0 /\ swept' = 0 /\ swept = last => old \subseteq quit']_recoveryVars
  <2> SUFFICES ASSUME RecoveryTypeOK, Clocks, RecoveryNext, swept # 0, swept' = 0, swept = last
               PROVE  old \subseteq quit'
    OBVIOUS
  <2>1. SweepSend
    BY DEF RecoveryNext, Reset, Elapse, Authenticate, Shell, Start, Go, BeginChange,
           SubmitForced, Verify, SubmitOwn, SetOwnPassword, End, SweepRead
  <2>2. ASSUME NEW s \in old PROVE since[s] \in 1 .. swept
    <3>1. s \in Sessions /\ phase[s] \in Started /\ since[s] <= last
      BY DEF RecoveryTypeOK, Clocks
    <3>2. since[s] # 0 /\ since[s] \in Nat /\ swept \in Nat
      BY <3>1, RecoveryAssumption DEF RecoveryTypeOK
    <3>3. QED
      BY <3>1, <3>2
  <2>3. QED
    BY <2>1, <2>2 DEF SweepSend, RecoveryTypeOK
<1>2. QED
  BY <1>1, RecoveryTypes, ClocksInOrder, PTL DEF RecoverySpec, SweepIsThorough

-----------------------------------------------------------------------------
\* Why the gate holds where no bulletin can push it aside: a session that owes a
\* new password is started and shows the forced form, and it is not in the middle
\* of the voluntary one.
Held ==
  /\ \A s \in owes : /\ phase[s] \in Started
                     /\ screen[s] = "ChangePassword"
                     /\ force[s]
                     /\ s \notin proven
  /\ \A s \in proven : phase[s] = "running"

LEMMA HeldAtGate == ASSUME ~Bulletins PROVE RecoverySpec => []Held
<1> USE RecoveryAssumption DEF RecoveryTypeOK, Held, Started
<1>1. RecoveryInit => Held
  BY DEF RecoveryInit
<1>2. RecoveryTypeOK /\ Held /\ [RecoveryNext]_recoveryVars => Held'
  <2> SUFFICES ASSUME RecoveryTypeOK, Held, [RecoveryNext]_recoveryVars PROVE Held'
    OBVIOUS
  <2>1. ASSUME NEW forced \in BOOLEAN, Reset(forced) PROVE Held'
    BY <2>1 DEF Reset, row
  <2>2. ASSUME Elapse PROVE Held'
    BY <2>2 DEF Elapse, row
  <2>3. ASSUME NEW s \in Sessions, Authenticate(s) PROVE Held'
    BY <2>3 DEF Authenticate, row
  <2>4. ASSUME NEW s \in Sessions, Shell(s) PROVE Held'
    BY <2>4 DEF Shell, row
  <2>5. ASSUME NEW s \in Sessions, Start(s) PROVE Held'
    BY <2>5 DEF Start, row
  <2>6. ASSUME NEW s \in Sessions, Go(s) PROVE Held'
    BY <2>6 DEF Go, At, row
  <2>7. ASSUME NEW s \in Sessions, BeginChange(s) PROVE Held'
    BY <2>7 DEF BeginChange, At, row
  <2>8. ASSUME NEW s \in Sessions, SubmitForced(s) PROVE Held'
    BY <2>8 DEF SubmitForced, At, SetOwnPassword, row
  <2>9. ASSUME NEW s \in Sessions, Verify(s) PROVE Held'
    BY <2>9 DEF Verify, At, row
  <2>10. ASSUME NEW s \in Sessions, SubmitOwn(s) PROVE Held'
    BY <2>10 DEF SubmitOwn, SetOwnPassword, row
  <2>11. ASSUME NEW s \in Sessions, End(s) PROVE Held'
    BY <2>11 DEF End, row
  <2>12. ASSUME SweepRead PROVE Held'
    BY <2>12 DEF SweepRead, row
  <2>13. ASSUME SweepSend PROVE Held'
    BY <2>13 DEF SweepSend, row
  <2>14. CASE UNCHANGED recoveryVars
    BY <2>14 DEF recoveryVars, row
  <2>15. QED
    BY <2>1, <2>2, <2>3, <2>4, <2>5, <2>6, <2>7, <2>8, <2>9, <2>10, <2>11,
       <2>12, <2>13, <2>14 DEF RecoveryNext
<1>3. QED
  BY <1>1, <1>2, RecoveryTypes, PTL DEF RecoverySpec

\* On a board without bulletins, a session that found its account flagged shows
\* nothing but the change-password screen until a new password is set.
THEOREM GateIsShut == ASSUME ~Bulletins PROVE RecoverySpec => []GateHolds
<1>1. Held => GateHolds
  BY DEF Held, GateHolds, Started
<1>2. QED
  BY <1>1, HeldAtGate, PTL

=============================================================================
