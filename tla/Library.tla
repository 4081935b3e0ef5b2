------------------------------ MODULE Library ------------------------------
(***************************************************************************)
(* The file areas: a catalogue in the database (areas, file rows, links    *)
(* from posts and mail to files) and one blob on disk per file.  Several   *)
(* actors work on it at once: SFTP sessions, callers who compose, and the  *)
(* operator's bbsctl, which is a process of its own.                       *)
(*                                                                         *)
(* An operation is a sequence of statements and file operations with       *)
(* nothing to hold them together: no transaction spans two of them, and    *)
(* none spans the database and the disk.  Each step below is one of them.  *)
(***************************************************************************)
EXTENDS Naturals, FiniteSets, FiniteSetsExt

CONSTANTS
  Workers,      \* SFTP sessions with callers who compose, and runs of bbsctl
  Ctl,          \* the latter: they check no role and outlive the server
  UserOf,       \* whom a worker acts for
  Admins,
  Areas,        \* ids of file areas, ever
  Staff,        \* areas only an admin may read and write
  Names, Sizes, \* of files
  MaxFileBytes, UserQuota, MaxAttachments,   \* [files] and [limits]; 0: no limit
  MaxFiles,     \* bound: rows ever inserted
  MaxFaults     \* bound: crashes of the server, failed writes and statements

ASSUME LibraryAssumption ==
  /\ Ctl \subseteq Workers
  /\ Staff \subseteq Areas
  /\ Sizes \subseteq Nat
  /\ {MaxFileBytes, UserQuota, MaxAttachments, MaxFiles, MaxFaults} \subseteq Nat

Ids  == 1 .. MaxFiles
None == "none"

VARIABLES
  areas,   \* rows of file_areas: not yet made, there, or gone for good
  rows,    \* rows of files; filed: its storage_path is set
  nextId,  \* the AUTOINCREMENT counter of files
  blob,    \* what is on disk under <id>-<name>
  links,   \* attachments: the post a worker composes, and the file's id
  job,     \* what each worker is doing, with the values it has read
  faults,
  stale,   \* history: ids whose upload a crash or a failed statement cut short
  lapped   \* history: users two of whose uploads met between check and insert

vars == <<areas, rows, nextId, blob, links, job, faults, stale, lapped>>

Row(i)    == CHOOSE r \in rows : r.id = i
Exists(i) == \E r \in rows : r.id = i

Idle == [at |-> "idle", area |-> None, name |-> None, size |-> 0, id |-> 0]

Init ==
  /\ areas  \in [Areas -> {"new", "there"}]
  /\ rows   = {}
  /\ nextId = 1
  /\ blob   = [i \in Ids |-> "absent"]
  /\ links  = {}
  /\ job    = [w \in Workers |-> Idle]
  /\ faults = 0
  /\ stale  = {}
  /\ lapped = {}

\* FileArea::can_read and can_write, for the two kinds of area there are here.
CanUse(w, a) == a \in Staff => UserOf[w] \in Admins

\* get_file_by_name: the newest row of a name hides the older ones.
Newest(a, n) == LET ids == {r.id : r \in {x \in rows : x.area = a /\ x.name = n}}
                IN  IF ids = {} THEN 0 ELSE Max(ids)

Usage(u) == MapThenSumSet(LAMBDA r : r.size, {r \in rows : r.owner = u})

-----------------------------------------------------------------------------
(* A step of worker w leads from one place of its operation to the next.      *)

Step(w, from, to) == job[w].at = from /\ job' = [job EXCEPT ![w].at = to]
Ends(w, from)     == job[w].at = from /\ job' = [job EXCEPT ![w] = Idle]
Begins(w, j)      == job[w] = Idle /\ job' = [job EXCEPT ![w] = j]

\* Between the INSERT of a row and the end of its upload, rollback included.
Uploading(i) == \E w \in Workers : /\ job[w].id = i
                                   /\ job[w].at \in {"path", "fetch", "create", "fill", "undo"}

\* CASCADE drops the links of a file with its row.
Erase(i) == /\ rows'  = {r \in rows : r.id # i}
            /\ links' = {l \in links : l[2] # i}

-----------------------------------------------------------------------------
(* Faulty variants, one plausible slip each; no specification uses them.      *)

\* rows are numbered like MAX(id) + 1, without AUTOINCREMENT
FaultyNumber == Max({r.id : r \in rows} \cup {0}) + 1

\* a failed write leaves its row behind
FaultyUndo(w) == Ends(w, "undo") /\ UNCHANGED <<rows, links>>

\* the quota is compared with what is stored already, without the new file
FaultyWithinQuota(w) == \/ UserQuota = 0 \/ UserOf[w] \in Admins
                        \/ Usage(UserOf[w]) <= UserQuota

-----------------------------------------------------------------------------
(* Uploads: SFTP's open and close, and bbsctl add-file.                        *)

\* open for writing checks the write role; bytes pile up in memory until close.
OpenWrite(w, a, n, s) ==
  /\ areas[a] = "there"
  /\ w \notin Ctl => CanUse(w, a)
  /\ Begins(w, [at |-> "admit", area |-> a, name |-> n, size |-> s, id |-> 0])
  /\ UNCHANGED <<areas, rows, nextId, blob, links, faults, stale, lapped>>

\* add_file from here on: the area must still exist, the size be allowed.
Admit(w) ==
  /\ job[w].at = "admit"
  /\ IF areas[job[w].area] = "there" /\ (MaxFileBytes = 0 \/ job[w].size <= MaxFileBytes)
       THEN Step(w, "admit", "quota")
       ELSE Ends(w, "admit")
  /\ UNCHANGED <<areas, rows, nextId, blob, links, faults, stale, lapped>>

WithinQuota(w) == \/ UserQuota = 0 \/ UserOf[w] \in Admins
                  \/ Usage(UserOf[w]) + job[w].size <= UserQuota

Quota(w) ==
  /\ IF WithinQuota(w) THEN Step(w, "quota", "insert") ELSE Ends(w, "quota")
  /\ UNCHANGED <<areas, rows, nextId, blob, links, faults, stale, lapped>>

Number == nextId

\* The foreign key refuses a row for an area that has gone meanwhile.
Insert(w) ==
  /\ job[w].at = "insert"
  /\ nextId <= MaxFiles
  /\ IF areas[job[w].area] = "there"
       THEN /\ rows' = rows \cup {[id |-> Number, area |-> job[w].area, owner |-> UserOf[w],
                                   name |-> job[w].name, size |-> job[w].size, filed |-> FALSE]}
            /\ nextId' = nextId + 1
            /\ job' = [job EXCEPT ![w].at = "path", ![w].id = Number]
            /\ lapped' = lapped \cup {UserOf[v] : v \in {x \in Workers \ {w} :
                                 job[x].at = "insert" /\ UserOf[x] = UserOf[w]}}
       ELSE Ends(w, "insert") /\ UNCHANGED <<rows, nextId, lapped>>
  /\ UNCHANGED <<areas, blob, links, faults, stale>>

SetPath(w) ==
  /\ Step(w, "path", "fetch")
  /\ rows' = {[r EXCEPT !.filed = r.filed \/ r.id = job[w].id] : r \in rows}
  /\ UNCHANGED <<areas, nextId, blob, links, faults, stale, lapped>>

\* get_file: a row removed meanwhile ends the upload before anything is written.
Fetch(w) ==
  /\ IF Exists(job[w].id) THEN Step(w, "fetch", "create") ELSE Ends(w, "fetch")
  /\ UNCHANGED <<areas, rows, nextId, blob, links, faults, stale, lapped>>

\* fs::write makes the file and then fills it.
Create(w) ==
  /\ Step(w, "create", "fill")
  /\ blob' = [blob EXCEPT ![job[w].id] = "partial"]
  /\ UNCHANGED <<areas, rows, nextId, links, faults, stale, lapped>>

Fill(w) ==
  /\ Ends(w, "fill")
  /\ blob' = [blob EXCEPT ![job[w].id] = "whole"]
  /\ UNCHANGED <<areas, rows, nextId, links, faults, stale, lapped>>

WriteFails(w) ==
  /\ faults < MaxFaults
  /\ Step(w, "create", "undo") \/ Step(w, "fill", "undo")
  /\ faults' = faults + 1
  /\ UNCHANGED <<areas, rows, nextId, blob, links, stale, lapped>>

\* "Roll the row back so quota accounting stays honest."
Undo(w) == Ends(w, "undo") /\ Erase(job[w].id)

RollBack(w) == Undo(w) /\ UNCHANGED <<areas, nextId, blob, faults, stale, lapped>>

-----------------------------------------------------------------------------
(* Removal: SFTP's remove (the uploader or an admin), bbsctl rm-file.           *)

Resolve(w, a, n) ==
  LET i == Newest(a, n) IN
  /\ i # 0
  /\ w \in Ctl \/ Row(i).owner = UserOf[w] \/ UserOf[w] \in Admins
  /\ Begins(w, [Idle EXCEPT !.at = "select", !.id = i])
  /\ UNCHANGED <<areas, rows, nextId, blob, links, faults, stale, lapped>>

\* delete_file reads the path first; an upload may not have set it yet.
Select(w) ==
  /\ job[w].at = "select"
  /\ IF Exists(job[w].id)
       THEN job' = [job EXCEPT ![w].at = "delete",
                               ![w].name = IF Row(job[w].id).filed THEN "path" ELSE None]
       ELSE Ends(w, "select")
  /\ UNCHANGED <<areas, rows, nextId, blob, links, faults, stale, lapped>>

Delete(w) ==
  /\ Step(w, "delete", "unlink")
  /\ Erase(job[w].id)
  /\ UNCHANGED <<areas, nextId, blob, faults, stale, lapped>>

Unlink(w) ==
  /\ Ends(w, "unlink")
  /\ blob' = IF job[w].name = None THEN blob ELSE [blob EXCEPT ![job[w].id] = "absent"]

RemoveBlob(w) == Unlink(w) /\ UNCHANGED <<areas, rows, nextId, links, faults, stale, lapped>>

-----------------------------------------------------------------------------
(* Downloads: SFTP's open for reading, and the viewer's archive::inspect.       *)

Seek(w, a, n) ==
  LET i == Newest(a, n) IN
  /\ w \notin Ctl
  /\ i # 0
  /\ CanUse(w, a)
  /\ Row(i).filed
  /\ Begins(w, [Idle EXCEPT !.at = "read", !.id = i])
  /\ UNCHANGED <<areas, rows, nextId, blob, links, faults, stale, lapped>>

\* The whole blob is read into memory when the handle is opened.
Read(w) ==
  /\ job[w].at = "read"
  /\ IF blob[job[w].id] = "absent"
       THEN Ends(w, "read")
       ELSE job' = [job EXCEPT ![w].at = "hold", ![w].name = blob[job[w].id]]
  /\ UNCHANGED <<areas, rows, nextId, blob, links, faults, stale, lapped>>

\* close bumps a counter of the row, if it is still there.
Close(w) ==
  /\ Ends(w, "hold")
  /\ UNCHANGED <<areas, rows, nextId, blob, links, faults, stale, lapped>>

-----------------------------------------------------------------------------
(* Attachments: the picker's choice is linked after the post was inserted.      *)

Stage(w, i) ==
  /\ w \notin Ctl
  /\ Exists(i)
  /\ CanUse(w, Row(i).area)
  /\ Begins(w, [Idle EXCEPT !.at = "may", !.id = i])
  /\ UNCHANGED <<areas, rows, nextId, blob, links, faults, stale, lapped>>

\* may_attach looks the file and its area up again.
May(w) ==
  /\ job[w].at = "may"
  /\ IF Exists(job[w].id) /\ CanUse(w, Row(job[w].id).area)
       THEN Step(w, "may", "count")
       ELSE Ends(w, "may")
  /\ UNCHANGED <<areas, rows, nextId, blob, links, faults, stale, lapped>>

Count(w) ==
  /\ IF MaxAttachments = 0 \/ Cardinality({l \in links : l[1] = w}) < MaxAttachments
       THEN Step(w, "count", "link")
       ELSE Ends(w, "count")
  /\ UNCHANGED <<areas, rows, nextId, blob, links, faults, stale, lapped>>

\* The foreign key refuses a link to a file that has gone meanwhile.
Link(w) ==
  /\ Ends(w, "link")
  /\ links' = links \cup {<<w, i>> : i \in {x \in {job[w].id} : Exists(x)}}
  /\ UNCHANGED <<areas, rows, nextId, blob, faults, stale, lapped>>

-----------------------------------------------------------------------------
(* The operator's areas, failed statements, and crashes.                       *)

AddArea(w, a) ==
  /\ w \in Ctl
  /\ job[w] = Idle
  /\ areas[a] = "new"
  /\ areas' = [areas EXCEPT ![a] = "there"]
  /\ UNCHANGED <<rows, nextId, blob, links, job, faults, stale, lapped>>

\* delete_area counts the files ...
CountFiles(w, a) ==
  /\ w \in Ctl
  /\ areas[a] = "there"
  /\ \A r \in rows : r.area # a
  /\ Begins(w, [Idle EXCEPT !.at = "area", !.area = a])
  /\ UNCHANGED <<areas, rows, nextId, blob, links, faults, stale, lapped>>

\* ... and what is inserted before its DELETE is caught by the foreign key only.
AreaInUse(a) == \E r \in rows : r.area = a

DeleteArea(w) ==
  /\ job[w].at = "area"
  /\ Ends(w, "area")
  /\ areas' = IF AreaInUse(job[w].area) THEN areas
              ELSE [areas EXCEPT ![job[w].area] = "gone"]
  /\ UNCHANGED <<rows, nextId, blob, links, faults, stale, lapped>>

\* The database refuses a statement, or the disk a read, a removal or bbsctl's
\* directory: the operation ends where it is.  Of a refused rollback nobody hears,
\* and the row of an upload stays when what comes after its INSERT fails.
Fails(w) ==
  /\ faults < MaxFaults
  /\ job[w].at \notin {"idle", "fill"}
  /\ job[w].at = "create" => w \in Ctl
  /\ Ends(w, job[w].at)
  /\ faults' = faults + 1
  /\ stale' = stale \cup {i \in {job[w].id} : job[w].at \in {"path", "fetch", "create", "undo"}}
  /\ UNCHANGED <<areas, rows, nextId, blob, links, lapped>>

\* The server dies and is started again; nothing looks for what was cut short.
Crash ==
  /\ faults < MaxFaults
  /\ faults' = faults + 1
  /\ job' = [w \in Workers |-> IF w \in Ctl THEN job[w] ELSE Idle]
  /\ stale' = stale \cup {job[w].id : w \in {v \in Workers \ Ctl : job[v].at \in
                {"path", "fetch", "create", "fill", "undo"}}}
  /\ UNCHANGED <<areas, rows, nextId, blob, links, lapped>>

-----------------------------------------------------------------------------
Proceed(w) ==
  \/ Admit(w) \/ Quota(w) \/ Insert(w) \/ SetPath(w) \/ Fetch(w) \/ Create(w) \/ Fill(w)
  \/ WriteFails(w) \/ RollBack(w)
  \/ Select(w) \/ Delete(w) \/ RemoveBlob(w)
  \/ Read(w) \/ Close(w)
  \/ May(w) \/ Count(w) \/ Link(w)
  \/ DeleteArea(w)
  \/ Fails(w)

Next ==
  \/ \E w \in Workers :
       \/ Proceed(w)
       \/ \E a \in Areas, n \in Names : \/ \E s \in Sizes : OpenWrite(w, a, n, s)
                                        \/ Resolve(w, a, n)
                                        \/ Seek(w, a, n)
       \/ \E i \in Ids : Stage(w, i)
       \/ \E a \in Areas : AddArea(w, a) \/ CountFiles(w, a)
  \/ Crash

Spec == Init /\ [][Next]_vars

-----------------------------------------------------------------------------
(* Properties. *)

\* Types; rows have distinct ids, below the counter.
TypeOK ==
  /\ areas \in [Areas -> {"new", "there", "gone"}]
  /\ rows \subseteq [id : Ids, area : Areas, owner : {UserOf[w] : w \in Workers},
                     name : Names, size : Sizes, filed : BOOLEAN]
  /\ \A r, q \in rows : r.id = q.id => r = q
  /\ nextId \in 1 .. MaxFiles + 1
  /\ blob \in [Ids -> {"absent", "partial", "whole"}]
  /\ links \subseteq (Workers \ Ctl) \X Ids
  /\ \A w \in Workers : job[w].id \in Ids \cup {0}
  /\ faults \in 0 .. MaxFaults
  /\ stale \subseteq Ids
  /\ lapped \subseteq {UserOf[w] : w \in Workers}

\* A file that is listed can be had: once its upload is over, its blob is there
\* in full, whatever other uploads and removals went on beside it, and whether or
\* not the disk refused a write (finish_upload's rollback, add_file's ids).  An
\* upload that a crash or a failed statement cut short is excepted: its row stays.
ListedIsThere ==
  \A r \in rows : r.id \notin stale /\ ~Uploading(r.id) => blob[r.id] = "whole"

\* Nothing is on disk that no row leads to, but what is being removed.  The code
\* breaks this: a failed write leaves what it wrote when the row is taken back
\* (finish_upload, Cmd::AddFile), and so do a removal during an upload, a removal
\* whose file could not be deleted, and a crash between the two.
NoOrphan ==
  \A i \in Ids : blob[i] # "absent" =>
     Exists(i) \/ \E w \in Workers : job[w].at = "unlink" /\ job[w].id = i

\* The quota holds for users whose uploads did not overlap (add_file).
QuotaHolds ==
  \A w \in Workers : LET u == UserOf[w] IN
     UserQuota = 0 \/ u \in Admins \cup lapped \/ Usage(u) <= UserQuota

\* A row never outlives its area, though the area is counted and deleted in two
\* statements and a row checked and inserted in several (delete_area, add_file).
AreaOfFile == \A r \in rows : areas[r.area] = "there"

\* A post carries no more files than allowed, all of them existing files its
\* author may read.
LinksAreGood ==
  \A w \in Workers : LET ids == {l[2] : l \in {x \in links : x[1] = w}} IN
     /\ MaxAttachments = 0 \/ Cardinality(ids) <= MaxAttachments
     /\ \A i \in ids : Exists(i) /\ CanUse(w, Row(i).area)

\* The download of a file that is still listed comes out short only while its
\* upload is going on, or where a crash or a failed statement has cut it short.
TornOnlyMidway ==
  [][\A w \in Workers : job[w].at = "read" /\ job'[w].name = "partial" =>
        ~Exists(job[w].id) \/ Uploading(job[w].id) \/ job[w].id \in stale]_vars

=============================================================================
