---------------------------- MODULE Boards_proofs ----------------------------
(***************************************************************************)
(* Proofs about Boards, for every set of accounts, sessions and boards and *)
(* every limit: the types; the rate limit past which the sessions of one   *)
(* user can only go by what they had checked beforehand; the watermark,    *)
(* under which nothing a visit has shown counts as new again; the listing  *)
(* of a board, which ends and leaves no post out; and the foreign keys,    *)
(* with which nothing outlives what it belongs to.                         *)
(***************************************************************************)
EXTENDS Boards, FiniteSetTheorems, TLAPS

-----------------------------------------------------------------------------
(* The inductive invariant. *)

PostType ==
  [id : Ids, board : BoardIds, author : Users \cup {Stranger},
   at : 0 .. MaxNow, parent : Ids \cup {None},
   pinned : BOOLEAN, edited : BOOLEAN]

ReactType == [post : Ids, by : Users, at : 0 .. MaxNow]

\* What a session can be at, and the values it holds there.
JobType ==
  [at : {"idle"}]
  \cup [at : {"parent", "rate", "insert"}, board : BoardIds, parent : Ids \cup {None}]
  \cup [at : {"stamp"}, board : BoardIds, list : SUBSET Ids]
  \cup [at : {"mark"}, board : BoardIds, list : SUBSET Ids, time : 0 .. MaxNow]
  \cup [at : {"clear", "refused", "react", "unreact"}, post : Ids]
  \cup [at : {"cast"}, choice : Options]

Types ==
  /\ TypeOK
  /\ reacts \subseteq ReactType
  /\ poll \in {"none", "open", "closed", "gone"}
  /\ job \in [Sessions -> JobType]
  /\ shown \in [Users -> SUBSET Ids]

\* An id belongs to one post, no post has one still to be given out, and none
\* is from the future.
PostsHold ==
  /\ IsFiniteSet(posts)
  /\ \A p \in posts : p.id <= made /\ p.at <= now
  /\ \A p, q \in posts : p.id = q.id => p = q

\* A visit lists posts of its board, none younger than the time it takes.
VisitHolds(s) ==
  /\ job[s].at \in {"stamp", "mark"} =>
       /\ \A i \in job[s].list : i <= made
       /\ \A p \in posts : p.id \in job[s].list => p.board = job[s].board
  /\ job[s].at = "mark" =>
       /\ job[s].time <= now
       /\ \A p \in posts : p.id \in job[s].list => p.at <= job[s].time

VisitsHold == \A s \in Sessions : VisitHolds(s)

\* The watermark of a board is past every post of it that was shown.
SeenHolds ==
  \A u \in Users :
     /\ \A i \in shown[u] : i <= made
     /\ \A p \in posts : p.id \in shown[u] => p.at <= seen[<<u, p.board>>]

\* The sessions of a user that have passed the check and not inserted yet.
Inserting(u) == {s \in Sessions : UserOf[s] = u /\ job[s].at = "insert"}

\* While a window is still open, the inserts under way will land in it.
RateHolds(u, t) ==
  /\ Cardinality(Within(u, t)) < MaxPerWindow + Cardinality(SessionsOf(u))
  /\ now <= t + Window =>
       Cardinality(Within(u, t)) + Cardinality(Inserting(u))
         < MaxPerWindow + Cardinality(SessionsOf(u))

RatesHold ==
  Unlimited \/ \A u \in Users \ Admins, t \in 0 .. MaxNow : RateHolds(u, t)

IInv == /\ Types
        /\ PostsHold
        /\ VisitsHold
        /\ SeenHolds
        /\ RatesHold

-----------------------------------------------------------------------------
(* What a session holds, and what a step that only moves it leaves alone.   *)

\* The fields a job has, by what the session is at.
LEMMA JobShape ==
  ASSUME Types, NEW s \in Sessions
  PROVE  /\ job[s] \in JobType
         /\ job[s].at \in {"parent", "rate", "insert"} =>
              job[s].board \in BoardIds /\ job[s].parent \in Ids \cup {None}
         /\ job[s].at \in {"stamp", "mark"} =>
              job[s].board \in BoardIds /\ job[s].list \in SUBSET Ids
         /\ job[s].at = "mark" => job[s].time \in 0 .. MaxNow
         /\ job[s].at \in {"clear", "refused", "react", "unreact"} =>
              job[s].post \in Ids
         /\ job[s].at = "cast" => job[s].choice \in Options
<1>1. job[s] \in JobType
  BY DEF Types
<1>2. QED
  BY <1>1 DEF JobType

\* Nothing is held by a session that is idle.
LEMMA IdleIsAJob == Idle \in JobType /\ Idle.at = "idle"
BY DEF Idle, JobType

\* The users are sessions' owners, and the bounds are naturals.
LEMMA Bounds ==
  /\ \A s \in Sessions : UserOf[s] \in Users
  /\ Stranger \notin Users
  /\ Window \in Nat /\ MaxPerWindow \in Nat
  /\ MaxPosts \in Nat /\ MaxNow \in Nat
  /\ IsFiniteSet(Sessions)
BY BoardsAssumption

\* A session's step to a job j changes no other session's job.
LEMMA Moved ==
  ASSUME Types, NEW s \in Sessions, NEW j, j \in JobType, Becomes(s, j)
  PROVE  /\ job' \in [Sessions -> JobType]
         /\ job'[s] = j
         /\ \A x \in Sessions : x # s => job'[x] = job[x]
BY DEF Types, Becomes

\* The sets that are counted are finite.
LEMMA Counted ==
  ASSUME NEW u
  PROVE  /\ IsFiniteSet(Inserting(u))
         /\ IsFiniteSet(SessionsOf(u))
         /\ Cardinality(Inserting(u)) \in Nat
         /\ Cardinality(SessionsOf(u)) \in Nat
         /\ Cardinality(Inserting(u)) <= Cardinality(SessionsOf(u))
<1>1. Inserting(u) \subseteq SessionsOf(u) /\ SessionsOf(u) \subseteq Sessions
  BY DEF Inserting, SessionsOf
<1>2. IsFiniteSet(SessionsOf(u))
  BY <1>1, Bounds, FS_Subset
<1>3. QED
  BY <1>1, <1>2, FS_Subset, FS_CardinalityType

LEMMA PostsCounted ==
  ASSUME PostsHold, NEW u, NEW t
  PROVE  /\ IsFiniteSet(Within(u, t))
         /\ Cardinality(Within(u, t)) \in Nat
<1>1. Within(u, t) \subseteq posts
  BY DEF Within
<1>2. QED
  BY <1>1, FS_Subset, FS_CardinalityType DEF PostsHold

\* A window that holds no more posts, with no more inserts under way and the
\* clock no earlier, stays within the limit.
LEMMA RateKeeps ==
  ASSUME PostsHold, PostsHold', now \in Nat, now' \in Nat, now <= now',
         NEW u \in Users, NEW t \in 0 .. MaxNow, RateHolds(u, t),
         Cardinality(Within(u, t)') <= Cardinality(Within(u, t)),
         Inserting(u)' \subseteq Inserting(u)
  PROVE  RateHolds(u, t)'
<1> DEFINE w  == Cardinality(Within(u, t))
           x  == Cardinality(Within(u, t)')
           i  == Cardinality(Inserting(u))
           k  == Cardinality(Inserting(u)')
           n  == Cardinality(SessionsOf(u))
<1>0. Within(u, t)' \subseteq posts'
  BY DEF Within
<1>1. w \in Nat /\ x \in Nat /\ i \in Nat /\ n \in Nat
  BY <1>0, Counted, PostsCounted, FS_Subset, FS_CardinalityType DEF PostsHold
<1>2. k \in Nat /\ k <= i
  BY Counted, FS_Subset, FS_CardinalityType
<1>3. /\ w < MaxPerWindow + n
      /\ now <= t + Window => w + i < MaxPerWindow + n
  BY DEF RateHolds
<1>4. x <= w
  OBVIOUS
<1>5. n' = n
  BY DEF SessionsOf
<1> HIDE DEF w, x, i, k, n
<1>6. /\ x < MaxPerWindow + n
      /\ now' <= t + Window => x + k < MaxPerWindow + n
  BY <1>1, <1>2, <1>3, <1>4, Bounds
<1>7. QED
  BY <1>5, <1>6 DEF RateHolds, w, x, i, k, n
-----------------------------------------------------------------------------
(* What most steps have in common. *)

\* No session lists a board or reads the time.
NoVisit == \A x \in Sessions : \/ job'[x] = job[x]
                               \/ job'[x].at \notin {"stamp", "mark"}

\* No session passes the check of a post.
NoCheck == \A x \in Sessions : \/ job'[x] = job[x]
                               \/ job'[x].at # "insert"

\* Every post is new, or is one there was: with its board, its time and its
\* author, whatever else became of it.
Old(p, q) == q.id = p.id /\ q.board = p.board /\ q.at = p.at /\ q.author = p.author

LEMMA Carried ==
  ASSUME Types, Types', VisitsHold, SeenHolds, NoVisit,
         now <= now', made <= made', seen' = seen, shown' = shown,
         \A p \in posts' : p.id > made \/ \E q \in posts : Old(p, q)
  PROVE  VisitsHold' /\ SeenHolds'
<1>0. /\ now \in Nat /\ now' \in Nat /\ made \in Nat /\ made' \in Nat
      /\ \A s \in Sessions : \A i \in job[s].list :
            job[s].at \in {"stamp", "mark"} => i \in Nat
      /\ \A s \in Sessions : job[s].at = "mark" => job[s].time \in Nat
      /\ \A u \in Users : \A i \in shown[u] : i \in Nat
      /\ \A p \in posts' : p.id \in Nat
  <2>1. now \in Nat /\ now' \in Nat /\ made \in Nat /\ made' \in Nat
    BY Bounds DEF Types, TypeOK
  <2>2. /\ \A s \in Sessions : \A i \in job[s].list :
              job[s].at \in {"stamp", "mark"} => i \in Nat
        /\ \A s \in Sessions : job[s].at = "mark" => job[s].time \in Nat
    BY JobShape, Bounds DEF Ids
  <2>3. \A u \in Users : \A i \in shown[u] : i \in Nat
    BY Bounds DEF Types, Ids
  <2>4. \A p \in posts' : p.id \in Nat
    BY Bounds DEF Types, TypeOK, Ids
  <2>5. QED
    BY <2>1, <2>2, <2>3, <2>4
<1>1. ASSUME NEW s \in Sessions PROVE VisitHolds(s)'
  <2>1. CASE job'[s] = job[s]
    <3>1. VisitHolds(s)
      BY DEF VisitsHold
    <3>2. job[s].at \in {"stamp", "mark"} =>
            /\ \A i \in job[s].list : i <= made'
            /\ \A p \in posts' : p.id \in job[s].list =>
                 p.board = job[s].board
      BY <3>1, <1>0 DEF VisitHolds, Old
    <3>3. job[s].at = "mark" =>
            /\ job[s].time <= now'
            /\ \A p \in posts' : p.id \in job[s].list => p.at <= job[s].time
      BY <3>1, <1>0 DEF VisitHolds, Old
    <3>4. QED
      BY <2>1, <3>2, <3>3 DEF VisitHolds
  <2>2. CASE job'[s].at \notin {"stamp", "mark"}
    BY <2>2 DEF VisitHolds
  <2>3. QED
    BY <2>1, <2>2 DEF NoVisit
<1>2. SeenHolds'
  <2>1. \A u \in Users : \A i \in shown[u] : i <= made'
    BY <1>0 DEF SeenHolds
  <2>2. ASSUME NEW u \in Users, NEW p \in posts', p.id \in shown[u]
        PROVE  p.at <= seen[<<u, p.board>>]
    <3>1. ~(p.id > made)
      BY <2>2, <1>0 DEF SeenHolds
    <3>2. PICK q \in posts : Old(p, q)
      BY <3>1
    <3>3. QED
      BY <2>2, <3>2 DEF SeenHolds, Old
  <2>3. QED
    BY <2>1, <2>2 DEF SeenHolds
<1>3. QED
  BY <1>1, <1>2 DEF VisitsHold

LEMMA RatesKeep ==
  ASSUME Types, Types', PostsHold, PostsHold', RatesHold, NoCheck, now <= now',
         \A u \in Users, t \in 0 .. MaxNow :
            Cardinality(Within(u, t)') <= Cardinality(Within(u, t))
  PROVE  RatesHold'
<1>1. CASE Unlimited
  BY <1>1 DEF RatesHold, Unlimited
<1>2. CASE ~Unlimited
  <2>1. now \in Nat /\ now' \in Nat
    BY Bounds DEF Types, TypeOK
  <2>2. ASSUME NEW u \in Users \ Admins, NEW t \in 0 .. MaxNow
        PROVE  RateHolds(u, t)'
    <3>1. RateHolds(u, t)
      BY <1>2 DEF RatesHold
    <3>2. Inserting(u)' \subseteq Inserting(u)
      BY DEF NoCheck, Inserting
    <3>3. QED
      BY <2>1, <3>1, <3>2, RateKeeps
  <2>3. QED
    BY <2>2 DEF RatesHold
<1>3. QED
  BY <1>1, <1>2

\* A step that leaves the posts, the clock and the watermarks.
LEMMA Still ==
  ASSUME Types, Types', PostsHold, VisitsHold, SeenHolds, RatesHold,
         NoVisit, NoCheck, UNCHANGED <<now, posts, made, seen, shown>>
  PROVE  PostsHold' /\ VisitsHold' /\ SeenHolds' /\ RatesHold'
<1>1. PostsHold'
  BY DEF PostsHold
<1>2. now \in Nat /\ made \in Nat
  BY Bounds DEF Types, TypeOK
<1>3. VisitsHold' /\ SeenHolds'
  <2>1. \A p \in posts' : \E q \in posts : Old(p, q)
    BY DEF Old
  <2>2. now <= now' /\ made <= made'
    BY <1>2
  <2>3. QED
    BY <2>1, <2>2, Carried
<1>4. RatesHold'
  <2>1. ASSUME NEW u \in Users, NEW t \in 0 .. MaxNow
        PROVE  Cardinality(Within(u, t)') <= Cardinality(Within(u, t))
    <3>1. Within(u, t)' = Within(u, t)
      BY DEF Within
    <3>2. QED
      BY <3>1, PostsCounted
  <2>2. now <= now'
    BY <1>2
  <2>3. QED
    BY <1>1, <2>1, <2>2, RatesKeep
<1>5. QED
  BY <1>1, <1>3, <1>4

\* A post is rewritten in place: its id, board, author and time stay.
LEMMA Rewritten ==
  ASSUME Types, Types', PostsHold, VisitsHold, SeenHolds, RatesHold,
         UNCHANGED <<now, made, seen, shown, job>>,
         NEW p \in posts, NEW q, Old(q, p), posts' = (posts \ {p}) \cup {q}
  PROVE  PostsHold' /\ VisitsHold' /\ SeenHolds' /\ RatesHold'
<1>0. NoVisit /\ NoCheck
  BY DEF NoVisit, NoCheck
<1>1. PostsHold'
  <2>1. IsFiniteSet(posts')
    <3>1. IsFiniteSet(posts \ {p})
      BY FS_Subset DEF PostsHold
    <3>2. QED
      BY <3>1, FS_AddElement
  <2>2. \A x \in posts' : x.id <= made' /\ x.at <= now'
    BY DEF PostsHold, Old
  <2>3. \A x, y \in posts' : x.id = y.id => x = y
    BY DEF PostsHold, Old
  <2>4. QED
    BY <2>1, <2>2, <2>3 DEF PostsHold
<1>2. now \in Nat /\ made \in Nat /\ now <= now' /\ made <= made'
  BY Bounds DEF Types, TypeOK
<1>3. VisitsHold' /\ SeenHolds'
  <2>1. \A x \in posts' : \E y \in posts : Old(x, y)
    BY DEF Old
  <2>2. QED
    BY <1>0, <1>2, <2>1, Carried
<1>4. RatesHold'
  <2>1. ASSUME NEW u \in Users, NEW t \in 0 .. MaxNow
        PROVE  Cardinality(Within(u, t)') <= Cardinality(Within(u, t))
    <3>0. IsFiniteSet(Within(u, t)) /\ Cardinality(Within(u, t)) \in Nat
      BY PostsCounted
    <3>1. CASE p \in Within(u, t)
      <4>1. Within(u, t)' = (Within(u, t) \ {p}) \cup {q}
        BY <3>1 DEF Within, Old
      <4>2. /\ IsFiniteSet(Within(u, t) \ {p})
            /\ Cardinality(Within(u, t) \ {p}) = Cardinality(Within(u, t)) - 1
        BY <3>0, <3>1, FS_RemoveElement
      <4>3. Cardinality((Within(u, t) \ {p}) \cup {q})
              <= Cardinality(Within(u, t))
        <5> DEFINE rest == Within(u, t) \ {p}
        <5>1. Cardinality(rest \cup {q}) \in {Cardinality(rest),
                                              Cardinality(rest) + 1}
          BY <4>2, FS_AddElement
        <5>2. QED
          BY <3>0, <4>2, <5>1
      <4>4. QED
        BY <4>1, <4>3
    <3>2. CASE p \notin Within(u, t)
      <4>1. Within(u, t)' = Within(u, t)
        BY <3>2 DEF Within, Old
      <4>2. QED
        BY <3>0, <4>1
    <3>3. QED
      BY <3>1, <3>2
  <2>2. QED
    BY <1>0, <1>1, <1>2, <2>1, RatesKeep
<1>5. QED
  BY <1>1, <1>3, <1>4

\* A post is removed.
LEMMA Removed ==
  ASSUME Types, Types', PostsHold, VisitsHold, SeenHolds, RatesHold,
         NoVisit, NoCheck,
         UNCHANGED <<now, made, seen, shown>>,
         posts' \subseteq posts
  PROVE  PostsHold' /\ VisitsHold' /\ SeenHolds' /\ RatesHold'
<1>1. PostsHold'
  BY FS_Subset DEF PostsHold
<1>2. now \in Nat /\ made \in Nat /\ now <= now' /\ made <= made'
  BY Bounds DEF Types, TypeOK
<1>3. VisitsHold' /\ SeenHolds'
  <2>1. \A x \in posts' : \E y \in posts : Old(x, y)
    BY DEF Old
  <2>2. QED
    BY <1>2, <2>1, Carried
<1>4. RatesHold'
  <2>1. ASSUME NEW u \in Users, NEW t \in 0 .. MaxNow
        PROVE  Cardinality(Within(u, t)') <= Cardinality(Within(u, t))
    <3>1. Within(u, t)' \subseteq Within(u, t)
      BY DEF Within
    <3>2. QED
      BY <3>1, PostsCounted, FS_Subset
  <2>2. QED
    BY <1>1, <1>2, <2>1, RatesKeep
<1>5. QED
  BY <1>1, <1>3, <1>4

\* A session goes to a step that is none of these.
LEMMA Quiet ==
  ASSUME IInv, Types', NEW s \in Sessions, NEW j, j \in JobType, Becomes(s, j),
         j.at \notin {"insert", "stamp", "mark"},
         UNCHANGED <<now, posts, made, seen, shown>>
  PROVE  IInv'
<1>0. /\ job'[s] = j
      /\ \A x \in Sessions : x # s => job'[x] = job[x]
  BY Moved DEF IInv
<1>1. NoVisit /\ NoCheck
  BY <1>0 DEF NoVisit, NoCheck
<1>2. PostsHold' /\ VisitsHold' /\ SeenHolds' /\ RatesHold'
  BY <1>1, Still DEF IInv
<1>3. QED
  BY <1>2 DEF IInv

-----------------------------------------------------------------------------
(* Posting. *)

LEMMA CheckBoardKeeps ==
  ASSUME IInv, NEW s \in Sessions, NEW b \in BoardIds,
         NEW i \in Ids \cup {None}, CheckBoard(s, b, i)
  PROVE  IInv'
<1> DEFINE j == [at |-> IF i = None THEN "rate" ELSE "parent",
                 board |-> b, parent |-> i]
<1>1. /\ Becomes(s, j)
      /\ UNCHANGED <<now, posts, made, lock, staff, seen, reacts, poll, votes,
                     shown>>
  BY DEF CheckBoard, rows, booth
<1>2. j \in JobType /\ j.at \in {"parent", "rate"}
  BY DEF JobType
<1> HIDE DEF j
<1>3. Types'
  BY <1>1, <1>2, Moved DEF IInv, Types, TypeOK
<1>4. QED
  BY <1>1, <1>2, <1>3, Quiet

\* The session goes on with its post, or gives up.
LEMMA PostGoesOn ==
  ASSUME IInv, NEW s \in Sessions, job[s].at \in {"parent", "rate"}, NEW at,
         at \in {"rate", "insert"}
  PROVE  /\ [job[s] EXCEPT !.at = at] \in JobType
         /\ [job[s] EXCEPT !.at = at].at = at
<1>1. job[s] \in [at : {"parent", "rate", "insert"}, board : BoardIds,
                  parent : Ids \cup {None}]
  BY JobShape DEF IInv, JobType
<1>2. QED
  BY <1>1 DEF JobType

LEMMA CheckParentKeeps ==
  ASSUME IInv, NEW s \in Sessions, CheckParent(s)
  PROVE  IInv'
<1>1. job[s].at = "parent" /\ UNCHANGED <<now, posts, made, lock, staff, seen,
                                         reacts, poll, votes, shown>>
  BY DEF CheckParent, rows, booth
<1>2. PICK j \in JobType : j.at \in {"idle", "rate"} /\ Becomes(s, j)
  BY <1>1, PostGoesOn, IdleIsAJob DEF CheckParent, Done
<1>3. Types'
  BY <1>1, <1>2, Moved DEF IInv, Types, TypeOK
<1>4. QED
  BY <1>1, <1>2, <1>3, Quiet

LEMMA CheckRateKeeps ==
  ASSUME IInv, NEW s \in Sessions, MayPost(s), CheckRate(s)
  PROVE  IInv'
<1> DEFINE j == [job[s] EXCEPT !.at = "insert"]
<1>0. /\ job[s].at = "rate" /\ MayPost(s) /\ Becomes(s, j)
      /\ UNCHANGED <<now, posts, made, lock, staff, seen, reacts, poll, votes,
                     shown>>
  BY DEF CheckRate, rows, booth
<1>1. j \in JobType /\ j.at = "insert"
  BY <1>0, PostGoesOn
<1> HIDE DEF j
<1>2. /\ job' \in [Sessions -> JobType]
      /\ job'[s] = j
      /\ \A x \in Sessions : x # s => job'[x] = job[x]
  BY <1>0, <1>1, Moved DEF IInv
<1>3. Types'
  BY <1>0, <1>2 DEF IInv, Types, TypeOK
<1>4. PostsHold'
  BY <1>0 DEF IInv, PostsHold
<1>5. now \in Nat /\ made \in Nat
  BY Bounds DEF IInv, Types, TypeOK
<1>6. VisitsHold' /\ SeenHolds'
  <2>1. NoVisit
    BY <1>1, <1>2 DEF NoVisit
  <2>2. \A p \in posts' : \E q \in posts : Old(p, q)
    BY <1>0 DEF Old
  <2>3. now <= now' /\ made <= made'
    BY <1>0, <1>5
  <2>4. QED
    BY <1>0, <1>3, <2>1, <2>2, <2>3, Carried DEF IInv
<1>7. RatesHold'
  <2>1. CASE Unlimited
    BY <2>1 DEF RatesHold, Unlimited
  <2>2. ASSUME ~Unlimited, NEW u \in Users \ Admins, NEW t \in 0 .. MaxNow
        PROVE  RateHolds(u, t)'
    <3>0. RateHolds(u, t) /\ PostsHold
      BY <2>2 DEF IInv, RatesHold
    <3>1. Within(u, t)' = Within(u, t)
      BY <1>0 DEF Within
    <3>2. CASE UserOf[s] # u
      <4>1. Inserting(u)' = Inserting(u)
        BY <1>2, <3>2 DEF Inserting
      <4>2. QED
        BY <1>0, <3>0, <3>1, <4>1 DEF RateHolds, SessionsOf
    <3>3. CASE UserOf[s] = u
      \* The check met fewer posts in the window that ends now than the limit.
      <4>1. Recent(u) < MaxPerWindow
        BY <1>0, <2>2, <3>3 DEF MayPost, IsAdmin
      <4>2. SUFFICES ASSUME now <= t + Window
                     PROVE  RateHolds(u, t)'
        BY <1>0, <3>0, <3>1, Bounds, <1>5 DEF RateHolds, SessionsOf
      <4>3. Cardinality(Within(u, t)) <= Recent(u)
        <5> DEFINE recent == {p \in posts : p.author = u /\ InWindow(p.at)}
        <5>1. ASSUME NEW p \in posts, p.at \in t .. t + Window
              PROVE  InWindow(p.at)
          <6>1. p.at \in Nat /\ t \in Nat /\ Window \in Nat
            BY Bounds DEF IInv, Types, TypeOK
          <6>2. t <= p.at
            BY <5>1, <6>1
          <6>3. QED
            BY <1>5, <4>2, <6>1, <6>2 DEF InWindow
        <5>2. Within(u, t) \subseteq recent
          BY <5>1 DEF Within
        <5>3. IsFiniteSet(recent)
          BY <3>0, FS_Subset DEF PostsHold
        <5>4. QED
          BY <5>2, <5>3, FS_Subset DEF Recent
      <4>4. /\ Cardinality(Within(u, t)) \in Nat
            /\ Cardinality(SessionsOf(u)) \in Nat
            /\ Cardinality(Inserting(u)') \in Nat
            /\ Cardinality(Inserting(u)') <= Cardinality(SessionsOf(u))
            /\ Recent(u) \in Nat
        <5>1. Inserting(u)' \subseteq SessionsOf(u)
          BY DEF Inserting, SessionsOf
        <5>2. Recent(u) \in Nat
          <6>1. {p \in posts : p.author = u /\ InWindow(p.at)} \subseteq posts
            OBVIOUS
          <6>2. QED
            BY <3>0, <6>1, FS_Subset, FS_CardinalityType DEF Recent, PostsHold
        <5>3. QED
          BY <3>0, <5>1, <5>2, Counted, PostsCounted, FS_Subset,
             FS_CardinalityType
      <4>5. Cardinality(Within(u, t)) + Cardinality(Inserting(u)')
              < MaxPerWindow + Cardinality(SessionsOf(u))
        BY <4>1, <4>3, <4>4, Bounds
      <4>6. Cardinality(Within(u, t))
              < MaxPerWindow + Cardinality(SessionsOf(u))
        BY <3>0 DEF RateHolds
      <4>7. QED
        BY <3>1, <4>5, <4>6 DEF RateHolds, SessionsOf
    <3>4. QED
      BY <3>2, <3>3
  <2>3. QED
    BY <2>1, <2>2 DEF RatesHold, Unlimited
<1>8. QED
  BY <1>3, <1>4, <1>6, <1>7 DEF IInv

LEMMA RateRefuses ==
  ASSUME IInv, NEW s \in Sessions, ~MayPost(s), CheckRate(s)
  PROVE  IInv'
<1>1. /\ Becomes(s, Idle)
      /\ UNCHANGED <<now, posts, made, lock, staff, seen, reacts, poll, votes,
                     shown>>
  BY DEF CheckRate, Done, rows, booth
<1>2. Types'
  BY <1>1, IdleIsAJob, Moved DEF IInv, Types, TypeOK
<1>3. QED
  BY <1>1, <1>2, IdleIsAJob, Quiet

\* A post comes after all there were: it gets an id that no list holds.
LEMMA Arrived ==
  ASSUME IInv, Types', NoVisit, UNCHANGED <<now, seen, shown>>,
         NEW b \in BoardIds, NEW u, NEW i,
         posts' = posts \cup {NewPost(b, u, i)}, made' = made + 1
  PROVE  PostsHold' /\ VisitsHold' /\ SeenHolds'
<1> DEFINE n == NewPost(b, u, i)
<1>0. now \in Nat /\ made \in Nat /\ \A p \in posts : p.id \in Nat
  BY Bounds DEF IInv, Types, TypeOK, Ids
<1>1. n.id = made + 1 /\ n.at = now
  BY DEF NewPost
<1> HIDE DEF n
<1>2. IsFiniteSet(posts')
  BY FS_AddElement DEF IInv, PostsHold, n
<1>3. PostsHold'
  <2>1. \A p \in posts' : p.id <= made' /\ p.at <= now'
    BY <1>0, <1>1 DEF IInv, PostsHold, n
  <2>2. \A p \in posts : p.id # n.id
    BY <1>0, <1>1 DEF IInv, PostsHold
  <2>3. \A p, q \in posts' : p.id = q.id => p = q
    BY <2>2 DEF IInv, PostsHold, n
  <2>4. QED
    BY <1>2, <2>1, <2>3 DEF PostsHold
<1>4. \A p \in posts' : p.id > made \/ \E q \in posts : Old(p, q)
  BY <1>0, <1>1 DEF Old, n
<1>5. now <= now' /\ made <= made'
  BY <1>0
<1>6. QED
  BY <1>3, <1>4, <1>5, Carried DEF IInv

LEMMA InsertPostKeeps ==
  ASSUME IInv, NEW s \in Sessions, InsertPost(s)
  PROVE  IInv'
<1> DEFINE b == job[s].board
           i == job[s].parent
           n == NewPost(b, UserOf[s], i)
<1>0. /\ job[s].at = "insert" /\ Becomes(s, Idle)
      /\ UNCHANGED <<now, lock, staff, seen, reacts, poll, votes, shown>>
  BY DEF InsertPost, Done, booth
<1>1. b \in BoardIds /\ i \in Ids \cup {None}
  BY <1>0, JobShape DEF IInv
<1>2. /\ job' \in [Sessions -> JobType]
      /\ job'[s] = Idle
      /\ \A x \in Sessions : x # s => job'[x] = job[x]
  BY <1>0, IdleIsAJob, Moved DEF IInv
<1>3. NoVisit /\ NoCheck
  BY <1>2, IdleIsAJob DEF NoVisit, NoCheck
<1>4. CASE UNCHANGED <<posts, made>>
  <2>1. Types'
    BY <1>0, <1>2, <1>4 DEF IInv, Types, TypeOK
  <2>2. PostsHold' /\ VisitsHold' /\ SeenHolds' /\ RatesHold'
    BY <1>0, <1>3, <1>4, <2>1, Still DEF IInv
  <2>3. QED
    BY <2>1, <2>2 DEF IInv
<1>5. CASE /\ made < MaxPosts
           /\ posts' = posts \cup {n}
           /\ made' = made + 1
  <2>0. now \in Nat /\ made \in Nat
    BY Bounds DEF IInv, Types, TypeOK
  <2>1. n \in PostType /\ n.author = UserOf[s] /\ n.at = now
    <3>1. made + 1 \in Ids /\ now \in 0 .. MaxNow
      BY <1>5, <2>0, Bounds DEF Ids, IInv, Types, TypeOK
    <3>2. QED
      BY <1>1, <3>1, Bounds DEF NewPost, PostType
  <2>2. Types'
    <3>1. posts' \subseteq PostType
      BY <1>5, <2>1 DEF IInv, Types, TypeOK, PostType
    <3>2. made' \in 0 .. MaxPosts
      BY <1>5, <2>0, Bounds
    <3>3. QED
      BY <1>0, <1>2, <3>1, <3>2 DEF IInv, Types, TypeOK, PostType
  <2>3. PostsHold' /\ VisitsHold' /\ SeenHolds'
    BY <1>0, <1>1, <1>3, <1>5, <2>2, Arrived
  <2> HIDE DEF n
  <2>4. RatesHold'
    <3>1. CASE Unlimited
      BY <3>1 DEF RatesHold, Unlimited
    <3>2. ASSUME ~Unlimited, NEW u \in Users \ Admins, NEW t \in 0 .. MaxNow
          PROVE  RateHolds(u, t)'
      <4>0. RateHolds(u, t) /\ PostsHold
        BY <3>2 DEF IInv, RatesHold
      <4>1. Inserting(u)' \subseteq Inserting(u)
        BY <1>3 DEF NoCheck, Inserting
      <4>2. CASE ~(UserOf[s] = u /\ now \in t .. t + Window)
        <5>1. Within(u, t)' = Within(u, t)
          BY <1>5, <2>1, <4>2 DEF Within
        <5>2. Cardinality(Within(u, t)') <= Cardinality(Within(u, t))
          BY <4>0, <5>1, PostsCounted
        <5>3. now <= now'
          BY <1>0, <2>0
        <5>4. QED
          BY <1>0, <2>0, <2>3, <4>0, <4>1, <5>2, <5>3, RateKeeps
      \* One post more, and one insert under way less.
      <4>3. CASE UserOf[s] = u /\ now \in t .. t + Window
        <5>1. Within(u, t)' = Within(u, t) \cup {n}
          BY <1>5, <2>1, <4>3 DEF Within
        <5>2. Inserting(u)' = Inserting(u) \ {s} /\ s \in Inserting(u)
          BY <1>0, <1>2, <4>3, IdleIsAJob DEF Inserting
        <5> DEFINE w == Cardinality(Within(u, t))
                   x == Cardinality(Within(u, t) \cup {n})
                   k == Cardinality(Inserting(u))
                   m == Cardinality(SessionsOf(u))
        <5>3. w \in Nat /\ k \in Nat /\ m \in Nat /\ x \in Nat /\ x <= w + 1
          <6>1. x \in {w, w + 1}
            BY <4>0, PostsCounted, FS_AddElement
          <6>2. QED
            BY <4>0, <6>1, PostsCounted, Counted
        <5>4. /\ Cardinality(Inserting(u) \ {s}) = k - 1
              /\ Cardinality(Inserting(u) \ {s}) \in Nat
          BY <5>2, Counted, FS_RemoveElement, FS_CardinalityType
        <5>5. now <= t + Window
          BY <2>0, <4>3, Bounds
        <5>6. w + k < MaxPerWindow + m
          BY <4>0, <5>5 DEF RateHolds
        <5>7. m' = m
          BY DEF SessionsOf
        <5> HIDE DEF w, x, k, m
        <5>8. x < MaxPerWindow + m /\ x + (k - 1) < MaxPerWindow + m
          BY <5>3, <5>4, <5>6, Bounds
        <5>9. QED
          BY <5>1, <5>2, <5>4, <5>7, <5>8 DEF RateHolds, w, x, k, m
      <4>4. QED
        BY <4>2, <4>3
    <3>3. QED
      BY <3>1, <3>2 DEF RatesHold, Unlimited
  <2>5. QED
    BY <2>2, <2>3, <2>4 DEF IInv
<1>6. QED
  BY <1>4, <1>5 DEF InsertPost, rows

LEMMA StoreRemotePostKeeps ==
  ASSUME IInv, NEW b \in BoardIds, NEW i \in Ids \cup {None},
         StoreRemotePost(b, i)
  PROVE  IInv'
<1> DEFINE n == NewPost(b, Stranger, i)
<1>0. /\ made < MaxPosts
      /\ posts' = posts \cup {n} /\ made' = made + 1
      /\ UNCHANGED <<now, lock, staff, seen, reacts, poll, votes, job, shown>>
  BY DEF StoreRemotePost, booth
<1>1. now \in Nat /\ made \in Nat
  BY Bounds DEF IInv, Types, TypeOK
<1>2. n \in PostType /\ n.author = Stranger
  <2>1. made + 1 \in Ids /\ now \in 0 .. MaxNow
    BY <1>0, <1>1, Bounds DEF Ids, IInv, Types, TypeOK
  <2>2. QED
    BY <2>1 DEF NewPost, PostType
<1>3. Types'
  <2>1. posts' \subseteq PostType
    BY <1>0, <1>2 DEF IInv, Types, TypeOK, PostType
  <2>2. made' \in 0 .. MaxPosts
    BY <1>0, <1>1, Bounds
  <2>3. QED
    BY <1>0, <2>1, <2>2 DEF IInv, Types, TypeOK, PostType
<1>4. NoVisit /\ NoCheck
  BY <1>0 DEF NoVisit, NoCheck
<1>5. PostsHold' /\ VisitsHold' /\ SeenHolds'
  BY <1>0, <1>3, <1>4, Arrived
<1>6. RatesHold'
  <2> HIDE DEF n
  <2>1. ASSUME NEW u \in Users, NEW t \in 0 .. MaxNow
        PROVE  Cardinality(Within(u, t)') <= Cardinality(Within(u, t))
    <3>1. Within(u, t)' = Within(u, t)
      BY <1>0, <1>2, Bounds DEF Within
    <3>2. QED
      BY <3>1, PostsCounted DEF IInv
  <2>2. now <= now'
    BY <1>0, <1>1
  <2>3. QED
    BY <1>3, <1>4, <1>5, <2>1, <2>2, RatesKeep DEF IInv
<1>7. QED
  BY <1>3, <1>5, <1>6 DEF IInv
-----------------------------------------------------------------------------
(* Editing and deleting. *)

LEMMA RewriteKeeps ==
  ASSUME IInv, NEW p \in posts, NEW q, q \in PostType, Old(q, p),
         posts' = (posts \ {p}) \cup {q},
         UNCHANGED <<now, made, lock, staff, seen, reacts, poll, votes, job,
                     shown>>
  PROVE  IInv'
<1>1. Types'
  <2>1. posts' \subseteq PostType
    BY DEF IInv, Types, TypeOK, PostType
  <2>2. QED
    BY <2>1 DEF IInv, Types, TypeOK, PostType
<1>2. PostsHold' /\ VisitsHold' /\ SeenHolds' /\ RatesHold'
  BY <1>1, Rewritten DEF IInv
<1>3. QED
  BY <1>1, <1>2 DEF IInv

LEMMA EditOwnMessageKeeps ==
  ASSUME IInv, NEW s \in Sessions, NEW p \in posts, EditOwnMessage(s, p)
  PROVE  IInv'
<1> DEFINE q == [p EXCEPT !.edited = TRUE]
<1>1. p \in PostType
  BY DEF IInv, Types, TypeOK, PostType
<1>2. q \in PostType /\ Old(q, p)
  BY <1>1 DEF PostType, Old
<1>3. QED
  BY <1>2, RewriteKeeps DEF EditOwnMessage, booth

LEMMA SetPinnedKeeps ==
  ASSUME IInv, NEW p \in posts, SetPinned(p)
  PROVE  IInv'
<1> DEFINE q == [p EXCEPT !.pinned = ~@]
<1>1. p \in PostType
  BY DEF IInv, Types, TypeOK, PostType
<1>2. q \in PostType /\ Old(q, p)
  BY <1>1 DEF PostType, Old
<1>3. QED
  BY <1>2, RewriteKeeps DEF SetPinned, booth

LEMMA DeletePostKeeps ==
  ASSUME IInv, NEW s \in Sessions, NEW p \in posts, DeletePost(s, p)
  PROVE  IInv'
<1> DEFINE j == [at |-> "clear", post |-> p.id]
<1>0. /\ Becomes(s, j)
      /\ posts' \subseteq posts /\ reacts' \subseteq reacts
      /\ UNCHANGED <<now, made, lock, staff, seen, poll, votes, shown>>
  BY DEF DeletePost, DeleteRow, booth
<1>1. j \in JobType /\ j.at = "clear"
  <2>1. p.id \in Ids
    BY DEF IInv, Types, TypeOK
  <2>2. QED
    BY <2>1 DEF JobType
<1> HIDE DEF j
<1>2. /\ job' \in [Sessions -> JobType]
      /\ job'[s] = j
      /\ \A x \in Sessions : x # s => job'[x] = job[x]
  BY <1>0, <1>1, Moved DEF IInv
<1>3. Types'
  BY <1>0, <1>2 DEF IInv, Types, TypeOK
<1>4. NoVisit /\ NoCheck
  BY <1>1, <1>2 DEF NoVisit, NoCheck
<1>5. PostsHold' /\ VisitsHold' /\ SeenHolds' /\ RatesHold'
  BY <1>0, <1>3, <1>4, Removed DEF IInv
<1>6. QED
  BY <1>3, <1>5 DEF IInv

LEMMA RefuseDeleteKeeps ==
  ASSUME IInv, NEW s \in Sessions, NEW p \in posts, RefuseDelete(s, p)
  PROVE  IInv'
<1> DEFINE j == [at |-> "refused", post |-> p.id]
<1>0. /\ Becomes(s, j)
      /\ UNCHANGED <<now, posts, made, lock, staff, seen, reacts, poll, votes,
                     shown>>
  BY DEF RefuseDelete, rows, booth
<1>1. j \in JobType /\ j.at = "refused"
  <2>1. p.id \in Ids
    BY DEF IInv, Types, TypeOK
  <2>2. QED
    BY <2>1 DEF JobType
<1> HIDE DEF j
<1>2. Types'
  BY <1>0, <1>1, Moved DEF IInv, Types, TypeOK
<1>3. QED
  BY <1>0, <1>1, <1>2, Quiet

LEMMA ReportRefusalKeeps ==
  ASSUME IInv, NEW s \in Sessions, ReportRefusal(s)
  PROVE  IInv'
<1>0. /\ Becomes(s, Idle)
      /\ UNCHANGED <<now, posts, made, lock, staff, seen, reacts, poll, votes,
                     shown>>
  BY DEF ReportRefusal, Done, rows, booth
<1>1. Types'
  BY <1>0, IdleIsAJob, Moved DEF IInv, Types, TypeOK
<1>2. QED
  BY <1>0, <1>1, IdleIsAJob, Quiet

\* A session ends a step that changed the reactions.
LEMMA ReactsKeep ==
  ASSUME IInv, NEW s \in Sessions, Becomes(s, Idle), reacts' \subseteq ReactType,
         UNCHANGED <<now, posts, made, lock, staff, seen, poll, votes, shown>>
  PROVE  IInv'
<1>1. Types'
  BY IdleIsAJob, Moved DEF IInv, Types, TypeOK
<1>2. QED
  BY <1>1, IdleIsAJob, Quiet

LEMMA ClearForMessageKeeps ==
  ASSUME IInv, NEW s \in Sessions, ClearForMessage(s)
  PROVE  IInv'
<1>1. reacts' \subseteq ReactType
  BY DEF ClearForMessage, IInv, Types
<1>2. QED
  BY <1>1, ReactsKeep DEF ClearForMessage, Done, rows, booth

-----------------------------------------------------------------------------
(* Visits. *)

LEMMA ListBoardKeeps ==
  ASSUME IInv, NEW s \in Sessions, NEW b \in BoardIds, ListBoard(s, b)
  PROVE  IInv'
<1> DEFINE j == [at |-> "stamp", board |-> b, list |-> {p.id : p \in OnBoard(b)}]
<1>0. /\ Becomes(s, j)
      /\ UNCHANGED <<now, posts, made, lock, staff, seen, reacts, poll, votes,
                     shown>>
  BY DEF ListBoard, rows, booth
<1>1. /\ j \in JobType /\ j.at = "stamp" /\ j.board = b
      /\ j.list = {p.id : p \in OnBoard(b)}
  <2>1. {p.id : p \in OnBoard(b)} \in SUBSET Ids
    BY DEF IInv, Types, TypeOK, OnBoard
  <2>2. QED
    BY <2>1 DEF JobType
<1> HIDE DEF j
<1>2. /\ job' \in [Sessions -> JobType]
      /\ job'[s] = j
      /\ \A x \in Sessions : x # s => job'[x] = job[x]
  BY <1>0, <1>1, Moved DEF IInv
<1>3. Types'
  BY <1>0, <1>2 DEF IInv, Types, TypeOK
<1>4. now \in Nat /\ made \in Nat /\ now <= now' /\ made <= made'
  BY <1>0, Bounds DEF IInv, Types, TypeOK
<1>5. PostsHold' /\ SeenHolds'
  BY <1>0 DEF IInv, PostsHold, SeenHolds
<1>6. VisitsHold'
  <2>1. VisitHolds(s)'
    <3>1. \A i \in j.list : i <= made'
      BY <1>0, <1>1 DEF IInv, PostsHold, OnBoard
    <3>2. \A p \in posts' : p.id \in j.list => p.board = j.board
      BY <1>0, <1>1 DEF IInv, PostsHold, OnBoard
    <3>3. QED
      BY <1>1, <1>2, <3>1, <3>2 DEF VisitHolds
  <2>2. ASSUME NEW x \in Sessions, x # s PROVE VisitHolds(x)'
    <3>1. VisitHolds(x) /\ job'[x] = job[x]
      BY <1>2, <2>2 DEF IInv, VisitsHold
    <3>2. QED
      BY <1>0, <3>1 DEF VisitHolds
  <2>3. QED
    BY <2>1, <2>2 DEF VisitsHold
<1>7. RatesHold'
  <2>1. NoCheck
    BY <1>1, <1>2 DEF NoCheck
  <2>2. ASSUME NEW u \in Users, NEW t \in 0 .. MaxNow
        PROVE  Cardinality(Within(u, t)') <= Cardinality(Within(u, t))
    <3>1. Within(u, t)' = Within(u, t)
      BY <1>0 DEF Within
    <3>2. QED
      BY <3>1, PostsCounted DEF IInv
  <2>3. QED
    BY <1>3, <1>4, <1>5, <2>1, <2>2, RatesKeep DEF IInv
<1>8. QED
  BY <1>3, <1>5, <1>6, <1>7 DEF IInv

LEMMA StampVisitKeeps ==
  ASSUME IInv, NEW s \in Sessions, StampVisit(s)
  PROVE  IInv'
<1> DEFINE j == [at |-> "mark", board |-> job[s].board, list |-> job[s].list,
                 time |-> now]
<1>0. /\ job[s].at = "stamp" /\ Becomes(s, j)
      /\ UNCHANGED <<now, posts, made, lock, staff, seen, reacts, poll, votes,
                     shown>>
  BY DEF StampVisit, rows, booth
<1>1. /\ j \in JobType /\ j.at = "mark" /\ j.board = job[s].board
      /\ j.list = job[s].list /\ j.time = now
  <2>1. now \in 0 .. MaxNow
    BY DEF IInv, Types, TypeOK
  <2>2. job[s].board \in BoardIds /\ job[s].list \in SUBSET Ids
    BY <1>0, JobShape DEF IInv
  <2>3. QED
    BY <2>1, <2>2 DEF JobType
<1> HIDE DEF j
<1>2. /\ job' \in [Sessions -> JobType]
      /\ job'[s] = j
      /\ \A x \in Sessions : x # s => job'[x] = job[x]
  BY <1>0, <1>1, Moved DEF IInv
<1>3. Types'
  BY <1>0, <1>2 DEF IInv, Types, TypeOK
<1>4. now \in Nat /\ made \in Nat /\ now <= now' /\ made <= made'
  BY <1>0, Bounds DEF IInv, Types, TypeOK
<1>5. PostsHold' /\ SeenHolds'
  BY <1>0 DEF IInv, PostsHold, SeenHolds
<1>6. VisitsHold'
  <2>1. VisitHolds(s)'
    <3>1. VisitHolds(s)
      BY DEF IInv, VisitsHold
    <3>2. /\ \A i \in j.list : i <= made'
          /\ \A p \in posts' : p.id \in j.list => p.board = j.board
      BY <1>0, <1>1, <3>1 DEF VisitHolds
    \* Whatever was listed was there, so it is not younger than now.
    <3>3. /\ j.time <= now'
          /\ \A p \in posts' : p.id \in j.list => p.at <= j.time
      BY <1>0, <1>1, <1>4 DEF IInv, PostsHold
    <3>4. QED
      BY <1>2, <3>2, <3>3 DEF VisitHolds
  <2>2. ASSUME NEW x \in Sessions, x # s PROVE VisitHolds(x)'
    <3>1. VisitHolds(x) /\ job'[x] = job[x]
      BY <1>2, <2>2 DEF IInv, VisitsHold
    <3>2. QED
      BY <1>0, <3>1 DEF VisitHolds
  <2>3. QED
    BY <2>1, <2>2 DEF VisitsHold
<1>7. RatesHold'
  <2>1. NoCheck
    BY <1>1, <1>2 DEF NoCheck
  <2>2. ASSUME NEW u \in Users, NEW t \in 0 .. MaxNow
        PROVE  Cardinality(Within(u, t)') <= Cardinality(Within(u, t))
    <3>1. Within(u, t)' = Within(u, t)
      BY <1>0 DEF Within
    <3>2. QED
      BY <3>1, PostsCounted DEF IInv
  <2>3. QED
    BY <1>3, <1>4, <1>5, <2>1, <2>2, RatesKeep DEF IInv
<1>8. QED
  BY <1>3, <1>5, <1>6, <1>7 DEF IInv

\* The watermark is past the time taken and past what it was.
LEMMA WatermarkMoves ==
  ASSUME NEW old \in Nat, NEW t \in Nat
  PROVE  /\ Watermark(old, t) \in {old, t}
         /\ old <= Watermark(old, t) /\ t <= Watermark(old, t)
BY DEF Watermark

LEMMA MarkBoardSeenKeeps ==
  ASSUME IInv, NEW s \in Sessions, MarkBoardSeen(s)
  PROVE  IInv'
<1> DEFINE u == UserOf[s]
           b == job[s].board
           w == Watermark(seen[<<u, b>>], job[s].time)
<1>0. /\ job[s].at = "mark" /\ Becomes(s, Idle)
      /\ seen' = [seen EXCEPT ![<<u, b>>] = w]
      /\ shown' = [shown EXCEPT ![u] = @ \cup job[s].list]
      /\ UNCHANGED <<now, posts, made, lock, staff, reacts, poll, votes>>
  BY DEF MarkBoardSeen, Done, rows, booth
<1>1. /\ u \in Users /\ b \in BoardIds /\ job[s].list \in SUBSET Ids
      /\ job[s].time \in 0 .. MaxNow
  BY <1>0, JobShape, Bounds DEF IInv
<1>2. /\ job' \in [Sessions -> JobType]
      /\ job'[s] = Idle
      /\ \A x \in Sessions : x # s => job'[x] = job[x]
  BY <1>0, IdleIsAJob, Moved DEF IInv
<1>3. /\ seen \in [Users \X BoardIds -> 0 .. MaxNow]
      /\ shown \in [Users -> SUBSET Ids]
      /\ now \in 0 .. MaxNow /\ made \in 0 .. MaxPosts
  BY DEF IInv, Types, TypeOK
<1>4. /\ w \in 0 .. MaxNow
      /\ seen[<<u, b>>] <= w /\ job[s].time <= w
  <2>1. seen[<<u, b>>] \in 0 .. MaxNow
    BY <1>1, <1>3
  <2>2. QED
    BY <1>1, <2>1, WatermarkMoves, Bounds
<1> HIDE DEF w
<1>5. Types'
  <2>1. seen' \in [Users \X BoardIds -> 0 .. MaxNow]
    BY <1>0, <1>1, <1>3, <1>4
  <2>2. shown' \in [Users -> SUBSET Ids]
    BY <1>0, <1>1, <1>3
  <2>3. QED
    BY <1>0, <1>2, <2>1, <2>2 DEF IInv, Types, TypeOK
<1>6. PostsHold'
  BY <1>0 DEF IInv, PostsHold
<1>7. NoVisit /\ NoCheck
  BY <1>2, IdleIsAJob DEF NoVisit, NoCheck
<1>8. VisitsHold'
  <2>1. ASSUME NEW x \in Sessions PROVE VisitHolds(x)'
    <3>1. VisitHolds(x)
      BY DEF IInv, VisitsHold
    <3>2. QED
      BY <1>0, <1>2, <3>1, IdleIsAJob DEF VisitHolds
  <2>2. QED
    BY <2>1 DEF VisitsHold
<1>9. SeenHolds'
  <2>1. VisitHolds(s)
    BY DEF IInv, VisitsHold
  <2>2. ASSUME NEW v \in Users
        PROVE  /\ \A i \in shown'[v] : i <= made'
               /\ \A p \in posts' : p.id \in shown'[v] =>
                    p.at <= seen'[<<v, p.board>>]
    <3>0. \A p \in posts : p.board \in BoardIds /\ p.at \in Nat
      BY Bounds DEF IInv, Types, TypeOK
    <3>1. /\ \A i \in shown[v] : i <= made
          /\ \A p \in posts : p.id \in shown[v] => p.at <= seen[<<v, p.board>>]
      BY DEF IInv, SeenHolds
    <3>2. CASE v # u
      <4>1. shown'[v] = shown[v]
        BY <1>0, <1>3, <3>2
      <4>2. \A p \in posts : seen'[<<v, p.board>>] = seen[<<v, p.board>>]
        BY <1>0, <1>3, <3>0, <3>2
      <4>3. QED
        BY <1>0, <3>1, <4>1, <4>2
    <3>3. CASE v = u
      <4>1. shown'[v] = shown[v] \cup job[s].list
        BY <1>0, <1>3, <3>3
      <4>2. \A i \in shown'[v] : i <= made'
        BY <1>0, <2>1, <3>1, <4>1 DEF VisitHolds
      <4>3. ASSUME NEW p \in posts, p.id \in shown'[v]
            PROVE  p.at <= seen'[<<v, p.board>>]
        <5>0. seen[<<v, p.board>>] \in Nat /\ w \in Nat /\ p.at \in Nat
              /\ job[s].time \in Nat
          BY <1>1, <1>3, <1>4, <3>0, Bounds
        <5>1. CASE p.id \in shown[v]
          <6>1. p.at <= seen[<<v, p.board>>]
            BY <3>1, <5>1
          <6>2. CASE p.board = b
            <7>1. seen'[<<v, p.board>>] = w
              BY <1>0, <1>1, <1>3, <3>3, <6>2
            <7>2. seen[<<v, p.board>>] <= w
              BY <1>4, <3>3, <6>2
            <7>3. QED
              BY <5>0, <6>1, <7>1, <7>2
          <6>3. CASE p.board # b
            <7>1. seen'[<<v, p.board>>] = seen[<<v, p.board>>]
              BY <1>0, <1>3, <3>0, <6>3
            <7>2. QED
              BY <6>1, <7>1
          <6>4. QED
            BY <6>2, <6>3
        <5>2. CASE p.id \in job[s].list
          <6>1. p.board = b /\ p.at <= job[s].time
            BY <1>0, <2>1, <5>2 DEF VisitHolds
          <6>2. seen'[<<v, p.board>>] = w
            BY <1>0, <1>1, <1>3, <3>3, <6>1
          <6>3. QED
            BY <1>4, <5>0, <6>1, <6>2
        <5>3. QED
          BY <4>1, <4>3, <5>1, <5>2
      <4>4. QED
        BY <1>0, <4>2, <4>3
    <3>4. QED
      BY <3>2, <3>3
  <2>3. QED
    BY <2>2 DEF SeenHolds
<1>10. RatesHold'
  <2>1. ASSUME NEW v \in Users, NEW t \in 0 .. MaxNow
        PROVE  Cardinality(Within(v, t)') <= Cardinality(Within(v, t))
    <3>1. Within(v, t)' = Within(v, t)
      BY <1>0 DEF Within
    <3>2. QED
      BY <3>1, PostsCounted DEF IInv
  <2>2. now <= now'
    BY <1>0, <1>3, Bounds
  <2>3. QED
    BY <1>5, <1>6, <1>7, <2>1, <2>2, RatesKeep DEF IInv
<1>11. QED
  BY <1>5, <1>6, <1>8, <1>9, <1>10 DEF IInv
-----------------------------------------------------------------------------
(* Reactions. *)

LEMMA LookAtReactionKeeps ==
  ASSUME IInv, NEW s \in Sessions, NEW i \in Ids, LookAtReaction(s, i)
  PROVE  IInv'
<1> DEFINE j(at) == [at |-> at, post |-> i]
<1>0. /\ \E at \in {"react", "unreact"} : Becomes(s, j(at))
      /\ UNCHANGED <<now, posts, made, lock, staff, seen, reacts, poll, votes,
                     shown>>
  BY DEF LookAtReaction, rows, booth
<1>1. PICK at \in {"react", "unreact"} : Becomes(s, j(at))
  BY <1>0
<1>2. j(at) \in JobType /\ j(at).at \in {"react", "unreact"}
  BY DEF JobType
<1> HIDE DEF j
<1>3. Types'
  BY <1>0, <1>1, <1>2, Moved DEF IInv, Types, TypeOK
<1>4. QED
  BY <1>0, <1>1, <1>2, <1>3, Quiet

LEMMA ReactKeeps ==
  ASSUME IInv, NEW s \in Sessions, React(s)
  PROVE  IInv'
<1> DEFINE new == [post |-> job[s].post, by |-> UserOf[s], at |-> now]
<1>1. job[s].post \in Ids /\ UserOf[s] \in Users /\ now \in 0 .. MaxNow
  BY JobShape, Bounds DEF React, IInv, Types, TypeOK
<1>2. new \in ReactType
  BY <1>1 DEF ReactType
<1>3. reacts' \subseteq reacts \cup {new}
  BY DEF React
<1>4. reacts' \subseteq ReactType
  BY <1>2, <1>3 DEF IInv, Types
<1>5. QED
  BY <1>4, ReactsKeep DEF React, Done, rows, booth

LEMMA UnreactKeeps ==
  ASSUME IInv, NEW s \in Sessions, Unreact(s)
  PROVE  IInv'
<1>1. reacts' \subseteq ReactType
  BY DEF Unreact, IInv, Types
<1>2. QED
  BY <1>1, ReactsKeep DEF Unreact, Done, rows, booth

-----------------------------------------------------------------------------
(* The booth. *)

\* A step that is no session's, and leaves posts and visits.
LEMMA Apart ==
  ASSUME IInv, Types', UNCHANGED <<now, posts, made, seen, shown, job>>
  PROVE  PostsHold' /\ VisitsHold' /\ SeenHolds' /\ RatesHold'
<1>1. NoVisit /\ NoCheck
  BY DEF NoVisit, NoCheck
<1>2. QED
  BY <1>1, Still DEF IInv

LEMMA CreatePollKeeps ==
  ASSUME IInv, NEW s \in Sessions, CreatePoll(s)
  PROVE  IInv'
<1>0. /\ poll' = "open"
      /\ UNCHANGED <<now, posts, made, lock, staff, seen, reacts, votes, job,
                     shown>>
  BY DEF CreatePoll, rows
<1>1. Types'
  BY <1>0 DEF IInv, Types, TypeOK
<1>2. QED
  BY <1>0, <1>1, Apart DEF IInv

LEMMA CheckVoteKeeps ==
  ASSUME IInv, NEW s \in Sessions, NEW c \in Options, CheckVote(s, c)
  PROVE  IInv'
<1> DEFINE j == [at |-> "cast", choice |-> c]
<1>1. /\ Becomes(s, j)
      /\ UNCHANGED <<now, posts, made, lock, staff, seen, reacts, poll, votes,
                     shown>>
  BY DEF CheckVote, rows, booth
<1>2. j \in JobType /\ j.at = "cast"
  BY DEF JobType
<1> HIDE DEF j
<1>3. Types'
  BY <1>1, <1>2, Moved DEF IInv, Types, TypeOK
<1>4. QED
  BY <1>1, <1>2, <1>3, Quiet

LEMMA CastVoteKeeps ==
  ASSUME IInv, NEW s \in Sessions, CastVote(s)
  PROVE  IInv'
<1>1. /\ job[s].at = "cast" /\ Becomes(s, Idle)
      /\ votes' = IF poll = "gone" THEN votes
                  ELSE [votes EXCEPT ![UserOf[s]] = job[s].choice]
      /\ UNCHANGED <<now, posts, made, lock, staff, seen, reacts, poll, shown>>
  BY DEF CastVote, Done, rows
<1>2. job[s].choice \in Options /\ UserOf[s] \in Users
  BY <1>1, JobShape, Bounds DEF IInv
<1>3. votes' \in [Users -> Options \cup {None}]
  BY <1>1, <1>2 DEF IInv, Types, TypeOK
<1>4. Types'
  BY <1>1, <1>3, IdleIsAJob, Moved DEF IInv, Types, TypeOK
<1>5. QED
  BY <1>1, <1>4, IdleIsAJob, Quiet

LEMMA ClosePollKeeps ==
  ASSUME IInv, ClosePoll
  PROVE  IInv'
<1>0. /\ poll' = "closed"
      /\ UNCHANGED <<now, posts, made, lock, staff, seen, reacts, votes, job,
                     shown>>
  BY DEF ClosePoll, rows
<1>1. Types'
  BY <1>0 DEF IInv, Types, TypeOK
<1>2. QED
  BY <1>0, <1>1, Apart DEF IInv

LEMMA DeletePollKeeps ==
  ASSUME IInv, DeletePoll
  PROVE  IInv'
<1>0. /\ poll' = "gone" /\ votes' = [u \in Users |-> None]
      /\ UNCHANGED <<now, posts, made, lock, staff, seen, reacts, job, shown>>
  BY DEF DeletePoll, rows
<1>1. Types'
  BY <1>0 DEF IInv, Types, TypeOK
<1>2. QED
  BY <1>0, <1>1, Apart DEF IInv

-----------------------------------------------------------------------------
(* Moderation and the clock. *)

LEMMA SetLockedKeeps ==
  ASSUME IInv, NEW b \in BoardIds, NEW on \in BOOLEAN, SetLocked(b, on)
  PROVE  IInv'
<1>0. /\ lock' = [lock EXCEPT ![b] = on]
      /\ UNCHANGED <<now, posts, made, staff, seen, reacts, poll, votes, job,
                     shown>>
  BY DEF SetLocked, rows, booth
<1>1. Types'
  <2>1. lock' \in [BoardIds -> BOOLEAN]
    BY <1>0 DEF IInv, Types, TypeOK
  <2>2. QED
    BY <1>0, <2>1 DEF IInv, Types, TypeOK
<1>2. QED
  BY <1>0, <1>1, Apart DEF IInv

LEMMA SetRolesKeeps ==
  ASSUME IInv, NEW b \in BoardIds, SetRoles(b)
  PROVE  IInv'
<1>0. /\ staff' \subseteq staff \cup {b}
      /\ UNCHANGED <<now, posts, made, lock, seen, reacts, poll, votes, job,
                     shown>>
  BY DEF SetRoles, rows, booth
<1>1. Types'
  BY <1>0 DEF IInv, Types, TypeOK
<1>2. QED
  BY <1>0, <1>1, Apart DEF IInv

LEMMA TickKeeps ==
  ASSUME IInv, Tick
  PROVE  IInv'
<1>0. /\ now < MaxNow /\ now' = now + 1
      /\ UNCHANGED <<posts, made, lock, staff, seen, reacts, poll, votes, job,
                     shown>>
  BY DEF Tick, rows, booth
<1>1. now \in 0 .. MaxNow /\ made \in Nat
  BY Bounds DEF IInv, Types, TypeOK
<1>2. now' \in 0 .. MaxNow /\ now <= now' /\ made <= made'
  BY <1>0, <1>1, Bounds
<1>3. Types'
  BY <1>0, <1>2 DEF IInv, Types, TypeOK
<1>4. NoVisit /\ NoCheck
  BY <1>0 DEF NoVisit, NoCheck
<1>5. PostsHold'
  <2>1. \A p \in posts : p.at \in Nat
    BY Bounds DEF IInv, Types, TypeOK
  <2>2. QED
    BY <1>0, <1>1, <1>2, <2>1, Bounds DEF IInv, PostsHold
<1>6. VisitsHold' /\ SeenHolds'
  <2>1. \A p \in posts' : \E q \in posts : Old(p, q)
    BY <1>0 DEF Old
  <2>2. QED
    BY <1>0, <1>2, <1>3, <1>4, <2>1, Carried DEF IInv
<1>7. RatesHold'
  <2>1. ASSUME NEW u \in Users, NEW t \in 0 .. MaxNow
        PROVE  Cardinality(Within(u, t)') <= Cardinality(Within(u, t))
    <3>1. Within(u, t)' = Within(u, t)
      BY <1>0 DEF Within
    <3>2. QED
      BY <3>1, PostsCounted DEF IInv
  <2>2. QED
    BY <1>2, <1>3, <1>4, <1>5, <2>1, RatesKeep DEF IInv
<1>8. QED
  BY <1>3, <1>5, <1>6, <1>7 DEF IInv

-----------------------------------------------------------------------------
(* The invariant. *)

LEMMA InitHolds == Init => IInv
<1> SUFFICES ASSUME Init PROVE IInv
  OBVIOUS
<1>1. \A s \in Sessions : job[s] = Idle
  BY DEF Init
<1>2. Types
  <2>1. 0 \in 0 .. MaxNow /\ 0 \in 0 .. MaxPosts
    BY Bounds
  <2>2. job \in [Sessions -> JobType]
    BY IdleIsAJob DEF Init
  <2>3. QED
    BY <2>1, <2>2 DEF Init, Types, TypeOK, None
<1>3. PostsHold
  BY FS_EmptySet DEF Init, PostsHold
<1>4. VisitsHold
  BY <1>1, IdleIsAJob DEF VisitsHold, VisitHolds
<1>5. SeenHolds
  BY DEF Init, SeenHolds
<1>6. RatesHold
  <2>1. CASE Unlimited
    BY <2>1 DEF RatesHold
  <2>2. ASSUME ~Unlimited, NEW u \in Users, NEW t \in 0 .. MaxNow
        PROVE  RateHolds(u, t)
    <3>1. MaxPerWindow \in Nat /\ MaxPerWindow # 0
      BY <2>2, Bounds DEF Unlimited
    <3>2. Within(u, t) = {} /\ Inserting(u) = {}
      BY <1>1, IdleIsAJob DEF Init, Within, Inserting
    <3>3. Cardinality(Within(u, t)) = 0 /\ Cardinality(Inserting(u)) = 0
      BY <3>2, FS_EmptySet
    <3>4. Cardinality(SessionsOf(u)) \in Nat
      BY Counted
    <3>5. 0 < MaxPerWindow + Cardinality(SessionsOf(u))
      BY <3>1, <3>4
    <3>6. QED
      BY <3>3, <3>5 DEF RateHolds
  <2>3. QED
    BY <2>1, <2>2 DEF RatesHold
<1>7. QED
  BY <1>2, <1>3, <1>4, <1>5, <1>6 DEF IInv

LEMMA SessionStepKeeps ==
  ASSUME IInv, NEW s \in Sessions, SessionStep(s)
  PROVE  IInv'
<1>1. ASSUME NEW b \in BoardIds, NEW i \in Ids \cup {None}, CheckBoard(s, b, i)
      PROVE  IInv'
  BY <1>1, CheckBoardKeeps
<1>2. CASE CheckParent(s) \/ CheckRate(s)
  BY <1>2, CheckParentKeeps, CheckRateKeeps, RateRefuses
<1>3. CASE InsertPost(s)
  BY <1>3, InsertPostKeeps
<1>4. ASSUME NEW p \in posts, EditOwnMessage(s, p) PROVE IInv'
  BY <1>4, EditOwnMessageKeeps
<1>5. ASSUME NEW p \in posts, DeletePost(s, p) PROVE IInv'
  BY <1>5, DeletePostKeeps
<1>6. ASSUME NEW p \in posts, RefuseDelete(s, p) PROVE IInv'
  BY <1>6, RefuseDeleteKeeps
<1>7. CASE ReportRefusal(s)
  BY <1>7, ReportRefusalKeeps
<1>8. CASE ClearForMessage(s)
  BY <1>8, ClearForMessageKeeps
<1>9. ASSUME NEW b \in BoardIds, ListBoard(s, b) PROVE IInv'
  BY <1>9, ListBoardKeeps
<1>10. CASE StampVisit(s)
  BY <1>10, StampVisitKeeps
<1>11. CASE MarkBoardSeen(s)
  BY <1>11, MarkBoardSeenKeeps
<1>12. ASSUME NEW i \in Ids, LookAtReaction(s, i) PROVE IInv'
  BY <1>12, LookAtReactionKeeps
<1>13. CASE React(s)
  BY <1>13, ReactKeeps
<1>14. CASE Unreact(s)
  BY <1>14, UnreactKeeps
<1>15. CASE CreatePoll(s)
  BY <1>15, CreatePollKeeps
<1>16. ASSUME NEW c \in Options, CheckVote(s, c) PROVE IInv'
  BY <1>16, CheckVoteKeeps
<1>17. CASE CastVote(s)
  BY <1>17, CastVoteKeeps
<1>18. QED
  BY <1>1, <1>2, <1>3, <1>4, <1>5, <1>6, <1>7, <1>8, <1>9, <1>10, <1>11, <1>12,
     <1>13, <1>14, <1>15, <1>16, <1>17 DEF SessionStep

LEMMA NextKeeps == IInv /\ [Next]_vars => IInv'
<1> SUFFICES ASSUME IInv, [Next]_vars PROVE IInv'
  OBVIOUS
<1>1. ASSUME NEW s \in Sessions, SessionStep(s) PROVE IInv'
  BY <1>1, SessionStepKeeps
<1>2. ASSUME NEW b \in BoardIds, NEW i \in Ids \cup {None},
             StoreRemotePost(b, i)
      PROVE  IInv'
  BY <1>2, StoreRemotePostKeeps
<1>3. CASE EndPoll
  BY <1>3, ClosePollKeeps, DeletePollKeeps DEF EndPoll
<1>4. CASE SetBoard
  BY <1>4, SetLockedKeeps, SetRolesKeeps DEF SetBoard
<1>5. ASSUME NEW p \in posts, SetPinned(p) PROVE IInv'
  BY <1>5, SetPinnedKeeps
<1>6. CASE Tick
  BY <1>6, TickKeeps
<1>7. CASE UNCHANGED vars
  <2>1. UNCHANGED <<now, posts, made, lock, staff, seen, reacts, poll, votes,
                    job, shown>>
    BY <1>7 DEF vars, rows, booth
  <2>2. Types'
    BY <2>1 DEF IInv, Types, TypeOK
  <2>4. QED
    BY <2>1, <2>2, Apart DEF IInv
<1>8. QED
  BY <1>1, <1>2, <1>3, <1>4, <1>5, <1>6, <1>7 DEF Next

\* Every reachable state satisfies the inductive invariant.
THEOREM Invariant == Spec => []IInv
<1>1. Init => IInv
  BY InitHolds
<1>2. IInv /\ [Next]_vars => IInv'
  BY NextKeeps
<1>3. QED
  BY <1>1, <1>2, PTL DEF Spec

-----------------------------------------------------------------------------
(* What it implies. *)

\* The tables of the boards and the booth have their types.
THEOREM TypeCorrect == Spec => []TypeOK
<1>1. IInv => TypeOK
  BY DEF IInv, Types
<1>2. QED
  BY <1>1, Invariant, PTL

\* However the sessions of a user interleave their checks and their inserts,
\* in no window do its posts exceed the limit by as many as its sessions
\* (post_message's check and insert are two statements).
THEOREM RateIsBounded == Spec => []RateBounded
<1>1. IInv => RateBounded
  BY DEF IInv, RatesHold, RateHolds, RateBounded
<1>2. QED
  BY <1>1, Invariant, PTL

\* What mark_board_seen has covered is read for good, in whatever order the
\* visits of a user's sessions end, and whatever becomes of the posts.
THEOREM ShownStaysRead == Spec => []ReadStaysRead
<1>1. IInv => ReadStaysRead
  <2> SUFFICES ASSUME IInv, NEW u \in Users, NEW p \in posts, p.id \in shown[u]
               PROVE  ~Unread(u, p)
    BY DEF ReadStaysRead
  <2>1. p.at <= seen[<<u, p.board>>]
    BY DEF IInv, SeenHolds
  <2>2. p.at \in Nat /\ p.board \in BoardIds
    BY Bounds DEF IInv, Types, TypeOK
  <2>3. seen[<<u, p.board>>] \in Nat
    BY <2>2, Bounds DEF IInv, Types, TypeOK
  <2>4. QED
    BY <2>1, <2>2, <2>3 DEF Unread
<1>2. QED
  BY <1>1, Invariant, PTL

-----------------------------------------------------------------------------
(* Induction over naturals and over finite sets.                            *)

\* A set of naturals that is not empty has a least element.
LEMMA LeastNat ==
  ASSUME NEW T, T \subseteq Nat, T # {}
  PROVE  \E n \in T : \A m \in T : n <= m
  <1> DEFINE R == {ss \in Nat \X Nat : ss[1] < ss[2]}
  <1>1. IsWellFoundedOn(R, Nat)
    BY NatLessThanWellFounded, Zenon DEF OpToRel
  <1>2. ASSUME NEW m \in Nat, NEW n \in Nat, m < n PROVE <<m, n>> \in R
    <2>1. <<m, n>>[1] < <<m, n>>[2] /\ <<m, n>> \in Nat \X Nat
      BY <1>2
    <2> QED
      BY <2>1, Zenon
  <1> HIDE DEF R
  <1>3. PICK n \in T : \A m \in T : <<m, n>> \notin R
    BY <1>1, WFMin
  <1>4. ASSUME NEW m \in T PROVE n <= m
    <2>1. ~ (m < n)
      BY <1>2, <1>3
    <2> QED
      BY <2>1
  <1> QED
    BY <1>4

\* Induction over the naturals, for a set in place of a predicate.
LEMMA NatsIn ==
  ASSUME NEW T, 0 \in T, \A n \in Nat : n \in T => n + 1 \in T
  PROVE  \A n \in Nat : n \in T
  <1> SUFFICES ASSUME Nat \ T # {} PROVE FALSE
    OBVIOUS
  <1>1. PICK n \in Nat \ T : \A m \in Nat \ T : n <= m
    BY LeastNat
  <1> QED
    BY <1>1

\* Induction over the subsets of a finite set, by their size.
LEMMA SubsetsIn ==
  ASSUME NEW S, IsFiniteSet(S), NEW T, {} \in T,
         \A s \in SUBSET S : s # {} /\ (\A x \in s : s \ {x} \in T) => s \in T
  PROVE  \A s \in SUBSET S : s \in T
  <1> DEFINE N == {n \in Nat : \A s \in SUBSET S : Cardinality(s) = n => s \in T}
  <1>0. \A s \in SUBSET S : IsFiniteSet(s) /\ Cardinality(s) \in Nat
    BY FS_Subset, FS_CardinalityType
  <1>1. 0 \in N
    BY <1>0, FS_EmptySet
  <1>2. ASSUME NEW n \in Nat, n \in N PROVE n + 1 \in N
    <2>1. ASSUME NEW s \in SUBSET S, Cardinality(s) = n + 1 PROVE s \in T
      <3>1. s # {}
        <4>1. Cardinality({}) = 0
          BY FS_EmptySet
        <4> QED
          BY <2>1, <4>1
      <3>2. ASSUME NEW x \in s PROVE s \ {x} \in T
        <4>1. Cardinality(s \ {x}) = Cardinality(s) - 1
          BY <1>0, FS_RemoveElement
        <4>2. Cardinality(s \ {x}) = n
          BY <2>1, <4>1
        <4> QED
          BY <4>2, <1>2
      <3> QED
        BY <3>1, <3>2
    <2> QED
      BY <2>1
  <1> HIDE DEF N
  <1>3. \A n \in Nat : n \in N
    BY <1>1, <1>2, NatsIn
  <1> QED
    BY <1>0, <1>3 DEF N

-----------------------------------------------------------------------------
(* Sequences of different things.                                           *)

Distinct(s) == \A i, j \in DOMAIN s : s[i] = s[j] => i = j

LEMMA AppendAdds ==
  ASSUME NEW T, NEW s \in Seq(T), NEW e \in T
  PROVE  /\ ToSet(Append(s, e)) = ToSet(s) \cup {e}
         /\ Distinct(s) /\ e \notin ToSet(s) => Distinct(Append(s, e))
<1> DEFINE a == Append(s, e)
<1>1. a \in Seq(T) /\ Len(a) = Len(s) + 1 /\ a[Len(s) + 1] = e
      /\ \A i \in 1 .. Len(s) : a[i] = s[i]
  OBVIOUS
<1>2. DOMAIN a = 1 .. Len(s) + 1 /\ DOMAIN s = 1 .. Len(s) /\ Len(s) \in Nat
  BY <1>1
<1> HIDE DEF a
<1>3. ToSet(a) = ToSet(s) \cup {e}
  <2>1. \A i \in DOMAIN a : i \in DOMAIN s \/ i = Len(s) + 1
    BY <1>2
  <2>2. DOMAIN s \subseteq DOMAIN a /\ Len(s) + 1 \in DOMAIN a
    BY <1>2
  <2> QED
    BY <1>1, <1>2, <2>1, <2>2 DEF ToSet
<1>4. ASSUME Distinct(s), e \notin ToSet(s) PROVE Distinct(a)
  <2> SUFFICES ASSUME NEW i \in DOMAIN a, NEW j \in DOMAIN a, a[i] = a[j]
               PROVE  i = j
    BY DEF Distinct
  <2>1. \A k \in DOMAIN s : a[k] = s[k] /\ a[k] # e
    BY <1>1, <1>2, <1>4 DEF ToSet
  <2> QED
    BY <1>1, <1>2, <1>4, <2>1 DEF Distinct
<1> QED
  BY <1>3, <1>4 DEF a

LEMMA ConcatAdds ==
  ASSUME NEW T, NEW s \in Seq(T), NEW t \in Seq(T)
  PROVE  /\ ToSet(s \o t) = ToSet(s) \cup ToSet(t)
         /\ Distinct(s) /\ Distinct(t) /\ ToSet(s) \cap ToSet(t) = {}
              => Distinct(s \o t)
<1> DEFINE c == s \o t
<1>1. /\ Len(c) = Len(s) + Len(t)
      /\ \A i \in 1 .. Len(s) : c[i] = s[i]
      /\ \A i \in 1 .. Len(t) : c[Len(s) + i] = t[i]
      /\ c \in Seq(T)
  OBVIOUS
<1>2. /\ DOMAIN c = 1 .. Len(s) + Len(t)
      /\ DOMAIN s = 1 .. Len(s) /\ DOMAIN t = 1 .. Len(t)
      /\ Len(s) \in Nat /\ Len(t) \in Nat
  BY <1>1
<1> HIDE DEF c
<1>3. \A i \in DOMAIN c : \/ i \in DOMAIN s /\ c[i] = s[i]
                          \/ /\ i - Len(s) \in DOMAIN t
                             /\ c[i] = t[i - Len(s)]
  <2> SUFFICES ASSUME NEW i \in DOMAIN c, i \notin DOMAIN s
               PROVE  i - Len(s) \in DOMAIN t /\ c[i] = t[i - Len(s)]
    BY <1>1, <1>2
  <2>1. i - Len(s) \in 1 .. Len(t) /\ Len(s) + (i - Len(s)) = i
    BY <1>2
  <2> QED
    BY <1>1, <1>2, <2>1
<1>4. ToSet(c) = ToSet(s) \cup ToSet(t)
  <2>1. ToSet(c) \subseteq ToSet(s) \cup ToSet(t)
    BY <1>3 DEF ToSet
  <2>2. ToSet(s) \subseteq ToSet(c)
    <3>1. \A i \in DOMAIN s : i \in DOMAIN c /\ c[i] = s[i]
      BY <1>1, <1>2
    <3> QED
      BY <3>1 DEF ToSet
  <2>3. ToSet(t) \subseteq ToSet(c)
    <3>1. \A i \in DOMAIN t : Len(s) + i \in DOMAIN c /\ c[Len(s) + i] = t[i]
      BY <1>1, <1>2
    <3> QED
      BY <3>1 DEF ToSet
  <2> QED
    BY <2>1, <2>2, <2>3
<1>5. ASSUME Distinct(s), Distinct(t), ToSet(s) \cap ToSet(t) = {}
      PROVE  Distinct(c)
  <2> SUFFICES ASSUME NEW i \in DOMAIN c, NEW j \in DOMAIN c, c[i] = c[j]
               PROVE  i = j
    BY DEF Distinct
  <2>0. i \in Nat /\ j \in Nat
    BY <1>2
  <2>1. ASSUME NEW k \in DOMAIN s, NEW l \in DOMAIN t PROVE s[k] # t[l]
    BY <1>5 DEF ToSet
  <2>2. CASE i \in DOMAIN s /\ c[i] = s[i] /\ j \in DOMAIN s /\ c[j] = s[j]
    BY <1>5, <2>2 DEF Distinct
  <2>3. CASE /\ i - Len(s) \in DOMAIN t /\ c[i] = t[i - Len(s)]
             /\ j - Len(s) \in DOMAIN t /\ c[j] = t[j - Len(s)]
    <3>1. i - Len(s) = j - Len(s)
      BY <1>5, <2>3 DEF Distinct
    <3> QED
      BY <1>2, <2>0, <3>1
  <2> QED
    BY <1>3, <2>1, <2>2, <2>3
<1> QED
  BY <1>4, <1>5 DEF c

LEMMA TailDrops ==
  ASSUME NEW T, NEW s \in Seq(T), s # <<>>, Distinct(s)
  PROVE  /\ Head(s) \in ToSet(s)
         /\ ToSet(Tail(s)) = ToSet(s) \ {Head(s)}
         /\ Distinct(Tail(s))
<1> DEFINE t == Tail(s)
<1>1. /\ t \in Seq(T) /\ Len(t) = Len(s) - 1
      /\ \A i \in 1 .. Len(t) : t[i] = s[i + 1]
      /\ Head(s) = s[1] /\ Len(s) \in Nat \ {0}
  OBVIOUS
<1>2. DOMAIN t = 1 .. Len(s) - 1 /\ DOMAIN s = 1 .. Len(s)
  BY <1>1
<1> HIDE DEF t
<1>3. 1 \in DOMAIN s
  BY <1>1, <1>2
<1>4. \A i \in DOMAIN t : i + 1 \in DOMAIN s /\ i + 1 # 1 /\ t[i] = s[i + 1]
  BY <1>1, <1>2
<1>5. \A i \in DOMAIN s : i # 1 => i - 1 \in DOMAIN t /\ t[i - 1] = s[i]
  BY <1>1, <1>2
<1>6. \A i \in DOMAIN t : t[i] # s[1]
  BY <1>3, <1>4 DEF Distinct
<1>7. ToSet(t) = ToSet(s) \ {s[1]}
  BY <1>4, <1>5, <1>6 DEF ToSet
<1>8. Distinct(t)
  <2> SUFFICES ASSUME NEW i \in DOMAIN t, NEW j \in DOMAIN t, t[i] = t[j]
               PROVE  i = j
    BY DEF Distinct
  <2>1. i + 1 = j + 1
    BY <1>4 DEF Distinct
  <2> QED
    BY <1>2, <2>1
<1> QED
  BY <1>1, <1>3, <1>7, <1>8 DEF ToSet, t

-----------------------------------------------------------------------------
(* Listings.                                                                *)

\* Of two members one comes after the other, and none after itself.
Ordered(S, after) ==
  /\ \A p \in S : p \notin after[p]
  /\ \A p, q \in S : p # q => q \in after[p] \/ p \in after[q]
  /\ \A p, q, r \in S : q \in after[p] /\ r \in after[q] => r \in after[p]

\* Some member comes before all others.
LEMMA FirstIn ==
  ASSUME NEW S, IsFiniteSet(S), NEW after, Ordered(S, after)
  PROVE  \A s \in SUBSET S :
           s # {} => \E x \in s : \A y \in s \ {x} : y \in after[x]
<1> DEFINE T == {s \in SUBSET S :
                   s # {} => \E x \in s : \A y \in s \ {x} : y \in after[x]}
<1>1. {} \in T
  OBVIOUS
<1>2. ASSUME NEW s \in SUBSET S, s # {}, \A x \in s : s \ {x} \in T
      PROVE  s \in T
  <2>1. PICK x \in s : TRUE
    BY <1>2
  <2>2. CASE s \ {x} = {}
    BY <2>2
  <2>3. CASE s \ {x} # {}
    <3>1. PICK y \in s \ {x} : \A z \in (s \ {x}) \ {y} : z \in after[y]
      BY <1>2, <2>3
    <3>2. x \in S /\ y \in S /\ x # y
      OBVIOUS
    <3>3. CASE x \in after[y]
      <4>1. \A z \in s \ {y} : z \in after[y]
        BY <3>1, <3>3
      <4> QED
        BY <4>1
    <3>4. CASE y \in after[x]
      <4>1. \A z \in s \ {x} : z \in after[x]
        BY <3>1, <3>2, <3>4 DEF Ordered
      <4> QED
        BY <4>1
    <3> QED
      BY <3>2, <3>3, <3>4 DEF Ordered
  <2> QED
    BY <2>2, <2>3
<1>3. \A s \in SUBSET S : s \in T
  <2> HIDE DEF T
  <2> QED
    BY <1>1, <1>2, SubsetsIn
<1> QED
  BY <1>3

\* s is a listing of S.
Lists(s, S, after) ==
  /\ s \in [1 .. Cardinality(S) -> S]
  /\ \A i, j \in DOMAIN s : i < j => s[j] \in after[s[i]]

\* The members can be listed.
LEMMA ListingExists ==
  ASSUME NEW S, IsFiniteSet(S), NEW after, Ordered(S, after)
  PROVE  \E s : Lists(s, S, after)
<1> DEFINE T == {u \in SUBSET S : \E s : Lists(s, u, after)}
<1>1. {} \in T
  <2>1. Cardinality({}) = 0
    BY FS_EmptySet
  <2>2. Lists([i \in 1 .. 0 |-> i], {}, after)
    BY <2>1 DEF Lists
  <2> QED
    BY <2>2
<1>2. ASSUME NEW u \in SUBSET S, u # {}, \A x \in u : u \ {x} \in T
      PROVE  u \in T
  <2>1. PICK x \in u : \A y \in u \ {x} : y \in after[x]
    BY <1>2, FirstIn
  <2>2. PICK s : Lists(s, u \ {x}, after)
    BY <1>2
  <2>3. IsFiniteSet(u) /\ Cardinality(u) \in Nat
        /\ Cardinality(u \ {x}) = Cardinality(u) - 1
    BY FS_Subset, FS_CardinalityType, FS_RemoveElement
  <2> DEFINE n == Cardinality(u)
             t == [i \in 1 .. n |-> IF i = 1 THEN x ELSE s[i - 1]]
  <2>4. Cardinality(u \ {x}) = n - 1 /\ n \in Nat
    BY <2>3
  <2> HIDE DEF n
  <2>5. DOMAIN s = 1 .. n - 1 /\ \A i \in 1 .. n - 1 : s[i] \in u \ {x}
    BY <2>2, <2>4 DEF Lists
  <2>6. \A i \in 1 .. n : i # 1 => i - 1 \in 1 .. n - 1 /\ t[i] = s[i - 1]
    BY <2>4
  <2>7. \A i \in 1 .. n : i = 1 => t[i] = x
    OBVIOUS
  <2>8. t \in [1 .. n -> u]
    BY <2>5, <2>6
  <2> HIDE DEF t
  <2>9. ASSUME NEW i \in 1 .. n, NEW j \in 1 .. n, i < j
        PROVE  t[j] \in after[t[i]]
    <3>1. j # 1 /\ j - 1 \in 1 .. n - 1 /\ t[j] = s[j - 1] /\ t[j] \in u \ {x}
      BY <2>4, <2>5, <2>6, <2>9
    <3>2. CASE i = 1
      BY <2>1, <2>7, <3>1, <3>2
    <3>3. CASE i # 1
      <4>1. i - 1 \in 1 .. n - 1 /\ t[i] = s[i - 1] /\ i - 1 < j - 1
        BY <2>4, <2>6, <2>9, <3>3
      <4> QED
        BY <2>2, <2>5, <3>1, <4>1 DEF Lists
    <3> QED
      BY <3>2, <3>3
  <2>10. Lists(t, u, after)
    <3>1. DOMAIN t = 1 .. n
      BY <2>8
    <3> QED
      BY <2>8, <2>9, <3>1 DEF Lists, n
  <2> QED
    BY <2>10
<1>3. \A u \in SUBSET S : u \in T
  <2> HIDE DEF T
  <2> QED
    BY <1>1, <1>2, SubsetsIn
<1> QED
  BY <1>3

\* A listing holds each member once.
LEMMA Listed ==
  ASSUME NEW S, IsFiniteSet(S), NEW after, Ordered(S, after)
  PROVE  /\ Listing(S, after) \in Seq(S)
         /\ Distinct(Listing(S, after))
         /\ ToSet(Listing(S, after)) = S
<1> DEFINE l == Listing(S, after)
           n == Cardinality(S)
<1>1. Lists(l, S, after)
  BY ListingExists DEF Listing, Lists
<1>2. n \in Nat
  BY FS_CardinalityType
<1> HIDE DEF l
<1>3. l \in [1 .. n -> S] /\ DOMAIN l = 1 .. n
  BY <1>1 DEF Lists
<1>4. \A i, j \in 1 .. n : i < j => l[i] # l[j]
  <2> SUFFICES ASSUME NEW i \in 1 .. n, NEW j \in 1 .. n, i < j, l[i] = l[j]
               PROVE  FALSE
    OBVIOUS
  <2>1. l[j] \in after[l[i]]
    BY <1>1, <1>3 DEF Lists
  <2>2. l[i] \in S
    BY <1>3
  <2> QED
    BY <2>1, <2>2 DEF Ordered
<1> HIDE DEF n
<1>5. Distinct(l)
  <2> SUFFICES ASSUME NEW i \in 1 .. n, NEW j \in 1 .. n, l[i] = l[j]
               PROVE  i = j
    BY <1>3 DEF Distinct
  <2>1. ~(i < j) /\ ~(j < i)
    BY <1>4
  <2> QED
    BY <1>2, <2>1
<1>6. ToSet(l) = S
  <2>1. l \in Injection(1 .. n, S)
    BY <1>3, <1>5 DEF Injection, IsInjective, Distinct
  <2>2. IsFiniteSet(1 .. n) /\ Cardinality(1 .. n) = n
    BY <1>2, FS_Interval
  <2>3. l \in Surjection(1 .. n, S)
    BY <2>1, <2>2, FS_Injection DEF n
  <2> QED
    BY <1>3, <2>3 DEF Surjection, ToSet
<1>7. l \in Seq(S)
  BY <1>2, <1>3
<1> QED
  BY <1>5, <1>6, <1>7 DEF l

-----------------------------------------------------------------------------
(* The walk of list_thread.                                                 *)

\* A reply is younger than what it answers.
Older == \A p \in posts : p.parent # None => p.parent < p.id

LEMMA PostShape ==
  ASSUME Types, NEW p \in posts
  PROVE  /\ p.id \in Nat \ {0} /\ p.parent \in Nat /\ p.board \in BoardIds
         /\ p.pinned \in BOOLEAN /\ p.id # None
<1>1. p.id \in Ids /\ p.parent \in Ids \cup {None} /\ p.board \in BoardIds
      /\ p.pinned \in BOOLEAN
  BY DEF Types, TypeOK
<1> QED
  BY <1>1, Bounds DEF Ids, None

\* The roots are listed by pin and age, the replies to a post by age: each once.
LEMMA UnderListed ==
  ASSUME Types, PostsHold, NEW b, NEW i
  PROVE  /\ Flat(Under(b, i)) \in Seq(OnBoard(b))
         /\ Distinct(Flat(Under(b, i)))
         /\ ToSet(Flat(Under(b, i))) = Under(b, i)
         /\ RepliesTo(b, i) \in Seq(OnBoard(b))
         /\ Distinct(RepliesTo(b, i))
         /\ ToSet(RepliesTo(b, i)) = Under(b, i)
<1> DEFINE S == Under(b, i)
           pins == [p \in S |-> {q \in S : \/ p.pinned /\ ~q.pinned
                                           \/ p.pinned = q.pinned /\ p.id > q.id}]
           ages == [p \in S |-> {q \in S : p.id < q.id}]
<1>1. S \subseteq OnBoard(b) /\ S \subseteq posts
  BY DEF Under, OnBoard
<1>2. IsFiniteSet(S)
  BY <1>1, FS_Subset DEF PostsHold
<1>3. \A p \in S : p.id \in Nat /\ p.pinned \in BOOLEAN
  BY <1>1, PostShape
<1>4. \A p, q \in S : p # q => p.id # q.id
  BY <1>1 DEF PostsHold
<1>5. Flat(S) = Listing(S, pins) /\ RepliesTo(b, i) = Listing(S, ages)
  BY DEF Flat, RepliesTo
<1> HIDE DEF S
<1>6. Ordered(S, pins)
  BY <1>3, <1>4 DEF Ordered
<1>7. Ordered(S, ages)
  BY <1>3, <1>4 DEF Ordered
<1> HIDE DEF pins, ages
<1>8. /\ Flat(S) \in Seq(S) /\ Distinct(Flat(S)) /\ ToSet(Flat(S)) = S
      /\ RepliesTo(b, i) \in Seq(S) /\ Distinct(RepliesTo(b, i))
      /\ ToSet(RepliesTo(b, i)) = S
  BY <1>2, <1>5, <1>6, <1>7, Listed
<1>9. Seq(S) \subseteq Seq(OnBoard(b))
  BY <1>1
<1> QED
  BY <1>8, <1>9 DEF S

\* What is listed and what is on the stack: different posts of the board, among
\* them every root and every reply to a listed one; what a reply of them answers
\* is listed, and before it.
Different(w) ==
  /\ Distinct(w.order) /\ Distinct(w.stack)
  /\ ToSet(w.order) \cap ToSet(w.stack) = {}

Reached(b, w) ==
  /\ Under(b, None) \subseteq ToSet(w.order) \cup ToSet(w.stack)
  /\ \A q \in ToSet(w.order) :
        Under(b, q.id) \subseteq ToSet(w.order) \cup ToSet(w.stack)

AnsweredFirst(b, w) ==
  /\ \A i \in DOMAIN w.order :
        ParentOn(b, w.order[i]) # None =>
          \E j \in DOMAIN w.order :
             j < i /\ w.order[j].id = ParentOn(b, w.order[i])
  /\ \A p \in ToSet(w.stack) :
        ParentOn(b, p) # None => \E q \in ToSet(w.order) : q.id = ParentOn(b, p)

Walking(b, w) ==
  /\ w.order \in Seq(OnBoard(b)) /\ w.stack \in Seq(OnBoard(b))
  /\ Different(w)
  /\ Reached(b, w)
  /\ AnsweredFirst(b, w)

\* The walk as it begins.
Start(b) == [order |-> <<>>, stack |-> Flat(Under(b, None))]

LEMMA StartWalks ==
  ASSUME Types, PostsHold, NEW b
  PROVE  Walking(b, Start(b))
<1>1. ToSet(<<>>) = {} /\ DOMAIN <<>> = {}
  BY DEF ToSet
<1>2. Distinct(<<>>)
  BY <1>1 DEF Distinct
<1>3. <<>> \in Seq(OnBoard(b))
  OBVIOUS
<1>4. \A p \in Under(b, None) : ParentOn(b, p) = None
  BY DEF Under
<1> QED
  BY <1>1, <1>2, <1>3, <1>4, UnderListed
     DEF Start, Walking, Different, Reached, AnsweredFirst

\* A turn of the loop: Head(stack) is listed, and its replies, none of which was
\* reached before, take its place.
LEMMA PopWalks ==
  ASSUME Types, PostsHold, NEW b, NEW w, Walking(b, w), w.stack # <<>>
  PROVE  /\ Walking(b, Pop(b, w))
         /\ Len(Pop(b, w).order) = Len(w.order) + 1
<1> DEFINE h == Head(w.stack)
           kids == RepliesTo(b, h.id)
           order == Append(w.order, h)
           stack == kids \o Tail(w.stack)
<1>1. Pop(b, w) = [order |-> order, stack |-> stack]
  BY DEF Pop
<1>2. /\ w.order \in Seq(OnBoard(b)) /\ w.stack \in Seq(OnBoard(b))
      /\ Distinct(w.order) /\ Distinct(w.stack)
      /\ ToSet(w.order) \cap ToSet(w.stack) = {}
  BY DEF Walking, Different
<1>3. /\ h \in ToSet(w.stack) /\ h \in OnBoard(b)
      /\ Tail(w.stack) \in Seq(OnBoard(b))
      /\ ToSet(Tail(w.stack)) = ToSet(w.stack) \ {h}
      /\ Distinct(Tail(w.stack))
  BY <1>2, TailDrops
<1>4. /\ kids \in Seq(OnBoard(b)) /\ Distinct(kids)
      /\ ToSet(kids) = Under(b, h.id)
  BY UnderListed
<1>5. h \in posts /\ h.id # None
  BY <1>3, PostShape DEF OnBoard
<1>6. \A q \in ToSet(w.order) : q \in posts
  BY <1>2 DEF ToSet, OnBoard
<1>7. /\ order \in Seq(OnBoard(b)) /\ Distinct(order)
      /\ ToSet(order) = ToSet(w.order) \cup {h}
      /\ Len(order) = Len(w.order) + 1
  <2>1. h \notin ToSet(w.order)
    BY <1>2, <1>3
  <2> HIDE DEF h
  <2> QED
    BY <1>2, <1>3, <2>1, AppendAdds
\* A reply to h was not reached: its parent would be listed.
<1>8. /\ Under(b, h.id) \cap ToSet(w.order) = {}
      /\ Under(b, h.id) \cap ToSet(w.stack) = {}
      /\ h \notin Under(b, h.id)
  <2>1. \A q \in ToSet(w.order) : q.id # h.id
    BY <1>2, <1>3, <1>5, <1>6 DEF PostsHold
  <2>2. ASSUME NEW p \in Under(b, h.id), p \in ToSet(w.order) PROVE FALSE
    <3>1. PICK i \in DOMAIN w.order : p = w.order[i]
      BY <2>2 DEF ToSet
    <3>2. ParentOn(b, w.order[i]) = h.id
      BY <3>1 DEF Under
    <3>3. PICK j \in DOMAIN w.order : w.order[j].id = h.id
      BY <1>5, <3>1, <3>2 DEF Walking, AnsweredFirst
    <3> QED
      BY <2>1, <3>3 DEF ToSet
  <2>3. ASSUME NEW p \in Under(b, h.id), p \in ToSet(w.stack) PROVE FALSE
    <3>1. ParentOn(b, p) = h.id
      BY DEF Under
    <3>2. PICK q \in ToSet(w.order) : q.id = h.id
      BY <1>5, <2>3, <3>1 DEF Walking, AnsweredFirst
    <3> QED
      BY <2>1, <3>2
  <2> QED
    BY <1>3, <2>2, <2>3
<1> HIDE DEF kids, order
<1>9. /\ stack \in Seq(OnBoard(b)) /\ Distinct(stack)
      /\ ToSet(stack) = Under(b, h.id) \cup (ToSet(w.stack) \ {h})
  <2>1. ToSet(kids) \cap ToSet(Tail(w.stack)) = {}
    BY <1>3, <1>4, <1>8
  <2> DEFINE rest == Tail(w.stack)
  <2>2. rest \in Seq(OnBoard(b)) /\ Distinct(rest)
        /\ ToSet(rest) = ToSet(w.stack) \ {h} /\ ToSet(kids) \cap ToSet(rest) = {}
    BY <1>3, <2>1
  <2> HIDE DEF rest, h
  <2>3. stack = kids \o rest
    BY DEF rest
  <2> HIDE DEF stack
  <2>4. kids \o rest \in Seq(OnBoard(b)) /\ Distinct(kids \o rest)
    BY <1>4, <2>2, ConcatAdds
  <2>5. ToSet(kids \o rest) = ToSet(kids) \cup ToSet(rest)
    BY <1>4, <2>2, ConcatAdds
  <2> QED
    BY <1>4, <2>2, <2>3, <2>4, <2>5
<1> DEFINE v == [order |-> order, stack |-> stack]
<1> HIDE DEF h, stack
<1>10. v.order = order /\ v.stack = stack
  OBVIOUS
<1> HIDE DEF v
<1>11. Different(v)
  <2>1. ToSet(order) \cap ToSet(stack) = {}
    BY <1>2, <1>7, <1>8, <1>9
  <2> QED
    BY <1>7, <1>9, <1>10, <2>1 DEF Different
<1>12. Reached(b, v)
  <2>1. /\ ToSet(w.order) \cup ToSet(w.stack) \subseteq ToSet(order) \cup ToSet(stack)
        /\ Under(b, h.id) \subseteq ToSet(order) \cup ToSet(stack)
    BY <1>7, <1>9
  <2>2. \A q \in ToSet(order) : q \in ToSet(w.order) \/ q = h
    BY <1>7
  <2> QED
    BY <1>10, <2>1, <2>2 DEF Walking, Reached
<1>13. AnsweredFirst(b, v)
  <2>1. /\ Len(w.order) \in Nat /\ DOMAIN w.order = 1 .. Len(w.order)
        /\ DOMAIN order = 1 .. Len(w.order) + 1
        /\ order[Len(w.order) + 1] = h
        /\ \A i \in DOMAIN w.order : order[i] = w.order[i]
    <3> USE DEF order
    <3> QED
      BY <1>2, <1>3
  <2>2. ASSUME NEW i \in DOMAIN order, ParentOn(b, order[i]) # None
        PROVE  \E j \in DOMAIN order : j < i /\ order[j].id = ParentOn(b, order[i])
    <3>1. CASE i \in DOMAIN w.order
      <4>1. PICK j \in DOMAIN w.order :
                   j < i /\ w.order[j].id = ParentOn(b, w.order[i])
        BY <2>1, <2>2, <3>1 DEF Walking, AnsweredFirst
      <4> QED
        BY <2>1, <3>1, <4>1
    <3>2. CASE i = Len(w.order) + 1
      <4>1. PICK q \in ToSet(w.order) : q.id = ParentOn(b, h)
        BY <1>3, <2>1, <2>2, <3>2 DEF Walking, AnsweredFirst
      <4>2. PICK j \in DOMAIN w.order : q = w.order[j]
        BY DEF ToSet
      <4> QED
        BY <2>1, <3>2, <4>1, <4>2
    <3> QED
      BY <2>1, <3>1, <3>2
  <2>3. ASSUME NEW p \in ToSet(stack), ParentOn(b, p) # None
        PROVE  \E q \in ToSet(order) : q.id = ParentOn(b, p)
    <3>1. CASE p \in Under(b, h.id)
      BY <1>7, <3>1 DEF Under
    <3>2. CASE p \in ToSet(w.stack)
      <4>1. PICK q \in ToSet(w.order) : q.id = ParentOn(b, p)
        BY <2>3, <3>2 DEF Walking, AnsweredFirst
      <4> QED
        BY <1>7, <4>1
    <3> QED
      BY <1>9, <2>3, <3>1, <3>2
  <2> QED
    BY <1>10, <2>2, <2>3 DEF AnsweredFirst
<1>14. Walking(b, v)
  BY <1>7, <1>9, <1>10, <1>11, <1>12, <1>13 DEF Walking
<1> QED
  BY <1>1, <1>7, <1>10, <1>14 DEF v

\* Walk is the last of the loop's turns.
LEMMA WalkTurns ==
  ASSUME NEW b, NEW N \in Nat, N = Cardinality(OnBoard(b))
  PROVE  \E f : /\ f[0] = Start(b)
                /\ \A n \in 0 .. N : n # 0 => f[n] = Pop(b, f[n - 1])
                /\ Walk(b) = f[N]
<1> DEFINE Solves(f, n) == f = [m \in 0 .. n |-> IF m = 0 THEN Start(b) ELSE Pop(b, f[m - 1])]
           Solved == {n \in Nat : \E f : Solves(f, n)}
<1>1. 0 \in Solved
  <2>1. Solves([m \in 0 .. 0 |-> Start(b)], 0)
    OBVIOUS
  <2> QED
    BY <2>1
<1>2. ASSUME NEW n \in Nat, n \in Solved PROVE n + 1 \in Solved
  <2>1. PICK f : Solves(f, n)
    BY <1>2
  <2> DEFINE g == [m \in 0 .. n + 1 |-> IF m = n + 1 THEN Pop(b, f[n]) ELSE f[m]]
  <2>2. \A m \in 0 .. n : g[m] = f[m]
    OBVIOUS
  <2>3. ASSUME NEW m \in 0 .. n + 1
        PROVE  g[m] = IF m = 0 THEN Start(b) ELSE Pop(b, g[m - 1])
    <3>1. CASE m = n + 1
      <4>1. g[n] = f[n] /\ g[m] = Pop(b, f[n])
        BY <2>2, <3>1
      <4>2. m - 1 = n /\ m # 0
        BY <3>1
      <4> HIDE DEF g
      <4> QED
        BY <4>1, <4>2
    <3>2. CASE m \in 0 .. n
      <4>1. f[m] = IF m = 0 THEN Start(b) ELSE Pop(b, f[m - 1])
        BY <2>1, <3>2
      <4>2. m # 0 => g[m - 1] = f[m - 1]
        BY <3>2, <2>2
      <4> HIDE DEF g
      <4> QED
        BY <2>2, <3>2, <4>1, <4>2
    <3> QED
      BY <3>1, <3>2
  <2>4. Solves(g, n + 1)
    <3>1. g = [m \in 0 .. n + 1 |-> g[m]]
      OBVIOUS
    <3> HIDE DEF g
    <3> QED
      BY <2>3, <3>1
  <2> HIDE DEF Solves, g
  <2> QED
    BY <2>4
<1>3. \A n \in Nat : n \in Solved
  <2> HIDE DEF Solved
  <2> QED BY <1>1, <1>2, NatsIn
<1> DEFINE f == CHOOSE x : Solves(x, N)
<1>4. Solves(f, N)
  <2> HIDE DEF Solves
  <2> QED BY <1>3
<1>5. Walk(b) = f[N]
  BY DEF Walk, Start
<1> HIDE DEF f
<1>6. f[0] = Start(b) /\ \A n \in 0 .. N : n # 0 => f[n] = Pop(b, f[n - 1])
  BY <1>4
<1> QED
  BY <1>5, <1>6

\* The loop ends within as many turns as the board has posts, and has listed
\* all of them by then: of those that were not, the oldest would be a root or
\* answer one that was.
LEMMA WalkLists ==
  ASSUME Types, PostsHold, Older, NEW b
  PROVE  LET w == Walk(b)
             t == w.order
         IN  /\ w.stack = <<>>
             /\ Len(t) = Cardinality(OnBoard(b))
             /\ ToSet(t) = OnBoard(b)
             /\ \A i, j \in DOMAIN t : t[i].parent = t[j].id => j < i
<1> DEFINE N == Cardinality(OnBoard(b))
           w == Walk(b)
           t == w.order
<1>0. OnBoard(b) \subseteq posts /\ IsFiniteSet(OnBoard(b)) /\ N \in Nat
  BY FS_Subset, FS_CardinalityType DEF OnBoard, PostsHold
<1>1. PICK f : /\ f[0] = Start(b)
               /\ \A n \in 0 .. N : n # 0 => f[n] = Pop(b, f[n - 1])
               /\ w = f[N]
  BY <1>0, WalkTurns
<1> HIDE DEF N, w
\* After n turns n posts are listed, if the loop has not ended.
<1> DEFINE Good == {n \in Nat : n <= N => /\ Walking(b, f[n])
                                          /\ \/ f[n].stack = <<>>
                                             \/ Len(f[n].order) = n}
<1>2. 0 \in Good
  <2>1. Len(Start(b).order) = 0
    BY DEF Start
  <2> QED
    BY <1>1, <2>1, StartWalks
<1>3. ASSUME NEW n \in Nat, n \in Good PROVE n + 1 \in Good
  <2> SUFFICES ASSUME n + 1 <= N
               PROVE  /\ Walking(b, f[n + 1])
                      /\ \/ f[n + 1].stack = <<>>
                         \/ Len(f[n + 1].order) = n + 1
    OBVIOUS
  <2>1. n <= N /\ n + 1 \in 0 .. N /\ n + 1 # 0 /\ (n + 1) - 1 = n
    BY <1>0
  <2>2. f[n + 1] = Pop(b, f[n])
    BY <1>1, <2>1
  <2>3. /\ Walking(b, f[n])
        /\ f[n].stack = <<>> \/ Len(f[n].order) = n
    BY <1>3, <2>1
  <2>4. CASE f[n].stack = <<>>
    BY <2>2, <2>3, <2>4 DEF Pop
  <2>5. CASE f[n].stack # <<>>
    BY <2>2, <2>3, <2>5, PopWalks
  <2> QED
    BY <2>4, <2>5
<1>4. /\ Walking(b, w)
      /\ w.stack = <<>> \/ Len(w.order) = N
  <2>1. \A n \in Nat : n \in Good
    <3> HIDE DEF Good
    <3> QED
      BY <1>2, <1>3, NatsIn
  <2> QED
    BY <1>0, <1>1, <2>1
<1>5. /\ t \in Seq(OnBoard(b)) /\ Len(t) \in Nat /\ DOMAIN t = 1 .. Len(t)
      /\ w.stack \in Seq(OnBoard(b))
      /\ Distinct(t) /\ ToSet(t) \subseteq OnBoard(b)
      /\ ToSet(t) \cap ToSet(w.stack) = {}
  <2>1. t \in Seq(OnBoard(b)) /\ w.stack \in Seq(OnBoard(b))
    BY <1>4 DEF Walking
  <2>2. Distinct(t) /\ ToSet(t) \cap ToSet(w.stack) = {}
    BY <1>4 DEF Walking, Different
  <2> HIDE DEF t
  <2>3. Len(t) \in Nat /\ DOMAIN t = 1 .. Len(t) /\ \A i \in DOMAIN t : t[i] \in OnBoard(b)
    BY <2>1
  <2> QED
    BY <2>1, <2>2, <2>3 DEF ToSet
<1>6. /\ t \in Injection(1 .. Len(t), OnBoard(b))
      /\ IsFiniteSet(1 .. Len(t)) /\ Cardinality(1 .. Len(t)) = Len(t)
  <2>1. t \in [1 .. Len(t) -> OnBoard(b)]
    BY <1>5
  <2> HIDE DEF t
  <2>2. t \in Injection(1 .. Len(t), OnBoard(b))
    BY <1>5, <2>1 DEF Injection, IsInjective, Distinct
  <2>3. IsFiniteSet(1 .. Len(t)) /\ Cardinality(1 .. Len(t)) = Len(t)
    <3>1. \A n \in Nat : IsFiniteSet(1 .. n) /\ Cardinality(1 .. n) = n
      BY FS_Interval
    <3> QED
      BY <1>5, <3>1
  <2> QED
    BY <2>2, <2>3
<1>7. w.stack = <<>>
  <2> SUFFICES ASSUME w.stack # <<>>, Len(t) = N PROVE FALSE
    BY <1>4
  <2>1. t \in Surjection(1 .. Len(t), OnBoard(b))
    <3> HIDE DEF t
    <3> QED
      BY <1>0, <1>6, FS_Injection DEF N
  <2>2. ToSet(t) = OnBoard(b)
    <3> HIDE DEF t
    <3> QED
      BY <1>5, <2>1 DEF Surjection, ToSet
  <2>3. Head(w.stack) \in ToSet(w.stack) /\ Head(w.stack) \in OnBoard(b)
    <3>1. 1 \in DOMAIN w.stack /\ Head(w.stack) = w.stack[1]
      BY <1>5
    <3> QED
      BY <1>5, <3>1 DEF ToSet
  <2> QED
    BY <1>5, <2>2, <2>3
<1>8. ToSet(t) = OnBoard(b)
  <2>1. ToSet(<<>>) = {}
    BY DEF ToSet
  <2>2. /\ Under(b, None) \subseteq ToSet(t)
        /\ \A q \in ToSet(t) : Under(b, q.id) \subseteq ToSet(t)
    BY <1>4, <1>7, <2>1 DEF Walking, Reached
  <2> DEFINE missed == {p.id : p \in OnBoard(b) \ ToSet(t)}
  <2> SUFFICES ASSUME OnBoard(b) \ ToSet(t) # {} PROVE FALSE
    BY <1>5
  <2>3. missed \subseteq Nat /\ missed # {}
    BY <1>0, PostShape
  <2>4. PICK n \in missed : \A m \in missed : n <= m
    <3> HIDE DEF missed
    <3> QED
      BY <2>3, LeastNat
  <2>5. PICK p \in OnBoard(b) \ ToSet(t) : p.id = n
    BY <2>4
  <2>6. p \in posts /\ p.id \in Nat /\ p.parent \in Nat
    BY <1>0, PostShape
  <2>7. CASE ParentOn(b, p) = None
    BY <2>2, <2>7 DEF Under
  <2>8. CASE ParentOn(b, p) # None
    <3>1. PICK q \in OnBoard(b) : q.id = p.parent
      BY <2>8 DEF ParentOn
    <3>2. ParentOn(b, p) = q.id /\ p.parent # None
      BY <2>8, <3>1 DEF ParentOn
    <3>3. q.id < p.id
      BY <2>6, <3>1, <3>2 DEF Older
    <3>4. q.id \in Nat
      BY <1>0, PostShape
    <3>5. q \in ToSet(t)
      <4>1. q.id \notin missed
        BY <2>4, <2>5, <2>6, <3>3, <3>4
      <4> QED
        BY <4>1
    <3>6. p \in Under(b, q.id)
      BY <3>2 DEF Under
    <3> QED
      BY <2>2, <3>5, <3>6
  <2> QED
    BY <2>7, <2>8
<1>9. Len(t) = N
  <2> HIDE DEF t
  <2>1. t \in [1 .. Len(t) -> OnBoard(b)]
    BY <1>6 DEF Injection
  <2>2. t \in Surjection(1 .. Len(t), OnBoard(b))
    BY <1>5, <1>8, <2>1 DEF Surjection, ToSet
  <2> QED
    BY <1>0, <1>6, <2>2, FS_Injection DEF N
<1>10. ASSUME NEW i \in DOMAIN t, NEW j \in DOMAIN t, t[i].parent = t[j].id
       PROVE  j < i
  <2>1. t[i] \in OnBoard(b) /\ t[j] \in OnBoard(b)
    BY <1>5 DEF ToSet
  <2>2. t[j].id # None
    BY <1>0, <2>1, PostShape
  <2>3. ParentOn(b, t[i]) = t[j].id
    BY <1>10, <2>1 DEF ParentOn
  <2>4. PICK k \in DOMAIN t : k < i /\ t[k].id = t[j].id
    BY <1>4, <2>2, <2>3 DEF Walking, AnsweredFirst
  <2>5. t[k] = t[j]
    <3>1. t[k] \in OnBoard(b)
      BY <1>5 DEF ToSet
    <3> QED
      BY <1>0, <2>1, <2>4, <3>1 DEF PostsHold
  <2>6. k = j
    BY <1>5, <2>5 DEF Distinct
  <2> QED
    BY <2>4, <2>6
<1> QED
  BY <1>7, <1>8, <1>9, <1>10 DEF N, w

\* No step makes a post answer a younger one: what is answered is there when the
\* answer is inserted, and nothing changes a post's id or parent.
LEMMA OlderKeeps == IInv /\ Older /\ [Next]_vars => Older'
<1> SUFFICES ASSUME IInv, Older, [Next]_vars PROVE Older'
  OBVIOUS
<1>1. made \in Nat /\ \A p \in posts : p.id \in Nat /\ p.parent \in Nat
  <2>1. made \in Nat
    BY Bounds DEF IInv, Types, TypeOK
  <2> QED
    BY <2>1, PostShape DEF IInv
<1>2. ASSUME posts' \subseteq posts PROVE Older'
  BY <1>2 DEF Older
<1>3. ASSUME NEW p \in posts, NEW q, q.id = p.id, q.parent = p.parent,
             posts' = (posts \ {p}) \cup {q}
      PROVE  Older'
  BY <1>3 DEF Older
<1>4. ASSUME NEW b, NEW u, NEW i, i = None \/ Exists(i),
             posts' = posts \cup {NewPost(b, u, i)}
      PROVE  Older'
  <2>1. NewPost(b, u, i).id = made + 1 /\ NewPost(b, u, i).parent = i
    BY DEF NewPost
  <2>2. i # None => i <= made /\ i \in Nat
    BY <1>1, <1>4 DEF Exists, IInv, PostsHold
  <2> QED
    BY <1>1, <1>4, <2>1, <2>2 DEF Older
<1>5. ASSUME NEW s \in Sessions, SessionStep(s) PROVE Older'
  <2>1. CASE InsertPost(s)
    BY <1>2, <1>4, <2>1 DEF InsertPost, rows
  <2>2. ASSUME NEW p \in posts, EditOwnMessage(s, p) PROVE Older'
    <3>1. p = [id |-> p.id, board |-> p.board, author |-> p.author,
               at |-> p.at, parent |-> p.parent, pinned |-> p.pinned,
               edited |-> p.edited]
      BY DEF IInv, Types, TypeOK
    <3> DEFINE q == [p EXCEPT !.edited = TRUE]
    <3>2. q.id = p.id /\ q.parent = p.parent
      BY <3>1
    <3>3. posts' = (posts \ {p}) \cup {q}
      BY <2>2 DEF EditOwnMessage
    <3> HIDE DEF q
    <3> QED
      BY <1>3, <3>2, <3>3
  <2>3. ASSUME NEW p \in posts, DeletePost(s, p) PROVE Older'
    BY <1>2, <2>3 DEF DeletePost, DeleteRow
  <2>4. ASSUME UNCHANGED posts PROVE Older'
    BY <1>2, <2>4
  <2> QED
    BY <1>5, <2>1, <2>2, <2>3, <2>4
       DEF SessionStep, CheckBoard, CheckParent, CheckRate, RefuseDelete,
           ReportRefusal, ClearForMessage,
           ListBoard, StampVisit, MarkBoardSeen, LookAtReaction, React, Unreact,
           CreatePoll, CheckVote, CastVote, rows
<1>6. ASSUME NEW b \in BoardIds, NEW i \in Ids \cup {None},
             StoreRemotePost(b, i)
      PROVE  Older'
  BY <1>4, <1>6 DEF StoreRemotePost
<1>7. ASSUME NEW p \in posts, SetPinned(p) PROVE Older'
  <2>1. p = [id |-> p.id, board |-> p.board, author |-> p.author,
             at |-> p.at, parent |-> p.parent, pinned |-> p.pinned,
             edited |-> p.edited]
    BY DEF IInv, Types, TypeOK
  <2> DEFINE q == [p EXCEPT !.pinned = ~@]
  <2>2. q.id = p.id /\ q.parent = p.parent
    BY <2>1
  <2>3. posts' = (posts \ {p}) \cup {q}
    BY <1>7 DEF SetPinned
  <2> HIDE DEF q
  <2> QED
    BY <1>3, <2>2, <2>3
<1>8. CASE EndPoll
  BY <1>2, <1>8 DEF EndPoll, ClosePoll, DeletePoll, rows
<1>9. CASE SetBoard
  BY <1>2, <1>9 DEF SetBoard, SetRoles, SetLocked, rows
<1>10. CASE Tick \/ UNCHANGED vars
  BY <1>2, <1>10 DEF Tick, vars, rows
<1> QED
  BY <1>5, <1>6, <1>7, <1>8, <1>9, <1>10 DEF Next

\* list_thread lists every post of a board once, after what it answers, whatever
\* was deleted, pinned, or came from a peer with a parent on another board, and
\* its loop ends.
THEOREM ThreadsAreWhole == Spec => []EveryPostListed
<1>1. Init => Older
  BY DEF Init, Older
<1>2. IInv /\ Older => EveryPostListed
  BY WalkLists DEF IInv, EveryPostListed
<1>3. QED
  BY <1>1, <1>2, OlderKeeps, Invariant, PTL DEF Spec

-----------------------------------------------------------------------------
(* What the tables keep.                                                    *)

\* NothingDangles, and that nobody casts a vote before there is a poll.
Anchored ==
  /\ NothingDangles
  /\ \A s \in Sessions : job[s].at = "cast" => poll # "none"

\* No session passes the check of a vote.
NoVote == \A x \in Sessions : job'[x] = job[x] \/ job'[x].at # "cast"

\* Posts stay or are rewritten, reactions at most go, and poll and votes stay.
LEMMA StayAnchored ==
  ASSUME Anchored, NoVote, UNCHANGED <<poll, votes>>, reacts' \subseteq reacts,
         \A p \in posts : \E q \in posts' : q.id = p.id,
         \A q \in posts' : \E p \in posts : q.parent = p.parent
  PROVE  Anchored'
<1>1. \A i : Exists(i) => Exists(i)'
  BY DEF Exists
<1>2. \A p \in posts' : p.parent # None => Exists(p.parent)'
  BY <1>1 DEF Anchored, NothingDangles
<1>3. \A r \in reacts' : Exists(r.post)'
  BY <1>1 DEF Anchored, NothingDangles
<1> QED
  BY <1>2, <1>3 DEF Anchored, NothingDangles, NoVote

\* A post is added whose parent, if it has one, is there.
LEMMA AddedAnchored ==
  ASSUME Anchored, NoVote, UNCHANGED <<poll, votes, reacts>>,
         NEW b, NEW u, NEW i, i = None \/ Exists(i),
         posts' = posts \cup {NewPost(b, u, i)}
  PROVE  Anchored'
<1>1. \A j : Exists(j) => Exists(j)'
  BY DEF Exists
<1>2. NewPost(b, u, i).parent = i
  BY DEF NewPost
<1>3. \A p \in posts' : p.parent # None => Exists(p.parent)'
  BY <1>1, <1>2 DEF Anchored, NothingDangles
<1>4. \A r \in reacts' : Exists(r.post)'
  BY <1>1 DEF Anchored, NothingDangles
<1> QED
  BY <1>3, <1>4 DEF Anchored, NothingDangles, NoVote

\* A post is removed that nobody answered, and its reactions with it.
LEMMA RemovedAnchored ==
  ASSUME Anchored, NoVote, UNCHANGED <<poll, votes>>, PostsHold,
         NEW p \in posts, DeleteRow(p)
  PROVE  Anchored'
<1>1. posts' = posts \ {p} /\ reacts' = {r \in reacts : r.post # p.id}
      /\ ~Answered(p)
  BY DEF DeleteRow
<1>2. \A i : i # p.id /\ Exists(i) => Exists(i)'
  BY <1>1 DEF Exists
<1>3. \A q \in posts' : q.parent # None => Exists(q.parent)'
  BY <1>1, <1>2 DEF Anchored, NothingDangles, Answered
<1>4. \A r \in reacts' : Exists(r.post)'
  BY <1>1, <1>2 DEF Anchored, NothingDangles
<1> QED
  BY <1>3, <1>4 DEF Anchored, NothingDangles, NoVote

\* What a session does with the posts, the reactions and the booth.
LEMMA SessionAnchored ==
  ASSUME IInv, Anchored, NEW s \in Sessions, SessionStep(s)
  PROVE  Anchored'
<1>0. ASSUME NEW j, Becomes(s, j), j.at # "cast" PROVE NoVote
  <2>1. job'[s] = j /\ \A x \in Sessions : x # s => job'[x] = job[x]
    BY <1>0 DEF Becomes, IInv, Types
  <2> QED
    BY <1>0, <2>1 DEF NoVote
<1>1. Done(s) => NoVote
  BY <1>0 DEF Done, Idle
<1>2. ASSUME NoVote, UNCHANGED <<posts, poll, votes>>, reacts' \subseteq reacts
      PROVE  Anchored'
  BY <1>2, StayAnchored
<1>3. ASSUME NEW b \in BoardIds, NEW i \in Ids \cup {None}, CheckBoard(s, b, i)
      PROVE  Anchored'
  <2>1. NoVote
    BY <1>0, <1>3 DEF CheckBoard
  <2> QED
    BY <1>2, <1>3, <2>1 DEF CheckBoard, rows, booth
<1>4. CASE CheckParent(s) \/ CheckRate(s)
  <2>1. job[s].at \in {"parent", "rate"}
    BY <1>4 DEF CheckParent, CheckRate
  <2>2. NoVote
    BY <1>0, <1>1, <1>4, <2>1, PostGoesOn DEF CheckParent, CheckRate
  <2> QED
    BY <1>2, <1>4, <2>2 DEF CheckParent, CheckRate, rows, booth
<1>5. CASE InsertPost(s)
  <2>1. NoVote /\ UNCHANGED <<poll, votes, reacts>>
    BY <1>1, <1>5 DEF InsertPost, booth
  <2>2. CASE job[s].parent = None \/ Exists(job[s].parent)
    <3>1. posts' = posts \cup {NewPost(job[s].board, UserOf[s], job[s].parent)}
      BY <1>5, <2>2 DEF InsertPost
    <3> QED
      BY <2>1, <2>2, <3>1, AddedAnchored
  <2>3. CASE ~(job[s].parent = None \/ Exists(job[s].parent))
    <3>1. UNCHANGED posts
      BY <1>5, <2>3 DEF InsertPost, rows
    <3> QED
      BY <1>2, <2>1, <3>1
  <2> QED
    BY <2>2, <2>3
<1>6. ASSUME NEW p \in posts, EditOwnMessage(s, p) PROVE Anchored'
  <2> DEFINE q == [p EXCEPT !.edited = TRUE]
  <2>1. p = [id |-> p.id, board |-> p.board, author |-> p.author,
             at |-> p.at, parent |-> p.parent, pinned |-> p.pinned,
             edited |-> p.edited]
    BY DEF IInv, Types, TypeOK
  <2>2. q.id = p.id /\ q.parent = p.parent
    BY <2>1
  <2>3. posts' = (posts \ {p}) \cup {q} /\ UNCHANGED <<poll, votes, reacts, job>>
    BY <1>6 DEF EditOwnMessage, booth
  <2> HIDE DEF q
  <2> QED
    BY <2>2, <2>3, StayAnchored DEF NoVote
<1>7. ASSUME NEW p \in posts, DeletePost(s, p) PROVE Anchored'
  <2>1. NoVote
    BY <1>0, <1>7 DEF DeletePost
  <2> QED
    BY <1>7, <2>1, RemovedAnchored DEF DeletePost, booth, IInv
<1>8. ASSUME NEW p \in posts, RefuseDelete(s, p) PROVE Anchored'
  <2>1. NoVote
    BY <1>0, <1>8 DEF RefuseDelete
  <2> QED
    BY <1>2, <1>8, <2>1 DEF RefuseDelete, rows, booth
<1>9. CASE ReportRefusal(s) \/ ClearForMessage(s) \/ Unreact(s) \/ MarkBoardSeen(s)
  BY <1>1, <1>2, <1>9
     DEF ReportRefusal, ClearForMessage, Unreact, MarkBoardSeen, rows, booth
<1>10. ASSUME NEW b \in BoardIds, ListBoard(s, b) PROVE Anchored'
  <2>1. NoVote
    BY <1>0, <1>10 DEF ListBoard
  <2> QED
    BY <1>2, <1>10, <2>1 DEF ListBoard, rows, booth
<1>11. CASE StampVisit(s)
  <2>1. NoVote
    BY <1>0, <1>11 DEF StampVisit
  <2> QED
    BY <1>2, <1>11, <2>1 DEF StampVisit, rows, booth
<1>12. ASSUME NEW i \in Ids, LookAtReaction(s, i) PROVE Anchored'
  <2>1. NoVote
    BY <1>0, <1>12 DEF LookAtReaction
  <2> QED
    BY <1>2, <1>12, <2>1 DEF LookAtReaction, rows, booth
<1>13. CASE React(s)
  <2>1. NoVote /\ UNCHANGED <<posts, poll, votes>>
    BY <1>1, <1>13 DEF React, rows, booth
  <2>2. \A r \in reacts' : r \in reacts \/ Exists(r.post)
    BY <1>13 DEF React
  <2>3. \A i : Exists(i) => Exists(i)'
    BY <2>1 DEF Exists
  <2>4. \A r \in reacts' : Exists(r.post)'
    BY <2>2, <2>3 DEF Anchored, NothingDangles
  <2> QED
    BY <2>1, <2>3, <2>4 DEF Anchored, NothingDangles, NoVote
<1>14. CASE CreatePoll(s)
  <2>1. UNCHANGED <<posts, reacts, votes, job>> /\ poll' = "open"
    BY <1>14 DEF CreatePoll, rows
  <2>2. \A i : Exists(i) => Exists(i)'
    BY <2>1 DEF Exists
  <2> QED
    BY <2>1, <2>2 DEF Anchored, NothingDangles
<1>15. ASSUME NEW c \in Options, CheckVote(s, c) PROVE Anchored'
  <2>1. UNCHANGED <<posts, reacts, votes, poll>> /\ poll = "open"
    BY <1>15 DEF CheckVote, rows, booth
  <2>2. \A i : Exists(i) => Exists(i)'
    BY <2>1 DEF Exists
  <2> QED
    BY <2>1, <2>2 DEF Anchored, NothingDangles
<1>16. CASE CastVote(s)
  <2>1. NoVote /\ UNCHANGED <<posts, reacts, poll>> /\ poll # "none"
        /\ (poll = "gone" => votes' = votes)
    BY <1>1, <1>16 DEF CastVote, rows, Anchored
  <2>2. \A i : Exists(i) => Exists(i)'
    BY <2>1 DEF Exists
  <2> QED
    BY <2>1, <2>2 DEF Anchored, NothingDangles, NoVote
<1> QED
  BY <1>3, <1>4, <1>5, <1>6, <1>7, <1>8, <1>9, <1>10, <1>11, <1>12, <1>13, <1>14,
     <1>15, <1>16 DEF SessionStep

LEMMA AnchoredKeeps == IInv /\ Anchored /\ [Next]_vars => Anchored'
<1> SUFFICES ASSUME IInv, Anchored, [Next]_vars PROVE Anchored'
  OBVIOUS
<1>1. ASSUME UNCHANGED <<posts, reacts, poll, votes, job>> PROVE Anchored'
  BY <1>1, StayAnchored DEF NoVote
<1>2. ASSUME NEW s \in Sessions, SessionStep(s) PROVE Anchored'
  BY <1>2, SessionAnchored
<1>3. ASSUME NEW b \in BoardIds, NEW i \in Ids \cup {None},
             StoreRemotePost(b, i)
      PROVE  Anchored'
  BY <1>3, AddedAnchored DEF StoreRemotePost, NoVote, booth
<1>4. CASE EndPoll
  <2>1. /\ UNCHANGED <<posts, reacts, job>>
        /\ \/ poll' = "closed"
           \/ poll' = "gone" /\ votes' = [u \in Users |-> None]
    BY <1>4 DEF EndPoll, ClosePoll, DeletePoll, rows
  <2>2. \A i : Exists(i) => Exists(i)'
    BY <2>1 DEF Exists
  <2> QED
    BY <2>1, <2>2 DEF Anchored, NothingDangles
<1>5. CASE SetBoard
  BY <1>1, <1>5 DEF SetBoard, SetRoles, SetLocked, rows, booth
<1>6. ASSUME NEW p \in posts, SetPinned(p) PROVE Anchored'
  <2> DEFINE q == [p EXCEPT !.pinned = ~@]
  <2>1. p = [id |-> p.id, board |-> p.board, author |-> p.author,
             at |-> p.at, parent |-> p.parent, pinned |-> p.pinned,
             edited |-> p.edited]
    BY DEF IInv, Types, TypeOK
  <2>2. q.id = p.id /\ q.parent = p.parent
    BY <2>1
  <2>3. posts' = (posts \ {p}) \cup {q} /\ UNCHANGED <<poll, votes, reacts, job>>
    BY <1>6 DEF SetPinned, booth
  <2> HIDE DEF q
  <2> QED
    BY <2>2, <2>3, StayAnchored DEF NoVote
<1>7. CASE Tick \/ UNCHANGED vars
  BY <1>1, <1>7 DEF Tick, vars, rows, booth
<1> QED
  BY <1>2, <1>3, <1>4, <1>5, <1>6, <1>7 DEF Next

\* No reply, reaction or vote outlives what it belongs to, though toggle_reaction,
\* cast_vote and post_message look in one statement and write in another: the
\* foreign keys refuse what comes too late.
THEOREM NothingLeftDangling == Spec => []NothingDangles
<1>1. Init => Anchored
  BY DEF Init, Anchored, NothingDangles, Idle
<1>2. Anchored => NothingDangles
  BY DEF Anchored
<1>3. QED
  BY <1>1, <1>2, AnchoredKeeps, Invariant, PTL DEF Spec

=============================================================================
