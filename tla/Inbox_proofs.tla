---------------------------- MODULE Inbox_proofs ----------------------------
(***************************************************************************)
(* Proofs about the federation: Inbox first, then Syndication.             *)
(*                                                                         *)
(* Inbox, for every set of posts and every bound: both ends of a follow    *)
(* agree once all is delivered, the stores come to hold the author's last  *)
(* word, a mirror what its board holds, and a mirrored reply hangs where   *)
(* it does on the board.  Each of them says what holds when nothing about  *)
(* its subject is on the wire.  What makes it inductive is a statement of  *)
(* what is to come: which message about a subject is the first in a queue, *)
(* which the last, and in which order they stand.  A delivery that comes   *)
(* out of turn, or never, marks its subject as shaken, and of a shaken     *)
(* subject nothing is said.                                                *)
(*                                                                         *)
(* Syndication, for any number of subscribers and edits: no subscriber is  *)
(* told to drop a post that is still there, and one that no delivery       *)
(* failed for shows what the hub shows.                                    *)
(***************************************************************************)
EXTENDS Inbox, Syndication, FiniteSetTheorems, SequenceTheorems, TLAPS

-----------------------------------------------------------------------------
(* A queue w, and the messages in it about a subject q. *)

\* Message m about q is in it, is in it before any other about q, after any
\* other, or before message n about q.
In(w, q, m) == \E k \in DOMAIN w : w[k] = m /\ m.post = q
FirstOf(w, q, m) ==
  \E k \in DOMAIN w : /\ w[k] = m /\ m.post = q
                      /\ \A j \in DOMAIN w : j < k => w[j].post # q
LastOf(w, q, m) ==
  \E k \in DOMAIN w : /\ w[k] = m /\ m.post = q
                      /\ \A j \in DOMAIN w : k < j => w[j].post # q
Precedes(w, q, m, n) ==
  \E j, k \in DOMAIN w : /\ j < k /\ w[j] = m /\ w[k] = n
                         /\ m.post = q /\ n.post = q
Has(w, q) == \E k \in DOMAIN w : w[k].post = q

\* One about q may be delivered before an Accept is.
Open(w, q) == \E k \in DOMAIN w :
                 /\ w[k].post = q
                 /\ \A j \in DOMAIN w : j < k => w[j].act # "Accept"

XY == <<"x", "y">>
YX == <<"y", "x">>
ZY == <<"z", "y">>
ZX == <<"z", "x">>

-----------------------------------------------------------------------------
(* The inductive invariant. *)

Subjects == Posts \cup {None}
Acts     == {"Follow", "Undo", "Accept", "Create", "Update", "Delete", "Announced",
             "Withdrawn"}
Message  == [act : Acts, post : Subjects, ver : 0 .. MaxVer, up : Subjects]

FollowMsg == Msg("Follow", None, 0, None)
UndoMsg   == Msg("Undo", None, 0, None)
AcceptMsg == Msg("Accept", None, 0, None)

\* What travels on a link.
Travels(l, m) ==
  CASE l = XY -> \/ m \in {FollowMsg, UndoMsg}
                 \/ m.act = "Create" /\ m.ver = 1 /\ m.post \in Posts /\ HomeOf[m.post] = "x"
    [] l = YX -> \/ m = AcceptMsg
                 \/ m.act = "Announced" /\ m.ver # 0 /\ m.post \in Posts \ Private
                 \/ m.act = "Withdrawn" /\ m.post \in Posts \ Private
    [] OTHER  -> /\ m.post \in Posts /\ HomeOf[m.post] = "z"
                 /\ l = ZY => m.post \notin Private
                 /\ \/ m.act = "Create" /\ m.ver = 1
                    \/ m.act = "Update" /\ m.ver # 0
                    \/ m.act = "Delete"

Types ==
  /\ TypeOK
  /\ wire \in [Links -> Seq(Message)]
  /\ \A l \in Links : \A k \in DOMAIN wire[l] : Travels(l, wire[l][k])
  /\ asks \in Nat /\ upsets \in Nat

\* A private post is nowhere but in the mailbox, and nobody asks for it.
PrivateHolds ==
  \A p \in Private :
     held["board"][p] = 0 /\ held["mirror"][p] = 0 /\ held["timeline"][p] = 0

\* The board's idea of the edge is, or will be by the last message, the user's;
\* who waits for an Accept has one coming.
EdgeFrom(w, v, e, sub, acc) ==
  /\ ~Has(w, None) => (sub <=> e # None)
  /\ \A m \in Range(w) : LastOf(w, None, m) => (m.act = "Follow" <=> e # None)
  /\ e = "pending" => acc \/ Has(v, None) \/ In(w, None, FollowMsg)

EdgeHolds == Settled => EdgeFrom(wire[XY], wire[YX], edge, subscribed, accepting)

\* Store s is where the author's word of post p belongs.
Belongs(p, s) ==
  /\ s = "board" => p \notin Private
  /\ s # "board" => HomeOf[p] = "z" /\ (s = "mail" <=> p \in Private)

Word(v) == IF v = Gone THEN 0 ELSE v

\* What is to come of post p in queue w brings a store from h, what it holds,
\* to the author's word v: a Create comes first, if at all, and finds nothing,
\* a Delete comes last.
WordFrom(w, p, h, v) ==
  /\ ~Has(w, p) => h = Word(v)
  /\ Has(w, p) => v # 0
  /\ \A m \in Range(w) :
       /\ LastOf(w, p, m) => /\ (m.act = "Create" => v = 1)
                             /\ (m.act = "Update" => v = m.ver)
       /\ FirstOf(w, p, m) => (m.act = "Create" <=> h = 0)
       /\ (In(w, p, m) /\ m.act = "Delete" => v = Gone)
       /\ \A n \in Range(w) :
            Precedes(w, p, m, n) => m.act # "Delete" /\ n.act # "Create"

WordHolds ==
  \A p \in Posts, s \in {"board", "timeline", "mail"} :
     Belongs(p, s) /\ <<SiteOf[s], p>> \notin shaken
       => WordFrom(wire[<<HomeOf[p], SiteOf[s]>>], p, held[s][p], said[p])

\* As long as some post is unshaken at x, its user has not left the board.
EdgeStays ==
  /\ edge = None => /\ ~subscribed /\ ~accepting
                    /\ ~Has(wire[YX], None) /\ ~Has(wire[XY], None)
  /\ ~In(wire[XY], None, UndoMsg)
  /\ subscribed /\ ~accepting => edge = "accepted" \/ Has(wire[YX], None)

\* What is announced of post p in queue w brings its mirror from h to b, which
\* the board holds, or to nothing if the board is about to announce it.
MirrorFrom(w, p, h, b, isDue) ==
  /\ b \in {0, 1} /\ h \in {0, 1}
  /\ ~Has(w, p) => h = IF isDue THEN 0 ELSE b
  /\ \A m \in Range(w) :
       /\ (In(w, p, m) /\ m.act = "Announced" => m.ver = 1)
       /\ LastOf(w, p, m) => /\ (m.act = "Announced" => ~isDue /\ b = 1)
                             /\ (m.act = "Withdrawn" => isDue \/ b = 0)

\* The announcements come after the Accept.
MirrorComes(p) ==
  /\ EdgeStays
  /\ Open(wire[YX], p) => edge = "accepted"
  /\ MirrorFrom(wire[YX], p, held["mirror"][p], held["board"][p], p \in due)

MirrorHolds ==
  Settled => \A p \in Posts \ Private : <<"x", p>> \notin shaken => MirrorComes(p)

\* Of a post that is not yet on the board nothing has gone on to the mirror.
ToCome(p) ==
  said[p] = 0 \/ \E m \in Range(wire[<<HomeOf[p], "y">>]) : m.act = "Create" /\ m.post = p

\* Where a post hangs on the board is where its announcements put it.
Hangs(p) ==
  /\ \A m \in Range(wire[YX]) :
       m.act = "Announced" /\ m.post = p => ~ToCome(p) /\ m.up = under["board"][p]
  /\ held["mirror"][p] # 0 => ~ToCome(p) /\ under["mirror"][p] = under["board"][p]
  /\ p \in due \/ held["board"][p] # 0 => ~ToCome(p)

HangsHold == \A p \in Posts : <<"y", p>> \notin shaken => Hangs(p)

IInv == /\ Types
        /\ PrivateHolds
        /\ EdgeHolds
        /\ WordHolds
        /\ MirrorHolds
        /\ HangsHold

-----------------------------------------------------------------------------
(* Queues. *)

\* Queue v is w after a step that removed its first message or another, none
\* about q before it: what is about q, but for a first message, moves up.
Shifted(w, v, q) ==
  /\ \A k \in DOMAIN w :
        k # 1 /\ w[k].post = q => k - 1 \in DOMAIN v /\ v[k - 1] = w[k]
  /\ \A k \in DOMAIN v :
        v[k].post = q => k + 1 \in DOMAIN w /\ v[k] = w[k + 1]

\* Of q queue v says nothing that w did not say.
Same(w, v, q) ==
  /\ Has(v, q) <=> Has(w, q)
  /\ \A m : In(v, q, m) <=> In(w, q, m)
  /\ \A m : FirstOf(v, q, m) => FirstOf(w, q, m)
  /\ \A m : LastOf(v, q, m) => LastOf(w, q, m)
  /\ \A m, n : Precedes(v, q, m, n) => Precedes(w, q, m, n)

\* Message m, the first about q, is taken.
Took(w, v, q, m) ==
  /\ Has(w, q) /\ In(w, q, m) /\ FirstOf(w, q, m)
  /\ ~Has(v, q) => LastOf(w, q, m)
  /\ Has(v, q) => \E n : In(v, q, n)
  /\ \A n : In(v, q, n) => In(w, q, n) /\ Precedes(w, q, m, n)
  /\ \A n : In(w, q, n) => n = m \/ In(v, q, n)
  /\ \A n : FirstOf(v, q, n) => In(v, q, n)
  /\ \A n : LastOf(v, q, n) => LastOf(w, q, n)
  /\ \A n, o : Precedes(v, q, n, o) => Precedes(w, q, n, o)

\* Message m about q is sent.
Sent(w, v, q, m) ==
  /\ Has(v, q) /\ In(v, q, m)
  /\ \A n : In(w, q, n) => In(v, q, n)
  /\ \A n : In(v, q, n) => In(w, q, n) \/ n = m
  /\ \A n : FirstOf(v, q, n) => FirstOf(w, q, n) \/ (n = m /\ ~Has(w, q))
  /\ \A n : LastOf(v, q, n) => n = m
  /\ \A n, o : Precedes(v, q, n, o) =>
        Precedes(w, q, n, o) \/ (In(w, q, n) /\ o = m)

\* The messages a statement about q speaks of are messages of the queue.
LEMMA InRange ==
  ASSUME NEW w, NEW q
  PROVE  /\ \A m : In(w, q, m) => m \in Range(w) /\ m.post = q /\ Has(w, q)
         /\ \A m : FirstOf(w, q, m) => In(w, q, m)
         /\ \A m : LastOf(w, q, m) => In(w, q, m)
         /\ \A m, n : Precedes(w, q, m, n) => In(w, q, m) /\ In(w, q, n)
         /\ Has(w, q) => \E m \in Range(w) : In(w, q, m)
BY DEF In, FirstOf, LastOf, Precedes, Has, Range

LEMMA SameIsSame == ASSUME NEW w, NEW q PROVE Same(w, w, q)
BY DEF Same

LEMMA ShiftedIsSame ==
  ASSUME NEW w \in Seq(Message), NEW v \in Seq(Message), NEW q,
         Shifted(w, v, q), w # <<>>, w[1].post # q
  PROVE  Same(w, v, q)
<1> USE DEF Shifted
<1>0. DOMAIN w = 1 .. Len(w) /\ DOMAIN v = 1 .. Len(v) /\ Len(w) \in Nat /\ Len(v) \in Nat
  OBVIOUS
<1>1. \A k \in DOMAIN w : w[k].post = q => k - 1 \in DOMAIN v /\ v[k - 1] = w[k]
  OBVIOUS
<1>2. \A k \in DOMAIN v : v[k].post = q => k + 1 \in DOMAIN w /\ v[k] = w[k + 1]
  OBVIOUS
<1>3. Has(v, q) <=> Has(w, q)
  BY <1>1, <1>2 DEF Has
<1>4. ASSUME NEW m PROVE In(v, q, m) <=> In(w, q, m)
  BY <1>1, <1>2 DEF In
<1>5. ASSUME NEW m, FirstOf(v, q, m) PROVE FirstOf(w, q, m)
  <2>1. PICK k \in DOMAIN v : /\ v[k] = m /\ m.post = q
                              /\ \A j \in DOMAIN v : j < k => v[j].post # q
    BY <1>5 DEF FirstOf
  <2>2. k + 1 \in DOMAIN w /\ w[k + 1] = m
    BY <1>2, <2>1
  <2>3. ASSUME NEW j \in DOMAIN w, j < k + 1, w[j].post = q PROVE FALSE
    <3>1. j - 1 \in DOMAIN v /\ v[j - 1].post = q
      BY <1>1, <2>3
    <3>2. j - 1 < k
      BY <1>0, <2>1, <2>3
    <3>3. QED
      BY <2>1, <3>1, <3>2
  <2>4. QED
    BY <2>1, <2>2, <2>3 DEF FirstOf
<1>6. ASSUME NEW m, LastOf(v, q, m) PROVE LastOf(w, q, m)
  <2>1. PICK k \in DOMAIN v : /\ v[k] = m /\ m.post = q
                              /\ \A j \in DOMAIN v : k < j => v[j].post # q
    BY <1>6 DEF LastOf
  <2>2. k + 1 \in DOMAIN w /\ w[k + 1] = m
    BY <1>2, <2>1
  <2>3. ASSUME NEW j \in DOMAIN w, k + 1 < j, w[j].post = q PROVE FALSE
    <3>1. j - 1 \in DOMAIN v /\ v[j - 1].post = q
      BY <1>1, <2>3
    <3>2. k < j - 1
      BY <1>0, <2>1, <2>3
    <3>3. QED
      BY <2>1, <3>1, <3>2
  <2>4. QED
    BY <2>1, <2>2, <2>3 DEF LastOf
<1>7. ASSUME NEW m, NEW n, Precedes(v, q, m, n) PROVE Precedes(w, q, m, n)
  <2>1. PICK j \in DOMAIN v, k \in DOMAIN v :
               j < k /\ v[j] = m /\ v[k] = n /\ m.post = q /\ n.post = q
    BY <1>7 DEF Precedes
  <2>2. /\ j + 1 \in DOMAIN w /\ w[j + 1] = m
        /\ k + 1 \in DOMAIN w /\ w[k + 1] = n
        /\ j + 1 < k + 1
    BY <1>0, <1>2, <2>1
  <2>3. QED
    BY <2>1, <2>2 DEF Precedes
<1>8. QED
  BY <1>3, <1>4, <1>5, <1>6, <1>7 DEF Same

LEMMA ShiftedTook ==
  ASSUME NEW w \in Seq(Message), NEW v \in Seq(Message), NEW q,
         Shifted(w, v, q), w # <<>>, w[1].post = q
  PROVE  Took(w, v, q, w[1])
<1> DEFINE m == w[1]
<1>0. DOMAIN w = 1 .. Len(w) /\ DOMAIN v = 1 .. Len(v) /\ Len(w) \in Nat /\ Len(v) \in Nat
      /\ 1 \in DOMAIN w
  OBVIOUS
<1>1. \A k \in DOMAIN w : k # 1 /\ w[k].post = q => k - 1 \in DOMAIN v /\ v[k - 1] = w[k]
  BY DEF Shifted
<1>2. \A k \in DOMAIN v : v[k].post = q => k + 1 \in DOMAIN w /\ v[k] = w[k + 1]
  BY DEF Shifted
<1>3. Has(w, q) /\ In(w, q, m) /\ FirstOf(w, q, m)
  BY <1>0 DEF Has, In, FirstOf
<1>4. ~Has(v, q) => LastOf(w, q, m)
  <2> SUFFICES ASSUME ~Has(v, q) PROVE LastOf(w, q, m)
    OBVIOUS
  <2>1. ASSUME NEW j \in DOMAIN w, 1 < j, w[j].post = q PROVE FALSE
    BY <1>0, <1>1, <2>1 DEF Has
  <2>2. QED
    BY <1>0, <2>1 DEF LastOf
<1>5. Has(v, q) => \E n : In(v, q, n)
  BY DEF Has, In
<1>6. ASSUME NEW n, In(v, q, n) PROVE In(w, q, n) /\ Precedes(w, q, m, n)
  <2>1. PICK k \in DOMAIN v : v[k] = n /\ n.post = q
    BY <1>6 DEF In
  <2>2. k + 1 \in DOMAIN w /\ w[k + 1] = n /\ 1 < k + 1
    BY <1>0, <1>2, <2>1
  <2>3. QED
    BY <1>0, <2>1, <2>2 DEF In, Precedes
<1>7. ASSUME NEW n, In(w, q, n) PROVE n = m \/ In(v, q, n)
  BY <1>1, <1>7 DEF In
<1>8. \A n : FirstOf(v, q, n) => In(v, q, n)
  BY InRange
<1>9. ASSUME NEW n, LastOf(v, q, n) PROVE LastOf(w, q, n)
  <2>1. PICK k \in DOMAIN v : /\ v[k] = n /\ n.post = q
                              /\ \A j \in DOMAIN v : k < j => v[j].post # q
    BY <1>9 DEF LastOf
  <2>2. k + 1 \in DOMAIN w /\ w[k + 1] = n
    BY <1>2, <2>1
  <2>3. ASSUME NEW j \in DOMAIN w, k + 1 < j, w[j].post = q PROVE FALSE
    <3>0. j # 1
      BY <1>0, <2>1, <2>3
    <3>1. j - 1 \in DOMAIN v /\ v[j - 1].post = q
      BY <1>1, <2>3, <3>0
    <3>2. k < j - 1
      BY <1>0, <2>1, <2>3
    <3>3. QED
      BY <2>1, <3>1, <3>2
  <2>4. QED
    BY <2>1, <2>2, <2>3 DEF LastOf
<1>10. ASSUME NEW n, NEW o, Precedes(v, q, n, o) PROVE Precedes(w, q, n, o)
  <2>1. PICK j \in DOMAIN v, k \in DOMAIN v :
               j < k /\ v[j] = n /\ v[k] = o /\ n.post = q /\ o.post = q
    BY <1>10 DEF Precedes
  <2>2. /\ j + 1 \in DOMAIN w /\ w[j + 1] = n
        /\ k + 1 \in DOMAIN w /\ w[k + 1] = o
        /\ j + 1 < k + 1
    BY <1>0, <1>2, <2>1
  <2>3. QED
    BY <2>1, <2>2 DEF Precedes
<1> HIDE DEF m
<1>11. Took(w, v, q, m)
  BY <1>3, <1>4, <1>5, <1>6, <1>7, <1>8, <1>9, <1>10 DEF Took
<1>12. QED
  BY <1>11 DEF m

\* Nothing about q, before and after.
LEMMA NoneIsSame ==
  ASSUME NEW w, NEW v, NEW q, ~Has(w, q), Range(v) \subseteq Range(w)
  PROVE  Same(w, v, q)
<1>1. ~Has(v, q)
  BY DEF Has, Range
<1>2. QED
  BY <1>1, InRange DEF Same

\* Messages are sent to the end of the queue.
LEMMA AppendSends ==
  ASSUME NEW w \in Seq(Message), NEW m \in Message
  PROVE  /\ Append(w, m) \in Seq(Message)
         /\ Range(Append(w, m)) = Range(w) \cup {m}
         /\ Sent(w, Append(w, m), m.post, m)
         /\ \A q : q # m.post => Same(w, Append(w, m), q)
<1> DEFINE v == Append(w, m)
<1>0. /\ v \in Seq(Message) /\ Len(w) \in Nat /\ Len(v) = Len(w) + 1
      /\ DOMAIN w = 1 .. Len(w) /\ DOMAIN v = 1 .. Len(w) + 1
      /\ v[Len(w) + 1] = m
      /\ \A k \in DOMAIN w : v[k] = w[k] /\ k \in DOMAIN v
  OBVIOUS
<1> HIDE DEF v
<1>1. \A k \in DOMAIN v : k = Len(w) + 1 \/ (k \in DOMAIN w /\ k < Len(w) + 1)
  BY <1>0
<1>2. /\ Len(w) + 1 \in DOMAIN v
      /\ \A k \in DOMAIN w : k \in Nat /\ k < Len(w) + 1
  BY <1>0
<1>3. Range(v) = Range(w) \cup {m}
  BY <1>0, <1>1, <1>2 DEF Range
<1>4. Sent(w, v, m.post, m)
  <2>1. Has(v, m.post) /\ In(v, m.post, m)
    BY <1>0, <1>2 DEF Has, In
  <2>2. \A n : In(w, m.post, n) => In(v, m.post, n)
    BY <1>0 DEF In
  <2>3. \A n : In(v, m.post, n) => In(w, m.post, n) \/ n = m
    BY <1>0, <1>1 DEF In
  <2>4. ASSUME NEW n, FirstOf(v, m.post, n)
        PROVE  FirstOf(w, m.post, n) \/ (n = m /\ ~Has(w, m.post))
    <3>1. PICK k \in DOMAIN v :
                 /\ v[k] = n /\ n.post = m.post
                 /\ \A j \in DOMAIN v : j < k => v[j].post # m.post
      BY <2>4 DEF FirstOf
    <3>2. CASE k \in DOMAIN w
      <4>1. w[k] = n /\ \A j \in DOMAIN w : j < k => w[j].post # m.post
        BY <1>0, <3>1, <3>2
      <4>2. QED
        BY <3>1, <3>2, <4>1 DEF FirstOf
    <3>3. CASE k = Len(w) + 1
      <4>1. n = m
        BY <1>0, <3>1, <3>3
      <4>2. ~Has(w, m.post)
        BY <1>0, <1>2, <3>1, <3>3 DEF Has
      <4>3. QED
        BY <4>1, <4>2
    <3>4. QED
      BY <1>1, <3>2, <3>3
  <2>5. ASSUME NEW n, LastOf(v, m.post, n) PROVE n = m
    <3>1. PICK k \in DOMAIN v :
                 /\ v[k] = n /\ n.post = m.post
                 /\ \A j \in DOMAIN v : k < j => v[j].post # m.post
      BY <2>5 DEF LastOf
    <3>2. QED
      BY <1>0, <1>1, <1>2, <3>1
  <2>6. ASSUME NEW n, NEW o, Precedes(v, m.post, n, o)
        PROVE  Precedes(w, m.post, n, o) \/ (In(w, m.post, n) /\ o = m)
    <3>1. PICK j \in DOMAIN v, k \in DOMAIN v :
                 j < k /\ v[j] = n /\ v[k] = o /\ n.post = m.post /\ o.post = m.post
      BY <2>6 DEF Precedes
    <3>2. j \in DOMAIN w /\ w[j] = n
      BY <1>0, <1>1, <1>2, <3>1
    <3>3. CASE k \in DOMAIN w
      BY <1>0, <3>1, <3>2, <3>3 DEF Precedes
    <3>4. CASE k = Len(w) + 1
      BY <1>0, <3>1, <3>2, <3>4 DEF In
    <3>5. QED
      BY <1>1, <3>3, <3>4
  <2>7. QED
    BY <2>1, <2>2, <2>3, <2>4, <2>5, <2>6 DEF Sent
<1>5. ASSUME NEW q, q # m.post PROVE Same(w, v, q)
  <2>0. \A k \in DOMAIN v : v[k].post = q => k \in DOMAIN w /\ w[k] = v[k]
    BY <1>0, <1>1, <1>5
  <2>1. Has(v, q) <=> Has(w, q)
    BY <1>0, <2>0 DEF Has
  <2>2. \A n : In(v, q, n) <=> In(w, q, n)
    BY <1>0, <2>0 DEF In
  <2>3. \A n : FirstOf(v, q, n) => FirstOf(w, q, n)
    BY <1>0, <2>0 DEF FirstOf
  <2>4. \A n : LastOf(v, q, n) => LastOf(w, q, n)
    BY <1>0, <2>0 DEF LastOf
  <2>5. \A n, o : Precedes(v, q, n, o) => Precedes(w, q, n, o)
    BY <1>0, <2>0 DEF Precedes
  <2>6. QED
    BY <2>1, <2>2, <2>3, <2>4, <2>5 DEF Same
<1>6. QED
  BY <1>0, <1>3, <1>4, <1>5 DEF v
-----------------------------------------------------------------------------
(* Deliveries. *)

\* What the constants are.
LEMMA Constants ==
  /\ HomeOf \in [Posts -> {"x", "z"}]
  /\ ParentOf \in [Posts -> Subjects]
  /\ None \notin Posts
  /\ \A p \in Private : p \in Posts /\ HomeOf[p] = "z"
  /\ MaxVer \in Nat /\ MaxVer >= 1 /\ Gone = MaxVer + 1
  /\ XY \in Links /\ YX \in Links /\ ZY \in Links /\ ZX \in Links
  /\ \A l \in Links : l = XY \/ l = YX \/ l = ZY \/ l = ZX
  /\ Range(Stores) = {"board", "timeline", "mirror", "mail"}
<1>1. Range(Stores) = {"board", "timeline", "mirror", "mail"}
  <2>1. /\ DOMAIN Stores = 1 .. 4
        /\ Stores[1] = "board" /\ Stores[2] = "timeline"
        /\ Stores[3] = "mirror" /\ Stores[4] = "mail"
    BY DEF Stores
  <2>2. QED
    BY <2>1 DEF Range
<1>2. QED
  BY <1>1, InboxAssumption DEF Subjects, Gone, Links, XY, YX, ZY, ZX

\* The links, by their ends.
LEMMA Ends ==
  /\ XY[1] = "x" /\ XY[2] = "y" /\ YX[1] = "y" /\ YX[2] = "x"
  /\ ZY[1] = "z" /\ ZY[2] = "y" /\ ZX[1] = "z" /\ ZX[2] = "x"
  /\ XY # YX /\ XY # ZY /\ XY # ZX /\ YX # ZY /\ YX # ZX /\ ZY # ZX
BY DEF XY, YX, ZY, ZX

\* A queue without its message at i.
LEMMA RemovedAt ==
  ASSUME NEW w \in Seq(Message), NEW i \in 1 .. Len(w)
  PROVE  /\ RemoveAt(w, i) \in Seq(Message)
         /\ Len(RemoveAt(w, i)) = Len(w) - 1
         /\ \A k \in 1 .. Len(w) - 1 :
               RemoveAt(w, i)[k] = IF k < i THEN w[k] ELSE w[k + 1]
<1> DEFINE a == SubSeq(w, 1, i - 1)
           b == SubSeq(w, i + 1, Len(w))
           n == Len(w)
<1>0. n \in Nat /\ i \in Nat /\ 1 <= i /\ i <= n
  OBVIOUS
<1>1. /\ a \in Seq(Message) /\ Len(a) = i - 1
      /\ \A k \in 1 .. i - 1 : a[k] = w[k]
  BY <1>0
<1>2. /\ b \in Seq(Message) /\ Len(b) = n - i
      /\ \A k \in 1 .. n - i : b[k] = w[k + i]
  BY <1>0
<1>3. RemoveAt(w, i) = a \o b
  BY DEF RemoveAt
<1> HIDE DEF a, b, n
<1>4. /\ a \o b \in Seq(Message) /\ Len(a \o b) = Len(a) + Len(b)
      /\ \A k \in 1 .. Len(a) + Len(b) :
            (a \o b)[k] = IF k <= Len(a) THEN a[k] ELSE b[k - Len(a)]
  <2>1. a \in Seq(Message) /\ b \in Seq(Message)
    BY <1>1, <1>2
  <2>2. QED
    BY <2>1, ConcatProperties
<1>5. Len(a) + Len(b) = n - 1
  BY <1>0, <1>1, <1>2
<1>6. ASSUME NEW k \in 1 .. n - 1
      PROVE  (a \o b)[k] = IF k < i THEN w[k] ELSE w[k + 1]
  <2>1. CASE k < i
    BY <1>0, <1>1, <1>4, <1>5, <2>1
  <2>2. CASE ~(k < i)
    <3>1. k - (i - 1) \in 1 .. n - i /\ ~(k <= i - 1)
      BY <1>0, <2>2
    <3>2. (a \o b)[k] = b[k - (i - 1)]
      BY <1>0, <1>1, <1>4, <1>5, <3>1
    <3>3. b[k - (i - 1)] = w[(k - (i - 1)) + i]
      BY <1>2, <3>1
    <3>4. (k - (i - 1)) + i = k + 1
      BY <1>0
    <3>5. QED
      BY <2>2, <3>2, <3>3, <3>4
  <2>3. QED
    BY <2>1, <2>2
<1>7. QED
  BY <1>3, <1>4, <1>5, <1>6 DEF n

\* A first message taken.
LEMMA TailShifts ==
  ASSUME NEW w \in Seq(Message), w # <<>>, NEW q
  PROVE  /\ Tail(w) \in Seq(Message) /\ Range(Tail(w)) \subseteq Range(w)
         /\ Shifted(w, Tail(w), q)
<1> DEFINE v == Tail(w)
<1>0. /\ v \in Seq(Message) /\ Len(w) \in Nat /\ Len(v) = Len(w) - 1
      /\ Len(w) >= 1
      /\ DOMAIN w = 1 .. Len(w) /\ DOMAIN v = 1 .. Len(w) - 1
      /\ \A k \in 1 .. Len(w) - 1 : v[k] = w[k + 1]
  OBVIOUS
<1> HIDE DEF v
<1>1. \A k \in DOMAIN v : k + 1 \in DOMAIN w /\ v[k] = w[k + 1]
  BY <1>0
<1>2. \A k \in DOMAIN w : k # 1 => k - 1 \in DOMAIN v /\ v[k - 1] = w[k]
  BY <1>0
<1>3. Range(v) \subseteq Range(w)
  BY <1>1 DEF Range
<1>4. QED
  BY <1>0, <1>1, <1>2, <1>3 DEF Shifted, v

\* One taken from further back, and nothing about q up to there.
LEMMA RemoveShifts ==
  ASSUME NEW w \in Seq(Message), NEW i \in 1 .. Len(w), NEW q,
         \A j \in 1 .. i : w[j].post # q
  PROVE  /\ RemoveAt(w, i) \in Seq(Message)
         /\ Range(RemoveAt(w, i)) \subseteq Range(w)
         /\ Shifted(w, RemoveAt(w, i), q)
<1> DEFINE v == RemoveAt(w, i)
<1>0. /\ v \in Seq(Message) /\ Len(w) \in Nat /\ Len(v) = Len(w) - 1
      /\ Len(w) >= 1
      /\ \A k \in 1 .. Len(w) - 1 : v[k] = IF k < i THEN w[k] ELSE w[k + 1]
  <2>1. Len(w) \in Nat /\ Len(w) >= 1
    OBVIOUS
  <2>2. QED
    BY <2>1, RemovedAt
<1> HIDE DEF v
<1>1. DOMAIN w = 1 .. Len(w) /\ DOMAIN v = 1 .. Len(w) - 1 /\ i \in Nat
  BY <1>0
<1>2. \A k \in DOMAIN v : v[k].post = q => k + 1 \in DOMAIN w /\ v[k] = w[k + 1]
  BY <1>0, <1>1
<1>3. ASSUME NEW k \in DOMAIN w, w[k].post = q
      PROVE  k - 1 \in DOMAIN v /\ v[k - 1] = w[k]
  <2>1. k > i /\ k \in Nat
    BY <1>0, <1>1, <1>3
  <2>2. k - 1 \in 1 .. Len(w) - 1 /\ ~(k - 1 < i) /\ (k - 1) + 1 = k
    BY <1>0, <1>1, <2>1
  <2>3. QED
    BY <1>0, <1>1, <2>2
<1>4. Range(v) \subseteq Range(w)
  <2>1. \A k \in DOMAIN v : v[k] \in Range(w)
    <3>1. \A k \in DOMAIN v : k \in DOMAIN w /\ k + 1 \in DOMAIN w
      BY <1>0, <1>1
    <3>2. QED
      BY <1>0, <1>1, <3>1 DEF Range
  <2>2. QED
    BY <2>1 DEF Range
<1>5. QED
  BY <1>0, <1>2, <1>3, <1>4 DEF Shifted, v

\* The first put behind the others, and it is not about q.
LEMMA RotateShifts ==
  ASSUME NEW w \in Seq(Message), w # <<>>, NEW q, w[1].post # q
  PROVE  /\ Append(Tail(w), Head(w)) \in Seq(Message)
         /\ Range(Append(Tail(w), Head(w))) \subseteq Range(w)
         /\ Shifted(w, Append(Tail(w), Head(w)), q)
<1> DEFINE v == Append(Tail(w), Head(w))
<1>0. /\ v \in Seq(Message) /\ Len(w) \in Nat /\ Len(v) = Len(w)
      /\ Len(w) >= 1
      /\ DOMAIN w = 1 .. Len(w) /\ DOMAIN v = 1 .. Len(w)
      /\ \A k \in 1 .. Len(w) - 1 : v[k] = w[k + 1]
      /\ v[Len(w)] = w[1]
  OBVIOUS
<1> HIDE DEF v
<1>1. \A k \in DOMAIN v : \/ k = Len(w)
                          \/ k \in 1 .. Len(w) - 1 /\ k + 1 \in DOMAIN w
  BY <1>0
<1>2. \A k \in DOMAIN v : v[k].post = q => k + 1 \in DOMAIN w /\ v[k] = w[k + 1]
  BY <1>0, <1>1
<1>3. \A k \in DOMAIN w : k # 1 => k - 1 \in DOMAIN v /\ v[k - 1] = w[k]
  BY <1>0
<1>4. Range(v) \subseteq Range(w)
  <2>1. \A k \in DOMAIN v : v[k] \in Range(w)
    BY <1>0, <1>1 DEF Range
  <2>2. QED
    BY <2>1 DEF Range
<1>5. QED
  BY <1>0, <1>2, <1>3, <1>4 DEF Shifted, v

\* A delivery: one message leaves its queue, or is moved to its end, and of
\* every other queue and of every subject it does not disturb the order stays.
LEMMA Reception ==
  ASSUME Types, NEW l \in Links, NEW i, Received(l, i)
  PROVE  /\ wire[l] \in Seq(Message) /\ wire[l] # <<>>
         /\ i \in DOMAIN wire[l]
         /\ wire' \in [Links -> Seq(Message)]
         /\ \A k \in Links : k # l => wire'[k] = wire[k]
         /\ Range(wire'[l]) \subseteq Range(wire[l])
         /\ upsets' \in Nat
         /\ \A q : <<l[2], q>> \notin Disturbed(l, i) =>
               /\ Shifted(wire[l], wire'[l], q)
               /\ wire[l][1].post = q => i = 1
               /\ wire[l][i].post = q => i = 1
<1> DEFINE w == wire[l]
<1>0. w \in Seq(Message) /\ wire \in [Links -> Seq(Message)] /\ upsets \in Nat
  BY DEF Types
<1>1. i \in 1 .. Len(w) /\ w # <<>> /\ i \in DOMAIN w
  BY <1>0 DEF Received
<1>2. CASE i = 1 /\ wire' = [wire EXCEPT ![l] = Tail(@)] /\ upsets' = upsets
  <2>1. wire'[l] = Tail(w) /\ \A k \in Links : k # l => wire'[k] = wire[k]
    BY <1>0, <1>2
  <2>2. wire' \in [Links -> Seq(Message)]
    BY <1>0, <1>1, <1>2
  <2>3. QED
    BY <1>0, <1>1, <1>2, <2>1, <2>2, TailShifts
<1>3. CASE /\ upsets' = upsets + 1
           /\ wire' = [wire EXCEPT ![l] = IF i = 1 THEN Append(Tail(@), Head(@))
                                                   ELSE RemoveAt(@, i)]
  <2>0. upsets' # upsets /\ upsets' \in Nat
    BY <1>0, <1>3
  <2>1. Disturbed(l, i) = {<<l[2], w[j].post>> : j \in 1 .. i}
    BY <2>0 DEF Disturbed, Subject
  <2>2. \A q : <<l[2], q>> \notin Disturbed(l, i) => \A j \in 1 .. i : w[j].post # q
    BY <2>1
  <2>3. 1 \in 1 .. i /\ i \in 1 .. i
    BY <1>0, <1>1
  <2>4. CASE i = 1
    <3>1. wire' = [wire EXCEPT ![l] = Append(Tail(w), Head(w))]
      BY <1>0, <1>3, <2>4
    <3>2. wire'[l] = Append(Tail(w), Head(w)) /\ \A k \in Links : k # l => wire'[k] = wire[k]
      BY <1>0, <3>1
    <3>3. Append(Tail(w), Head(w)) \in Seq(Message) /\ Range(Append(Tail(w), Head(w))) \subseteq Range(w)
      <4>1. PICK q : w[1].post # q
        <5>1. w[1].post # "Follow" \/ w[1].post # "Undo"
          OBVIOUS
        <5>2. QED
          BY <5>1
      <4>2. QED
        BY <1>0, <1>1, <4>1, RotateShifts
    <3>4. wire' \in [Links -> Seq(Message)]
      BY <1>0, <3>1, <3>3
    <3>5. ASSUME NEW q, <<l[2], q>> \notin Disturbed(l, i)
          PROVE  /\ Shifted(w, wire'[l], q)
                 /\ w[1].post = q => i = 1
                 /\ w[i].post = q => i = 1
      BY <1>0, <1>1, <2>2, <2>3, <2>4, <3>2, <3>5, RotateShifts
    <3>6. QED
      BY <1>0, <1>1, <2>0, <3>2, <3>3, <3>4, <3>5
  <2>5. CASE i # 1
    <3>1. wire' = [wire EXCEPT ![l] = RemoveAt(w, i)]
      BY <1>0, <1>3, <2>5
    <3>2. wire'[l] = RemoveAt(w, i) /\ \A k \in Links : k # l => wire'[k] = wire[k]
      BY <1>0, <3>1
    <3>3. RemoveAt(w, i) \in Seq(Message) /\ Range(RemoveAt(w, i)) \subseteq Range(w)
      <4> DEFINE v == RemoveAt(w, i)
      <4>1. /\ v \in Seq(Message) /\ Len(w) \in Nat /\ Len(v) = Len(w) - 1
            /\ \A k \in 1 .. Len(w) - 1 : v[k] = IF k < i THEN w[k] ELSE w[k + 1]
        BY <1>0, <1>1, RemovedAt
      <4> HIDE DEF v
      <4>2. /\ DOMAIN v = 1 .. Len(w) - 1
            /\ \A k \in DOMAIN v : k \in DOMAIN w /\ k + 1 \in DOMAIN w
        BY <1>0, <4>1
      <4>3. \A k \in DOMAIN v : v[k] \in Range(w)
        BY <4>1, <4>2 DEF Range
      <4>4. Range(v) \subseteq Range(w)
        BY <4>3 DEF Range
      <4>5. QED
        BY <4>1, <4>4 DEF v
    <3>4. wire' \in [Links -> Seq(Message)]
      BY <1>0, <3>1, <3>3
    <3>5. ASSUME NEW q, <<l[2], q>> \notin Disturbed(l, i)
          PROVE  /\ Shifted(w, wire'[l], q)
                 /\ w[1].post = q => i = 1
                 /\ w[i].post = q => i = 1
      BY <1>0, <1>1, <2>2, <2>3, <3>2, <3>5, RemoveShifts
    <3>6. QED
      BY <1>0, <1>1, <2>0, <3>2, <3>3, <3>4, <3>5
  <2>6. QED
    BY <2>4, <2>5
<1>4. QED
  BY <1>2, <1>3 DEF Received
-----------------------------------------------------------------------------
(* What a delivery brings, one step of a queue at a time. *)

\* A queue that says the same of post p brings the same.
LEMMA WordSame ==
  ASSUME NEW w, NEW v, NEW p, NEW h, NEW a, WordFrom(w, p, h, a), Same(w, v, p)
  PROVE  WordFrom(v, p, h, a)
<1>1. /\ ~Has(v, p) => h = Word(a)
      /\ Has(v, p) => a # 0
  BY DEF Same, WordFrom
<1>2. ASSUME NEW m \in Range(v), LastOf(v, p, m)
      PROVE  (m.act = "Create" => a = 1) /\ (m.act = "Update" => a = m.ver)
  <2>1. LastOf(w, p, m) /\ m \in Range(w)
    BY <1>2, InRange DEF Same
  <2>2. QED
    BY <2>1 DEF WordFrom
<1>3. ASSUME NEW m \in Range(v), FirstOf(v, p, m)
      PROVE  m.act = "Create" <=> h = 0
  <2>1. FirstOf(w, p, m) /\ m \in Range(w)
    BY <1>3, InRange DEF Same
  <2>2. QED
    BY <2>1 DEF WordFrom
<1>4. ASSUME NEW m \in Range(v), In(v, p, m), m.act = "Delete"
      PROVE  a = Gone
  <2>1. In(w, p, m) /\ m \in Range(w)
    BY <1>4, InRange DEF Same
  <2>2. QED
    BY <1>4, <2>1 DEF WordFrom
<1>5. ASSUME NEW m \in Range(v), NEW n \in Range(v), Precedes(v, p, m, n)
      PROVE  m.act # "Delete" /\ n.act # "Create"
  <2>1. Precedes(w, p, m, n)
    BY <1>5 DEF Same
  <2>2. m \in Range(w) /\ n \in Range(w)
    BY <2>1, InRange
  <2>3. QED
    BY <2>1, <2>2 DEF WordFrom
<1>6. QED
  BY <1>1, <1>2, <1>3, <1>4, <1>5 DEF WordFrom

\* The author's first word, sent.
LEMMA WordCreated ==
  ASSUME NEW w, NEW v, NEW p, NEW h, WordFrom(w, p, h, 0),
         NEW m, m.act = "Create", Sent(w, v, p, m)
  PROVE  WordFrom(v, p, h, 1)
<1>0. ~Has(w, p) /\ h = 0
  BY Constants DEF WordFrom, Word
<1>1. \A n : In(v, p, n) => n = m
  BY <1>0, InRange DEF Sent
<1>2. \A n, o : ~Precedes(v, p, n, o)
  BY <1>0, InRange DEF Sent
<1>3. \A n : FirstOf(v, p, n) \/ LastOf(v, p, n) => n = m
  BY <1>1, InRange
<1>4. Has(v, p)
  BY DEF Sent
<1>5. QED
  BY <1>0, <1>1, <1>2, <1>3, <1>4 DEF WordFrom

\* Another, sent: a text or the end of it.
LEMMA WordChanged ==
  ASSUME NEW w, NEW v, NEW p, NEW h, NEW a \in 1 .. MaxVer, WordFrom(w, p, h, a),
         NEW m, NEW b \in Nat, b # 0, Sent(w, v, p, m),
         \/ m.act = "Update" /\ m.ver = b
         \/ m.act = "Delete" /\ b = Gone
  PROVE  WordFrom(v, p, h, b)
<1>0. a # 0 /\ a # Gone
  BY Constants
<1>1. Has(v, p)
  BY DEF Sent
<1>2. \A n : LastOf(v, p, n) => n = m
  BY DEF Sent
<1>3. ASSUME NEW n \in Range(v), FirstOf(v, p, n)
      PROVE  n.act = "Create" <=> h = 0
  <2>1. CASE FirstOf(w, p, n)
    BY <2>1, InRange DEF WordFrom
  <2>2. CASE n = m /\ ~Has(w, p)
    BY <1>0, <2>2 DEF WordFrom, Word
  <2>3. QED
    BY <1>3, <2>1, <2>2 DEF Sent
<1>4. \A n : In(w, p, n) => n.act # "Delete"
  BY <1>0, InRange DEF WordFrom
<1>5. ASSUME NEW n \in Range(v), In(v, p, n), n.act = "Delete"
      PROVE  b = Gone
  BY <1>4, <1>5 DEF Sent
<1>6. ASSUME NEW n \in Range(v), NEW o \in Range(v), Precedes(v, p, n, o)
      PROVE  n.act # "Delete" /\ o.act # "Create"
  <2>1. CASE Precedes(w, p, n, o)
    <3>1. n \in Range(w) /\ o \in Range(w)
      BY <2>1, InRange
    <3>2. QED
      BY <2>1, <3>1 DEF WordFrom
  <2>2. CASE In(w, p, n) /\ o = m
    BY <1>4, <2>2
  <2>3. QED
    BY <1>6, <2>1, <2>2 DEF Sent
<1>7. QED
  BY <1>1, <1>2, <1>3, <1>5, <1>6 DEF WordFrom

\* One taken, and the store now holds b of it.
LEMMA WordTaken ==
  ASSUME NEW w, NEW v, NEW p, NEW h, NEW a \in 0 .. Gone, WordFrom(w, p, h, a),
         NEW m, Took(w, v, p, m),
         NEW b \in 0 .. MaxVer,
         \/ m.act = "Create" /\ b = 1
         \/ m.act = "Update" /\ b = m.ver /\ b # 0
         \/ m.act = "Delete" /\ b = 0
  PROVE  /\ m.act = "Create" <=> h = 0
         /\ WordFrom(v, p, b, a)
<1>0. m \in Range(w) /\ FirstOf(w, p, m) /\ In(w, p, m)
  BY InRange DEF Took
<1>1. m.act = "Create" <=> h = 0
  BY <1>0 DEF WordFrom
<1>2. a # 0
  BY DEF Took, WordFrom
<1>3. \A n : In(v, p, n) => /\ n \in Range(w) /\ Precedes(w, p, m, n) /\ In(w, p, n)
                            /\ m.act # "Delete" /\ n.act # "Create"
  BY <1>0, InRange DEF Took, WordFrom
<1>4. ~Has(v, p) => b = Word(a)
  <2> SUFFICES ASSUME ~Has(v, p) PROVE b = Word(a)
    OBVIOUS
  <2>1. LastOf(w, p, m)
    BY DEF Took
  <2>2. /\ m.act = "Create" => a = 1
        /\ m.act = "Update" => a = m.ver
        /\ m.act = "Delete" => a = Gone
    BY <1>0, <2>1 DEF WordFrom
  <2>3. QED
    BY <2>2, Constants DEF Word
<1>5. ASSUME NEW n \in Range(v), LastOf(v, p, n)
      PROVE  (n.act = "Create" => a = 1) /\ (n.act = "Update" => a = n.ver)
  <2>1. LastOf(w, p, n) /\ n \in Range(w)
    BY <1>5, InRange DEF Took
  <2>2. QED
    BY <2>1 DEF WordFrom
<1>6. ASSUME NEW n \in Range(v), FirstOf(v, p, n)
      PROVE  n.act = "Create" <=> b = 0
  BY <1>3, <1>6 DEF Took
<1>7. ASSUME NEW n \in Range(v), In(v, p, n), n.act = "Delete"
      PROVE  a = Gone
  BY <1>3, <1>7 DEF WordFrom
<1>8. ASSUME NEW n \in Range(v), NEW o \in Range(v), Precedes(v, p, n, o)
      PROVE  n.act # "Delete" /\ o.act # "Create"
  <2>1. Precedes(w, p, n, o)
    BY <1>8 DEF Took
  <2>2. n \in Range(w) /\ o \in Range(w)
    BY <2>1, InRange
  <2>3. QED
    BY <2>1, <2>2 DEF WordFrom
<1>9. QED
  BY <1>1, <1>2, <1>4, <1>5, <1>6, <1>7, <1>8 DEF WordFrom

\* The same of the edge ...
LEMMA EdgeSame ==
  ASSUME NEW w, NEW u, NEW v, NEW x, NEW e, NEW s, NEW a,
         EdgeFrom(w, v, e, s, a), Same(w, u, None), Has(v, None) => Has(x, None)
  PROVE  EdgeFrom(u, x, e, s, a)
<1>1. ASSUME NEW m \in Range(u), LastOf(u, None, m)
      PROVE  m.act = "Follow" <=> e # None
  <2>1. LastOf(w, None, m) /\ m \in Range(w)
    BY <1>1, InRange DEF Same
  <2>2. QED
    BY <2>1 DEF EdgeFrom
<1>2. QED
  BY <1>1 DEF EdgeFrom, Same

\* ... and of a mirror.
LEMMA MirrorSame ==
  ASSUME NEW w, NEW v, NEW p, NEW h, NEW b, NEW d,
         MirrorFrom(w, p, h, b, d), Same(w, v, p)
  PROVE  MirrorFrom(v, p, h, b, d)
<1>1. ASSUME NEW m \in Range(v), In(v, p, m), m.act = "Announced"
      PROVE  m.ver = 1
  <2>1. In(w, p, m) /\ m \in Range(w)
    BY <1>1, InRange DEF Same
  <2>2. QED
    BY <1>1, <2>1 DEF MirrorFrom
<1>2. ASSUME NEW m \in Range(v), LastOf(v, p, m)
      PROVE  (m.act = "Announced" => ~d /\ b = 1) /\ (m.act = "Withdrawn" => d \/ b = 0)
  <2>1. LastOf(w, p, m) /\ m \in Range(w)
    BY <1>2, InRange DEF Same
  <2>2. QED
    BY <2>1 DEF MirrorFrom
<1>3. QED
  BY <1>1, <1>2 DEF MirrorFrom, Same

\* An announcement sent: what the board holds, or that it withdrew it.
LEMMA MirrorSent ==
  ASSUME NEW w, NEW v, NEW p, NEW h, NEW b, NEW d, NEW c, NEW f,
         MirrorFrom(w, p, h, b, d), NEW m, Sent(w, v, p, m), c \in {0, 1},
         \/ m.act = "Announced" /\ m.ver = 1 /\ c = 1 /\ ~f
         \/ m.act = "Withdrawn" /\ c = 0
  PROVE  MirrorFrom(v, p, h, c, f)
<1>1. Has(v, p) /\ h \in {0, 1}
  BY DEF Sent, MirrorFrom
<1>2. ASSUME NEW n \in Range(v), In(v, p, n), n.act = "Announced"
      PROVE  n.ver = 1
  BY <1>2, InRange DEF Sent, MirrorFrom
<1>3. \A n : LastOf(v, p, n) => n = m
  BY DEF Sent
<1>4. QED
  BY <1>1, <1>2, <1>3 DEF MirrorFrom

\* An announcement taken.
LEMMA MirrorTaken ==
  ASSUME NEW w, NEW v, NEW p, NEW h, NEW b, NEW d \in BOOLEAN,
         MirrorFrom(w, p, h, b, d), NEW m, Took(w, v, p, m),
         NEW c,
         \/ m.act = "Announced" /\ c = IF h = 0 THEN m.ver ELSE h
         \/ m.act = "Withdrawn" /\ c = 0
  PROVE  MirrorFrom(v, p, c, b, d)
<1>0. m \in Range(w) /\ In(w, p, m)
  BY InRange DEF Took
<1>1. /\ m.act = "Announced" => c = 1
      /\ c \in {0, 1} /\ b \in {0, 1}
  BY <1>0 DEF MirrorFrom
<1>2. ~Has(v, p) => c = IF d THEN 0 ELSE b
  <2> SUFFICES ASSUME ~Has(v, p) PROVE c = IF d THEN 0 ELSE b
    OBVIOUS
  <2>1. LastOf(w, p, m)
    BY DEF Took
  <2>2. /\ m.act = "Announced" => ~d /\ b = 1
        /\ m.act = "Withdrawn" => d \/ b = 0
    BY <1>0, <2>1 DEF MirrorFrom
  <2>3. QED
    BY <1>1, <2>2
<1>3. ASSUME NEW n \in Range(v), In(v, p, n), n.act = "Announced"
      PROVE  n.ver = 1
  BY <1>3, InRange DEF Took, MirrorFrom
<1>4. ASSUME NEW n \in Range(v), LastOf(v, p, n)
      PROVE  (n.act = "Announced" => ~d /\ b = 1) /\ (n.act = "Withdrawn" => d \/ b = 0)
  <2>1. LastOf(w, p, n) /\ n \in Range(w)
    BY <1>4, InRange DEF Took
  <2>2. QED
    BY <2>1 DEF MirrorFrom
<1>5. QED
  BY <1>1, <1>2, <1>3, <1>4 DEF MirrorFrom

\* A new post on the board, about to be announced.
LEMMA MirrorDue ==
  ASSUME NEW w, NEW p, NEW h, NEW d, d \in BOOLEAN,
         MirrorFrom(w, p, h, 0, d)
  PROVE  MirrorFrom(w, p, h, 1, TRUE)
<1>1. ~Has(w, p) => h = 0
  BY DEF MirrorFrom
<1>2. QED
  BY <1>1 DEF MirrorFrom

\* A post no longer due, because it is gone.
LEMMA MirrorForgotten ==
  ASSUME NEW w, NEW p, NEW h, NEW d, d \in BOOLEAN,
         MirrorFrom(w, p, h, 0, d)
  PROVE  MirrorFrom(w, p, h, 0, FALSE)
<1>1. ~Has(w, p) => h = 0
  BY DEF MirrorFrom
<1>2. QED
  BY <1>1 DEF MirrorFrom
-----------------------------------------------------------------------------
(* What a step may do to the wire. *)

\* The queues hold what travels on them.
Lawful == /\ wire' \in [Links -> Seq(Message)]
          /\ \A l \in Links : \A k \in DOMAIN wire'[l] : Travels(l, wire'[l][k])

\* No message is added.
Dwindles == \A l \in Links : Range(wire'[l]) \subseteq Range(wire[l])

\* Nothing new is said of subject q on link l.
Steady(l, q) == Same(wire[l], wire'[l], q)

\* No Accept overtakes what is about p, or leaves it behind.
Ordered(p) == Open(wire'[YX], p) => Open(wire[YX], p)

\* On every link the subjects that stay unshaken are left alone ...
LeftAlone == /\ Lawful /\ Dwindles
             /\ \A l \in Links : \A q : <<l[2], q>> \notin shaken' => Steady(l, q)
             /\ \A p : <<"x", p>> \notin shaken' /\ <<"x", None>> \notin shaken' => Ordered(p)

\* ... but for the message at i on l, which is taken in its turn.
Taken(l, i) ==
  /\ i \in DOMAIN wire[l] /\ wire[l][i] \in Message /\ wire[l][i] \in Range(wire[l])
  /\ Travels(l, wire[l][i])
  /\ Lawful /\ Dwindles /\ upsets' \in Nat
  /\ \A k \in Links : \A q :
        <<k[2], q>> \notin shaken' /\ ~(k = l /\ wire[l][i].post = q) => Steady(k, q)
  /\ \A q : <<l[2], q>> \notin shaken' /\ wire[l][i].post = q =>
        i = 1 /\ Took(wire[l], wire'[l], q, wire[l][i])
  /\ \/ wire[YX][i].act = "Accept" /\ l = YX
     \/ \A p : <<"x", p>> \notin shaken' /\ <<"x", None>> \notin shaken' => Ordered(p)

\* Message m goes out on link l.
Sends(l, m) ==
  /\ Lawful
  /\ Sent(wire[l], wire'[l], m.post, m)
  /\ Range(wire'[l]) = Range(wire[l]) \cup {m}
  /\ \A k \in Links : \A q : ~(k = l /\ m.post = q) => Steady(k, q)
  /\ \A k \in Links : k # l => wire'[k] = wire[k]

\* What is about no post is no Create, and so on: by its link.
LEMMA Kinds ==
  ASSUME NEW m \in Message
  PROVE  /\ Travels(XY, m) <=> \/ m \in {FollowMsg, UndoMsg}
                               \/ m.act = "Create" /\ m.ver = 1 /\ m.post \in Posts /\ HomeOf[m.post] = "x"
         /\ Travels(YX, m) <=> \/ m = AcceptMsg
                               \/ m.act = "Announced" /\ m.ver # 0 /\ m.post \in Posts \ Private
                               \/ m.act = "Withdrawn" /\ m.post \in Posts \ Private
         /\ Travels(ZX, m) <=> /\ m.post \in Posts /\ HomeOf[m.post] = "z"
                               /\ \/ m.act = "Create" /\ m.ver = 1
                                  \/ m.act = "Update" /\ m.ver # 0
                                  \/ m.act = "Delete"
         /\ Travels(ZY, m) <=> /\ m.post \in Posts /\ HomeOf[m.post] = "z"
                               /\ m.post \notin Private
                               /\ \/ m.act = "Create" /\ m.ver = 1
                                  \/ m.act = "Update" /\ m.ver # 0
                                  \/ m.act = "Delete"
<1>1. /\ Travels(XY, m) <=> \/ m \in {FollowMsg, UndoMsg}
                            \/ m.act = "Create" /\ m.ver = 1 /\ m.post \in Posts /\ HomeOf[m.post] = "x"
      /\ Travels(YX, m) <=> \/ m = AcceptMsg
                            \/ m.act = "Announced" /\ m.ver # 0 /\ m.post \in Posts \ Private
                            \/ m.act = "Withdrawn" /\ m.post \in Posts \ Private
  BY Ends DEF Travels
<1>2. ASSUME NEW l, l # XY, l # YX
      PROVE  Travels(l, m) <=> /\ m.post \in Posts /\ HomeOf[m.post] = "z"
                               /\ l = ZY => m.post \notin Private
                               /\ \/ m.act = "Create" /\ m.ver = 1
                                  \/ m.act = "Update" /\ m.ver # 0
                                  \/ m.act = "Delete"
  BY <1>2 DEF Travels
<1>3. QED
  BY <1>1, <1>2, Ends

\* An Accept before a post is an Accept before it later.
LEMMA OpenShifts ==
  ASSUME NEW w \in Seq(Message), NEW v \in Seq(Message), NEW p,
         Shifted(w, v, p), Shifted(w, v, None),
         \A k \in DOMAIN w : w[k].act = "Accept" => k # 1 /\ w[k].post = None
  PROVE  Open(v, p) => Open(w, p)
<1> SUFFICES ASSUME Open(v, p) PROVE Open(w, p)
  OBVIOUS
<1>0. DOMAIN w = 1 .. Len(w) /\ DOMAIN v = 1 .. Len(v) /\ Len(w) \in Nat /\ Len(v) \in Nat
  OBVIOUS
<1>1. PICK k \in DOMAIN v : /\ v[k].post = p
                            /\ \A j \in DOMAIN v : j < k => v[j].act # "Accept"
  BY DEF Open
<1>2. k + 1 \in DOMAIN w /\ w[k + 1].post = p
  BY <1>1 DEF Shifted
<1>3. ASSUME NEW j \in DOMAIN w, j < k + 1, w[j].act = "Accept" PROVE FALSE
  <2>1. j # 1 /\ w[j].post = None
    BY <1>3
  <2>2. j - 1 \in DOMAIN v /\ v[j - 1] = w[j]
    BY <2>1 DEF Shifted
  <2>3. j - 1 < k
    BY <1>0, <1>1, <1>3
  <2>4. QED
    BY <1>1, <1>3, <2>2, <2>3
<1>4. QED
  BY <1>2, <1>3 DEF Open

\* One sent later than all opens nothing but itself.
LEMMA OpenSent ==
  ASSUME NEW w \in Seq(Message), NEW m \in Message, NEW p, Open(Append(w, m), p)
  PROVE  \/ Open(w, p)
         \/ m.post = p /\ \A k \in DOMAIN w : w[k].act # "Accept"
<1> DEFINE v == Append(w, m)
<1>0. /\ Len(w) \in Nat /\ DOMAIN w = 1 .. Len(w) /\ DOMAIN v = 1 .. Len(w) + 1
      /\ v[Len(w) + 1] = m
      /\ \A k \in DOMAIN w : v[k] = w[k] /\ k \in DOMAIN v
  OBVIOUS
<1>1. PICK k \in DOMAIN v : /\ v[k].post = p
                            /\ \A j \in DOMAIN v : j < k => v[j].act # "Accept"
  BY DEF Open
<1> HIDE DEF v
<1>2. CASE k \in DOMAIN w
  <2>1. w[k].post = p /\ \A j \in DOMAIN w : j < k => w[j].act # "Accept"
    BY <1>0, <1>1, <1>2
  <2>2. QED
    BY <1>2, <2>1 DEF Open
<1>3. CASE k = Len(w) + 1
  <2>1. m.post = p
    BY <1>0, <1>1, <1>3
  <2>2. \A j \in DOMAIN w : j < k /\ v[j] = w[j] /\ j \in DOMAIN v
    BY <1>0, <1>3
  <2>3. QED
    BY <1>1, <2>1, <2>2
<1>4. QED
  BY <1>0, <1>1, <1>2, <1>3

\* Where the queues stay as they are, all is left alone.
LEMMA Untouched ==
  ASSUME Types, wire' = wire
  PROVE  LeftAlone
<1>1. Lawful /\ Dwindles
  BY DEF Types, Lawful, Dwindles
<1>2. \A l \in Links : \A q : Steady(l, q)
  BY SameIsSame DEF Steady
<1>3. \A p : Ordered(p)
  BY DEF Ordered
<1>4. QED
  BY <1>1, <1>2, <1>3 DEF LeftAlone

\* A delivery with success.
LEMMA Receives ==
  ASSUME Types, NEW l \in Links, NEW i, Received(l, i),
         shaken \cup Disturbed(l, i) \subseteq shaken'
  PROVE  Taken(l, i)
<1> DEFINE w == wire[l]
           v == wire'[l]
<1>1. /\ w \in Seq(Message) /\ w # <<>> /\ i \in DOMAIN w
      /\ wire' \in [Links -> Seq(Message)]
      /\ \A k \in Links : k # l => wire'[k] = wire[k]
      /\ Range(v) \subseteq Range(w)
      /\ upsets' \in Nat
      /\ \A q : <<l[2], q>> \notin Disturbed(l, i) =>
            /\ Shifted(w, v, q)
            /\ w[1].post = q => i = 1
            /\ w[i].post = q => i = 1
  BY Reception
<1>2. /\ w[i] \in Message /\ w[i] \in Range(w) /\ Travels(l, w[i]) /\ v \in Seq(Message)
      /\ \A k \in DOMAIN w : w[k] \in Message /\ Travels(l, w[k])
  BY <1>1 DEF Range, Types
<1>3. Dwindles
  BY <1>1 DEF Dwindles
<1>4. Lawful
  <2>1. ASSUME NEW k \in Links, NEW j \in DOMAIN wire'[k]
        PROVE  Travels(k, wire'[k][j])
    <3>1. wire'[k][j] \in Range(wire[k])
      BY <1>3 DEF Dwindles, Range
    <3>2. QED
      BY <3>1 DEF Types, Range
  <2>2. QED
    BY <1>1, <2>1 DEF Lawful
<1>5. ASSUME NEW k \in Links, NEW q, <<k[2], q>> \notin shaken', ~(k = l /\ w[i].post = q)
      PROVE  Steady(k, q)
  <2>1. CASE k # l
    BY <1>1, <2>1, SameIsSame DEF Steady
  <2>2. CASE k = l
    <3>1. Shifted(w, v, q) /\ w[1].post # q
      BY <1>1, <1>5, <2>2
    <3>2. QED
      BY <1>1, <1>2, <2>2, <3>1, ShiftedIsSame DEF Steady
  <2>3. QED
    BY <2>1, <2>2
<1>6. ASSUME NEW q, <<l[2], q>> \notin shaken', w[i].post = q
      PROVE  i = 1 /\ Took(w, v, q, w[i])
  BY <1>1, <1>2, <1>6, ShiftedTook
<1>7. ASSUME ~(wire[YX][i].act = "Accept" /\ l = YX), NEW p,
             <<"x", p>> \notin shaken', <<"x", None>> \notin shaken'
      PROVE  Ordered(p)
  <2>1. CASE l # YX
    <3>1. wire'[YX] = wire[YX]
      BY <1>1, <2>1, Constants
    <3>2. QED
      BY <3>1 DEF Ordered
  <2>2. CASE l = YX
    <3>1. Shifted(w, v, p) /\ Shifted(w, v, None) /\ (w[1].post = None => i = 1)
      BY <1>1, <1>7, <2>2, Ends
    <3>2. ASSUME NEW k \in DOMAIN w, w[k].act = "Accept"
          PROVE  k # 1 /\ w[k].post = None
      <4>1. w[k] = AcceptMsg
        BY <1>2, <2>2, <3>2, Kinds
      <4>2. w[k].post = None
        BY <4>1 DEF AcceptMsg, Msg
      <4>3. QED
        BY <1>7, <2>2, <3>1, <3>2, <4>2
    <3>3. Open(v, p) => Open(w, p)
      BY <1>1, <1>2, <3>1, <3>2, OpenShifts
    <3>4. QED
      BY <2>2, <3>3 DEF Ordered
  <2>3. QED
    BY <2>1, <2>2
<1> HIDE DEF w, v
<1>8. wire[l] = w /\ wire'[l] = v
  BY DEF w, v
<1>9. QED
  BY <1>1, <1>2, <1>3, <1>4, <1>5, <1>6, <1>7, <1>8 DEF Taken

\* A delivery refused, or given up.
LEMMA Loses ==
  ASSUME Types, NEW l \in Links, wire[l] # <<>>,
         \/ /\ wire' = [wire EXCEPT ![l] = Tail(@)]
            /\ shaken \cup {Subject(l, Head(wire[l]))} \subseteq shaken'
         \/ /\ \/ wire' = [wire EXCEPT ![l] = Tail(@)]
               \/ wire' = [wire EXCEPT ![l] = Append(Tail(@), Head(@))]
            /\ shaken \cup {Subject(l, m) : m \in Range(wire[l])} \subseteq shaken'
  PROVE  LeftAlone
<1> DEFINE w == wire[l]
           v == wire'[l]
<1>0. /\ w \in Seq(Message) /\ w # <<>> /\ wire \in [Links -> Seq(Message)]
      /\ 1 \in DOMAIN w /\ Head(w) = w[1] /\ w[1] \in Range(w)
      /\ \A k \in DOMAIN w : w[k] \in Message /\ Travels(l, w[k])
  <2>1. w \in Seq(Message)
    BY DEF Types
  <2>2. 1 \in DOMAIN w /\ Head(w) = w[1]
    BY <2>1
  <2>3. QED
    BY <2>1, <2>2 DEF Types, Range
<1>1. /\ v = Tail(w) \/ v = Append(Tail(w), Head(w))
      /\ \A k \in Links : k # l => wire'[k] = wire[k]
      /\ wire' = [wire EXCEPT ![l] = v]
  BY <1>0
<1>2. v \in Seq(Message) /\ Range(v) \subseteq Range(w)
  <2>1. PICK q : w[1].post # q
    <3>1. w[1].post # "Follow" \/ w[1].post # "Undo"
      OBVIOUS
    <3>2. QED
      BY <3>1
  <2>2. QED
    BY <1>0, <1>1, <2>1, TailShifts, RotateShifts
<1>3. wire' \in [Links -> Seq(Message)]
  BY <1>0, <1>1, <1>2
<1>4. Dwindles
  BY <1>1, <1>2 DEF Dwindles
<1>5. Lawful
  <2>1. ASSUME NEW k \in Links, NEW j \in DOMAIN wire'[k]
        PROVE  Travels(k, wire'[k][j])
    <3>1. wire'[k][j] \in Range(wire[k])
      BY <1>4 DEF Dwindles, Range
    <3>2. QED
      BY <3>1 DEF Types, Range
  <2>2. QED
    BY <1>3, <2>1 DEF Lawful
<1>6. ASSUME NEW q, <<l[2], q>> \notin shaken'
      PROVE  \/ ~Has(w, q)
             \/ w[1].post # q /\ Shifted(w, v, q) /\ v = Tail(w)
  <2>1. CASE /\ wire' = [wire EXCEPT ![l] = Tail(@)]
             /\ shaken \cup {Subject(l, Head(wire[l]))} \subseteq shaken'
    <3>1. v = Tail(w)
      BY <1>0, <2>1
    <3>2. w[1].post # q
      BY <1>0, <1>6, <2>1 DEF Subject
    <3>3. QED
      BY <1>0, <3>1, <3>2, TailShifts
  <2>2. CASE shaken \cup {Subject(l, m) : m \in Range(wire[l])} \subseteq shaken'
    <3>1. \A m \in Range(w) : <<l[2], m.post>> \in shaken'
      BY <2>2 DEF Subject
    <3>2. QED
      BY <1>6, <3>1 DEF Has, Range
  <2>3. QED
    BY <2>1, <2>2
<1>7. ASSUME NEW k \in Links, NEW q, <<k[2], q>> \notin shaken'
      PROVE  Steady(k, q)
  <2>1. CASE k # l
    BY <1>1, <2>1, SameIsSame DEF Steady
  <2>2. CASE k = l
    <3>1. CASE ~Has(w, q)
      BY <1>2, <2>2, <3>1, NoneIsSame DEF Steady
    <3>2. CASE w[1].post # q /\ Shifted(w, v, q)
      BY <1>0, <1>2, <2>2, <3>2, ShiftedIsSame DEF Steady
    <3>3. QED
      BY <1>6, <1>7, <2>2, <3>1, <3>2
  <2>3. QED
    BY <2>1, <2>2
<1>8. ASSUME NEW p, <<"x", p>> \notin shaken', <<"x", None>> \notin shaken'
      PROVE  Ordered(p)
  <2>1. CASE l # YX
    <3>1. wire'[YX] = wire[YX]
      BY <1>1, <2>1, Constants
    <3>2. QED
      BY <3>1 DEF Ordered
  <2>2. CASE l = YX
    <3>1. CASE ~Has(w, p)
      <4>1. ~Has(v, p)
        BY <1>2, <3>1, NoneIsSame DEF Same
      <4>2. ~Open(v, p)
        BY <4>1 DEF Has, Open
      <4>3. QED
        BY <2>2, <4>2 DEF Ordered
    <3>2. CASE Has(w, p)
      <4>1. Shifted(w, v, p) /\ v = Tail(w)
        BY <1>6, <1>8, <2>2, <3>2, Ends
      <4>2. Shifted(w, v, None)
        BY <1>0, <4>1, TailShifts
      <4>3. \A k \in DOMAIN w : w[k].act = "Accept" => w[k] = AcceptMsg
        BY <1>0, <2>2, Kinds
      <4>4. \A k \in DOMAIN w : w[k].act = "Accept" => w[k].post = None
        BY <4>3 DEF AcceptMsg, Msg
      <4>5. CASE w[1].act # "Accept"
        <5>1. \A k \in DOMAIN w : w[k].act = "Accept" => k # 1 /\ w[k].post = None
          BY <4>4, <4>5
        <5>2. Open(v, p) => Open(w, p)
          BY <1>0, <1>2, <4>1, <4>2, <5>1, OpenShifts
        <5>3. QED
          BY <2>2, <5>2 DEF Ordered
      <4>6. CASE w[1].act = "Accept"
        <5>1. w[1].post = None
          BY <1>0, <4>4, <4>6
        <5>2. Has(w, None)
          BY <1>0, <5>1 DEF Has
        <5>3. QED
          BY <1>6, <1>8, <2>2, <5>1, <5>2, Ends
      <4>7. QED
        BY <4>5, <4>6
    <3>3. QED
      BY <3>1, <3>2
  <2>3. QED
    BY <2>1, <2>2
<1>9. QED
  BY <1>4, <1>5, <1>7, <1>8 DEF LeftAlone

\* A message sent.
LEMMA SendSends ==
  ASSUME Types, NEW l \in Links, NEW m \in Message, Travels(l, m), Send(l, m)
  PROVE  Sends(l, m) /\ wire'[l] = Append(wire[l], m)
<1> DEFINE w == wire[l]
<1>0. w \in Seq(Message) /\ wire \in [Links -> Seq(Message)]
  BY DEF Types
<1>1. /\ wire'[l] = Append(w, m)
      /\ \A k \in Links : k # l => wire'[k] = wire[k]
      /\ wire' = [wire EXCEPT ![l] = Append(w, m)]
  BY <1>0 DEF Send
<1>2. /\ Append(w, m) \in Seq(Message)
      /\ Range(Append(w, m)) = Range(w) \cup {m}
      /\ Sent(w, Append(w, m), m.post, m)
      /\ \A q : q # m.post => Same(w, Append(w, m), q)
  BY <1>0, AppendSends
<1>3. Lawful
  <2>1. wire' \in [Links -> Seq(Message)]
    BY <1>0, <1>1, <1>2
  <2>2. ASSUME NEW k \in Links, NEW j \in DOMAIN wire'[k]
        PROVE  Travels(k, wire'[k][j])
    <3>1. wire'[k][j] \in Range(wire[k]) \/ (k = l /\ wire'[k][j] = m)
      BY <1>1, <1>2 DEF Range
    <3>2. QED
      BY <3>1 DEF Types, Range
  <2>3. QED
    BY <2>1, <2>2 DEF Lawful
<1>4. ASSUME NEW k \in Links, NEW q, ~(k = l /\ m.post = q)
      PROVE  Steady(k, q)
  BY <1>1, <1>2, <1>4, SameIsSame DEF Steady
<1>5. QED
  BY <1>1, <1>2, <1>3, <1>4 DEF Sends
-----------------------------------------------------------------------------
(* What a step leaves true, subject by subject. *)

\* The handshake, if it goes on undisturbed, has lost and gained no message.
EdgeSteady == Settled' => Settled /\ Steady(XY, None) /\ Steady(YX, None)

LEMMA HandshakeGoesOn ==
  ASSUME shaken \subseteq shaken',
         \/ LeftAlone
         \/ \E l \in Links : \E i : Taken(l, i) /\ wire[l][i].post # None
         \/ \E l \in Links : \E m : Sends(l, m) /\ m.post # None
  PROVE  EdgeSteady
<1> SUFFICES ASSUME Settled' PROVE Settled /\ Steady(XY, None) /\ Steady(YX, None)
  BY DEF EdgeSteady
<1>1. <<"x", None>> \notin shaken' /\ <<"y", None>> \notin shaken' /\ Settled
  BY DEF Settled
<1>2. XY \in Links /\ YX \in Links /\ XY[2] = "y" /\ YX[2] = "x"
  BY Constants, Ends
<1>3. CASE LeftAlone
  BY <1>1, <1>2, <1>3 DEF LeftAlone
<1>4. CASE \E l \in Links : \E i : Taken(l, i) /\ wire[l][i].post # None
  BY <1>1, <1>2, <1>4 DEF Taken
<1>5. CASE \E l \in Links : \E m : Sends(l, m) /\ m.post # None
  BY <1>1, <1>2, <1>5 DEF Sends
<1>6. QED
  BY <1>3, <1>4, <1>5

LEMMA EdgeKeeps ==
  ASSUME EdgeHolds, EdgeSteady, UNCHANGED <<edge, subscribed, accepting>>
  PROVE  EdgeHolds'
<1>1. ASSUME Settled'
      PROVE  EdgeFrom(wire'[XY], wire'[YX], edge, subscribed, accepting)
  <2>1. EdgeFrom(wire[XY], wire[YX], edge, subscribed, accepting)
    BY <1>1 DEF EdgeHolds, EdgeSteady
  <2>2. Same(wire[XY], wire'[XY], None) /\ Same(wire[YX], wire'[YX], None)
    BY <1>1 DEF EdgeSteady, Steady
  <2>3. Has(wire[YX], None) => Has(wire'[YX], None)
    BY <2>2 DEF Same
  <2>4. QED
    BY <2>1, <2>2, <2>3, EdgeSame
<1>2. QED
  BY <1>1 DEF EdgeHolds

\* EdgeStays speaks of messages without a post only.
LEMMA StaysKeeps ==
  ASSUME EdgeStays, Steady(XY, None), Steady(YX, None),
         UNCHANGED <<edge, subscribed, accepting>>
  PROVE  EdgeStays'
<1>1. /\ Has(wire'[XY], None) <=> Has(wire[XY], None)
      /\ Has(wire'[YX], None) <=> Has(wire[YX], None)
      /\ In(wire'[XY], None, UndoMsg) <=> In(wire[XY], None, UndoMsg)
  BY DEF Steady, Same
<1>2. QED
  BY <1>1 DEF EdgeStays

LEMMA WordKeeps ==
  ASSUME WordHolds, NEW p \in Posts, NEW s \in {"board", "timeline", "mail"},
         Belongs(p, s), <<SiteOf[s], p>> \notin shaken,
         Steady(<<HomeOf[p], SiteOf[s]>>, p),
         held'[s][p] = held[s][p], said'[p] = said[p]
  PROVE  WordFrom(wire'[<<HomeOf[p], SiteOf[s]>>], p, held'[s][p], said'[p])
<1>1. WordFrom(wire[<<HomeOf[p], SiteOf[s]>>], p, held[s][p], said[p])
  BY DEF WordHolds
<1>2. QED
  BY <1>1, WordSame DEF Steady

LEMMA MirrorKeeps ==
  ASSUME MirrorHolds, EdgeSteady, Settled', NEW p \in Posts \ Private,
         <<"x", p>> \notin shaken, Steady(YX, p), Ordered(p),
         UNCHANGED <<edge, subscribed, accepting>>,
         held'["mirror"][p] = held["mirror"][p], held'["board"][p] = held["board"][p],
         p \in due' <=> p \in due
  PROVE  MirrorComes(p)'
<1>1. MirrorComes(p) /\ Steady(XY, None) /\ Steady(YX, None)
  BY DEF MirrorHolds, EdgeSteady
<1>2. EdgeStays'
  BY <1>1, StaysKeeps DEF MirrorComes
<1>3. Open(wire'[YX], p) => edge' = "accepted"
  BY <1>1 DEF MirrorComes, Ordered
<1>4. MirrorFrom(wire[YX], p, held["mirror"][p], held["board"][p], p \in due)
  BY <1>1 DEF MirrorComes
<1>5. MirrorFrom(wire'[YX], p, held["mirror"][p], held["board"][p], p \in due)
  BY <1>4, MirrorSame DEF Steady
<1>6. (p \in due') = (p \in due)
  OBVIOUS
<1>7. MirrorFrom(wire'[YX], p, held'["mirror"][p], held'["board"][p], p \in due')
  BY <1>5, <1>6
<1>8. QED
  BY <1>2, <1>3, <1>7 DEF MirrorComes

LEMMA HangsKeeps ==
  ASSUME NEW p, Hangs(p), ToCome(p)' => ToCome(p),
         \A m \in Range(wire'[YX]) :
            m.act = "Announced" /\ m.post = p => m \in Range(wire[YX]),
         held'["mirror"][p] # 0 =>
            held["mirror"][p] # 0 /\ under'["mirror"][p] = under["mirror"][p],
         under'["board"][p] = under["board"][p],
         p \in due' \/ held'["board"][p] # 0 => p \in due \/ held["board"][p] # 0
  PROVE  Hangs(p)'
BY DEF Hangs

\* What is to come of a post is no more than it was if no Create of it is sent.
LEMMA ToComeKeeps ==
  ASSUME NEW p, said'[p] = said[p],
         \A m \in Range(wire'[<<HomeOf[p], "y">>]) :
            m.act = "Create" /\ m.post = p => m \in Range(wire[<<HomeOf[p], "y">>])
  PROVE  ToCome(p)' => ToCome(p)
BY DEF ToCome

\* The links a post comes by.
LEMMA Ways ==
  ASSUME NEW p \in Posts
  PROVE  /\ <<HomeOf[p], "y">> \in Links
         /\ <<HomeOf[p], "y">> = IF HomeOf[p] = "x" THEN XY ELSE ZY
         /\ \A s \in {"board", "timeline", "mail"} :
               Belongs(p, s) => /\ <<HomeOf[p], SiteOf[s]>> \in Links
                                /\ <<HomeOf[p], SiteOf[s]>> =
                                     IF s = "board" THEN <<HomeOf[p], "y">> ELSE ZX
                                /\ <<HomeOf[p], SiteOf[s]>>[2] = SiteOf[s]
         /\ SiteOf["board"] = "y" /\ SiteOf["timeline"] = "x" /\ SiteOf["mail"] = "x"
         /\ SiteOf["mirror"] = "x"
<1>1. /\ SiteOf["board"] = "y" /\ SiteOf["timeline"] = "x" /\ SiteOf["mail"] = "x"
      /\ SiteOf["mirror"] = "x"
  BY DEF SiteOf
<1>2. HomeOf[p] = "x" \/ HomeOf[p] = "z"
  BY Constants
<1>3. <<HomeOf[p], "y">> = IF HomeOf[p] = "x" THEN XY ELSE ZY
  BY <1>2 DEF XY, ZY
<1>4. <<HomeOf[p], "y">> \in Links
  BY <1>3, Constants
<1>5. ASSUME NEW s \in {"board", "timeline", "mail"}, Belongs(p, s)
      PROVE  /\ <<HomeOf[p], SiteOf[s]>> \in Links
             /\ <<HomeOf[p], SiteOf[s]>> = IF s = "board" THEN <<HomeOf[p], "y">> ELSE ZX
             /\ <<HomeOf[p], SiteOf[s]>>[2] = SiteOf[s]
  <2>1. CASE s = "board"
    BY <1>1, <1>4, <2>1
  <2>2. CASE s # "board"
    <3>1. HomeOf[p] = "z" /\ SiteOf[s] = "x"
      BY <1>1, <1>5, <2>2 DEF Belongs
    <3>2. QED
      BY <2>2, <3>1, Constants DEF ZX
  <2>3. QED
    BY <2>1, <2>2
<1>6. QED
  BY <1>1, <1>3, <1>4, <1>5

\* A step that changes none of the stores, and leaves the wire alone.
LEMMA Quiet ==
  ASSUME IInv, Types', LeftAlone, shaken \subseteq shaken',
         UNCHANGED <<edge, subscribed, accepting, held, under, due, said>>
  PROVE  IInv'
<1>1. PrivateHolds'
  BY DEF IInv, PrivateHolds
<1>2. EdgeSteady
  BY HandshakeGoesOn
<1>3. EdgeHolds'
  BY <1>2, EdgeKeeps DEF IInv
<1>4. WordHolds'
  <2>1. ASSUME NEW p \in Posts, NEW s \in {"board", "timeline", "mail"},
               Belongs(p, s), <<SiteOf[s], p>> \notin shaken'
        PROVE  WordFrom(wire'[<<HomeOf[p], SiteOf[s]>>], p, held'[s][p], said'[p])
    <3>1. Steady(<<HomeOf[p], SiteOf[s]>>, p)
      BY <2>1, Ways DEF LeftAlone
    <3>2. QED
      BY <2>1, <3>1, WordKeeps DEF IInv
  <2>2. QED
    BY <2>1 DEF WordHolds
<1>5. MirrorHolds'
  <2>1. ASSUME Settled', NEW p \in Posts \ Private, <<"x", p>> \notin shaken'
        PROVE  MirrorComes(p)'
    <3>1. Steady(YX, p) /\ Ordered(p)
      BY <2>1, Constants, Ends DEF LeftAlone, Settled
    <3>2. QED
      BY <1>2, <2>1, <3>1, MirrorKeeps DEF IInv
  <2>2. QED
    BY <2>1 DEF MirrorHolds
<1>6. HangsHold'
  <2>1. ASSUME NEW p \in Posts, <<"y", p>> \notin shaken'
        PROVE  Hangs(p)'
    <3>1. Range(wire'[YX]) \subseteq Range(wire[YX])
      BY Constants DEF LeftAlone, Dwindles
    <3>2. Range(wire'[<<HomeOf[p], "y">>]) \subseteq Range(wire[<<HomeOf[p], "y">>])
      BY Ways DEF LeftAlone, Dwindles
    <3>3. ToCome(p)' => ToCome(p)
      BY <3>2, ToComeKeeps
    <3>4. Hangs(p)
      BY <2>1 DEF IInv, HangsHold
    <3>5. QED
      BY <3>1, <3>3, <3>4, HangsKeeps
  <2>2. QED
    BY <2>1 DEF HangsHold
<1>7. QED
  BY <1>1, <1>3, <1>4, <1>5, <1>6 DEF IInv

\* A delivery changes the stores at post p only ...
OnlyAbout(p) ==
  \A q \in Posts \ {p} : /\ \A s \in Range(Stores) : held'[s][q] = held[s][q]
                         /\ \A s \in {"board", "mirror"} : under'[s][q] = under[s][q]
                         /\ q \in due' <=> q \in due

\* ... of those only the ones it comes to, which come nearer to the author's word, ...
WordGoesOn(l, p) ==
  \A s \in {"board", "timeline", "mail"} :
     Belongs(p, s) /\ <<SiteOf[s], p>> \notin shaken' =>
        \/ /\ l # <<HomeOf[p], SiteOf[s]>>
           /\ held'[s][p] = held[s][p]
        \/ WordFrom(wire'[<<HomeOf[p], SiteOf[s]>>], p, held'[s][p], said[p])

\* ... and what else is said of p stays true.
RestGoesOn(p) ==
  /\ p \in Private => \A s \in {"board", "mirror", "timeline"} : held'[s][p] = 0
  /\ p \notin Private /\ Settled' /\ <<"x", p>> \notin shaken' => MirrorComes(p)'
  /\ <<"y", p>> \notin shaken' => Hangs(p)'

LEMMA Delivers ==
  ASSUME IInv, Types', NEW l \in Links, NEW i, Taken(l, i), shaken \subseteq shaken',
         NEW p \in Posts, wire[l][i].post = p, wire[l][i].act # "Accept",
         UNCHANGED <<edge, subscribed, accepting, said>>,
         OnlyAbout(p), WordGoesOn(l, p), RestGoesOn(p)
  PROVE  IInv'
<1>0. /\ p # None /\ Dwindles
      /\ \A q : <<"x", q>> \notin shaken' /\ <<"x", None>> \notin shaken' => Ordered(q)
      /\ \A k \in Links : \A q :
            <<k[2], q>> \notin shaken' /\ ~(k = l /\ q = p) => Steady(k, q)
  BY Constants DEF Taken
<1>r. Range(Stores) = {"board", "timeline", "mirror", "mail"}
  BY Constants
<1>1. PrivateHolds'
  <2>1. ASSUME NEW q \in Private
        PROVE  held'["board"][q] = 0 /\ held'["mirror"][q] = 0 /\ held'["timeline"][q] = 0
    <3>1. CASE q = p
      BY <2>1, <3>1 DEF RestGoesOn
    <3>2. CASE q # p
      BY <1>r, <2>1, <3>2, Constants DEF IInv, PrivateHolds, OnlyAbout
    <3>3. QED
      BY <3>1, <3>2
  <2>2. QED
    BY <2>1 DEF PrivateHolds
<1>2. EdgeSteady
  BY <1>0, HandshakeGoesOn
<1>3. EdgeHolds'
  BY <1>2, EdgeKeeps DEF IInv
<1>4. WordHolds'
  <2>1. ASSUME NEW q \in Posts, NEW s \in {"board", "timeline", "mail"},
               Belongs(q, s), <<SiteOf[s], q>> \notin shaken'
        PROVE  WordFrom(wire'[<<HomeOf[q], SiteOf[s]>>], q, held'[s][q], said'[q])
    <3>0. /\ <<HomeOf[q], SiteOf[s]>> \in Links
          /\ <<HomeOf[q], SiteOf[s]>>[2] = SiteOf[s]
      BY <2>1, Ways
    <3>1. ASSUME held'[s][q] = held[s][q],
                 ~(<<HomeOf[q], SiteOf[s]>> = l /\ q = p)
          PROVE  WordFrom(wire'[<<HomeOf[q], SiteOf[s]>>], q, held'[s][q], said'[q])
      <4>1. Steady(<<HomeOf[q], SiteOf[s]>>, q)
        BY <1>0, <2>1, <3>0, <3>1
      <4>2. QED
        BY <2>1, <3>1, <4>1, WordKeeps DEF IInv
    <3>2. CASE q # p
      BY <1>r, <3>1, <3>2 DEF OnlyAbout
    <3>3. CASE q = p
      BY <2>1, <3>1, <3>3 DEF WordGoesOn
    <3>4. QED
      BY <3>2, <3>3
  <2>2. QED
    BY <2>1 DEF WordHolds
<1>5. MirrorHolds'
  <2>1. ASSUME Settled', NEW q \in Posts \ Private, <<"x", q>> \notin shaken'
        PROVE  MirrorComes(q)'
    <3>1. CASE q = p
      BY <2>1, <3>1 DEF RestGoesOn
    <3>2. CASE q # p
      <4>1. Steady(YX, q) /\ Ordered(q)
        BY <1>0, <2>1, <3>2, Constants, Ends DEF Settled
      <4>2. /\ held'["mirror"][q] = held["mirror"][q]
            /\ held'["board"][q] = held["board"][q]
            /\ q \in due' <=> q \in due
        BY <1>r, <3>2 DEF OnlyAbout
      <4>3. QED
        BY <1>2, <2>1, <4>1, <4>2, MirrorKeeps DEF IInv
    <3>3. QED
      BY <3>1, <3>2
  <2>2. QED
    BY <2>1 DEF MirrorHolds
<1>6. HangsHold'
  <2>1. ASSUME NEW q \in Posts, <<"y", q>> \notin shaken'
        PROVE  Hangs(q)'
    <3>1. CASE q = p
      BY <2>1, <3>1 DEF RestGoesOn
    <3>2. CASE q # p
      <4>1. Range(wire'[YX]) \subseteq Range(wire[YX])
        BY <1>0, Constants DEF Dwindles
      <4>2. Range(wire'[<<HomeOf[q], "y">>]) \subseteq Range(wire[<<HomeOf[q], "y">>])
        BY <1>0, Ways DEF Dwindles
      <4>3. ToCome(q)' => ToCome(q)
        BY <4>2, ToComeKeeps
      <4>4. Hangs(q)
        BY <2>1 DEF IInv, HangsHold
      <4>5. /\ held'["mirror"][q] = held["mirror"][q]
            /\ held'["board"][q] = held["board"][q]
            /\ under'["mirror"][q] = under["mirror"][q]
            /\ under'["board"][q] = under["board"][q]
            /\ q \in due' <=> q \in due
        BY <1>r, <3>2 DEF OnlyAbout
      <4>6. QED
        BY <4>1, <4>3, <4>4, <4>5, HangsKeeps
    <3>3. QED
      BY <3>1, <3>2
  <2>2. QED
    BY <2>1 DEF HangsHold
<1>7. QED
  BY <1>1, <1>3, <1>4, <1>5, <1>6 DEF IInv
-----------------------------------------------------------------------------
(* Types. *)

LEMMA TypesIf ==
  ASSUME Lawful, asks' \in Nat, upsets' \in Nat,
         edge' \in {None, "pending", "accepted"},
         subscribed' \in BOOLEAN, accepting' \in BOOLEAN,
         held' \in [Range(Stores) -> [Posts -> 0 .. MaxVer]],
         under' \in [{"board", "mirror"} -> [Posts -> Subjects]],
         recent' \subseteq Posts, due' \subseteq Posts,
         said' \in [Posts -> 0 .. Gone],
         policy' \in [{"y", "z"} -> {"open", "silence", "suspend"}],
         purged' \subseteq {d \in DOMAIN policy' : policy'[d] = "suspend"},
         report' \in {None, "open", "resolved"},
         shaken' \subseteq {"x", "y"} \X Subjects
  PROVE  Types'
<1>1. ASSUME NEW l \in Links, NEW m \in Range(wire'[l])
      PROVE  m.post \in Posts \cup {None}
  <2>1. PICK k \in DOMAIN wire'[l] : m = wire'[l][k]
    BY DEF Range
  <2>2. wire'[l] \in Seq(Message)
    BY DEF Lawful
  <2>3. m \in Message
    BY <2>1, <2>2
  <2>4. QED
    BY <2>3 DEF Message, Subjects
<1>2. TypeOK'
  BY <1>1 DEF TypeOK, Subjects
<1>3. QED
  BY <1>2 DEF Types, Lawful

\* The same facts of a state.
LEMMA Typed ==
  ASSUME Types
  PROVE  /\ asks \in Nat /\ upsets \in Nat
         /\ edge \in {None, "pending", "accepted"}
         /\ subscribed \in BOOLEAN /\ accepting \in BOOLEAN
         /\ held \in [Range(Stores) -> [Posts -> 0 .. MaxVer]]
         /\ under \in [{"board", "mirror"} -> [Posts -> Subjects]]
         /\ recent \subseteq Posts /\ due \subseteq Posts
         /\ said \in [Posts -> 0 .. Gone]
         /\ policy \in [{"y", "z"} -> {"open", "silence", "suspend"}]
         /\ purged \subseteq {d \in DOMAIN policy : policy[d] = "suspend"}
         /\ report \in {None, "open", "resolved"}
         /\ shaken \subseteq {"x", "y"} \X Subjects
BY DEF Types, TypeOK, Subjects

\* Whatever is disturbed is a site's idea of a post, or of the follow.
LEMMA Disturbs ==
  ASSUME Types, NEW l \in Links
  PROVE  /\ \A m \in Message : Subject(l, m) \in {"x", "y"} \X Subjects
         /\ \A m \in Range(wire[l]) : Subject(l, m) \in {"x", "y"} \X Subjects
         /\ \A i \in DOMAIN wire[l] : Disturbed(l, i) \subseteq {"x", "y"} \X Subjects
<1>1. l[2] \in {"x", "y"}
  BY Constants, Ends
<1>2. wire[l] \in Seq(Message)
  BY DEF Types
<1>3. \A m \in Message : Subject(l, m) \in {"x", "y"} \X Subjects
  BY <1>1 DEF Subject, Message
<1>4. \A k \in DOMAIN wire[l] : wire[l][k] \in Message
  BY <1>2
<1>5. \A m \in Range(wire[l]) : Subject(l, m) \in {"x", "y"} \X Subjects
  BY <1>3, <1>4 DEF Range
<1>6. ASSUME NEW i \in DOMAIN wire[l]
      PROVE  Disturbed(l, i) \subseteq {"x", "y"} \X Subjects
  <2>1. \A j \in 1 .. i : j \in DOMAIN wire[l]
    BY <1>2
  <2>2. \A j \in 1 .. i : Subject(l, wire[l][j]) \in {"x", "y"} \X Subjects
    BY <1>3, <1>4, <2>1
  <2>3. QED
    BY <2>2 DEF Disturbed
<1>7. QED
  BY <1>3, <1>5, <1>6

-----------------------------------------------------------------------------
(* The operator, the clock, and deliveries that fail. *)

LEMMA SetPolicyKeeps ==
  ASSUME IInv, NEW d \in {"y", "z"}, NEW k \in {"open", "silence", "suspend"},
         SetPolicy(d, k)
  PROVE  IInv'
<1>0. Types /\ wire' = wire
  BY DEF IInv, SetPolicy
<1>1. LeftAlone
  BY <1>0, Untouched
<1>2. /\ policy' = [policy EXCEPT ![d] = k]
      /\ purged' = IF k = "suspend" THEN purged ELSE purged \ {d}
      /\ upsets' = upsets + 1
      /\ UNCHANGED <<edge, subscribed, accepting, held, under, recent, due, said, asks,
                     shaken, report>>
  BY DEF SetPolicy
<1>3. Types'
  <2>1. policy' \in [{"y", "z"} -> {"open", "silence", "suspend"}]
    BY <1>0, <1>2, Typed
  <2>2. purged' \subseteq {e \in DOMAIN policy' : policy'[e] = "suspend"}
    BY <1>0, <1>2, Typed
  <2>3. upsets' \in Nat
    BY <1>0, <1>2, Typed
  <2>4. QED
    BY <1>0, <1>1, <1>2, <2>1, <2>2, <2>3, Typed, TypesIf DEF LeftAlone
<1>4. QED
  BY <1>1, <1>2, <1>3, Quiet

LEMMA OtherKeeps ==
  ASSUME IInv, WindowPasses \/ ReceiveFlag \/ Resolve
  PROVE  IInv'
<1>0. Types /\ wire' = wire
  BY DEF IInv, WindowPasses, ReceiveFlag, Resolve
<1>1. LeftAlone
  BY <1>0, Untouched
<1>2. UNCHANGED <<edge, subscribed, accepting, held, under, due, said, policy, purged, asks,
                  upsets, shaken>>
  BY DEF WindowPasses, ReceiveFlag, Resolve
<1>3. recent' \subseteq Posts /\ report' \in {None, "open", "resolved"}
  BY <1>0, Typed DEF WindowPasses, ReceiveFlag, Resolve, Recorded
<1>4. Types'
  BY <1>0, <1>1, <1>2, <1>3, Typed, TypesIf DEF LeftAlone
<1>5. QED
  BY <1>1, <1>2, <1>4, Quiet

LEMMA RefuseKeeps ==
  ASSUME IInv, NEW l \in Links, Refuse(l)
  PROVE  IInv'
<1>0. Types
  BY DEF IInv
<1>1. /\ wire[l] # <<>>
      /\ \/ wire' = [wire EXCEPT ![l] = Tail(@)]
         \/ wire' = [wire EXCEPT ![l] = Append(Tail(@), Head(@))]
      /\ shaken' = shaken \cup {Subject(l, m) : m \in Range(wire[l])}
      /\ UNCHANGED <<edge, subscribed, accepting, held, under, recent, due, said, policy, purged,
                     asks, upsets, report>>
  BY DEF Refuse
<1>2. LeftAlone
  BY <1>0, <1>1, Loses
<1>3. shaken' \subseteq {"x", "y"} \X Subjects
  BY <1>0, <1>1, Disturbs, Typed
<1>4. Types'
  BY <1>0, <1>1, <1>2, <1>3, Typed, TypesIf DEF LeftAlone
<1>5. QED
  BY <1>1, <1>2, <1>4, Quiet

LEMMA GiveUpKeeps ==
  ASSUME IInv, NEW l \in Links, GiveUp(l)
  PROVE  IInv'
<1>0. Types
  BY DEF IInv
<1>1. /\ wire[l] # <<>>
      /\ upsets' = upsets + 1
      /\ wire' = [wire EXCEPT ![l] = Tail(@)]
      /\ shaken' = shaken \cup {Subject(l, Head(wire[l]))}
      /\ UNCHANGED <<edge, subscribed, accepting, held, under, recent, due, said, policy, purged,
                     asks, report>>
  BY DEF GiveUp
<1>2. LeftAlone
  BY <1>0, <1>1, Loses
<1>3. shaken' \subseteq {"x", "y"} \X Subjects
  <2>1. wire[l] \in Seq(Message)
    BY <1>0 DEF Types
  <2>2. Head(wire[l]) \in Message
    BY <1>1, <2>1
  <2>3. Subject(l, Head(wire[l])) \in {"x", "y"} \X Subjects
    BY <1>0, <2>2, Disturbs
  <2>4. QED
    BY <1>0, <1>1, <2>3, Typed
<1>4. Types'
  <2>1. upsets' \in Nat
    BY <1>0, <1>1, Typed
  <2>2. QED
    BY <1>0, <1>1, <1>2, <1>3, <2>1, Typed, TypesIf DEF LeftAlone
<1>5. QED
  BY <1>1, <1>2, <1>4, Quiet

\* A crash of y: what is due is not announced, and no Accept comes.
LEMMA CrashKeeps ==
  ASSUME IInv, Crash
  PROVE  IInv'
<1>0. Types /\ wire' = wire
  BY DEF IInv, Crash
<1>1. /\ upsets' = upsets + 1 /\ due' = {} /\ accepting' = FALSE
      /\ shaken' = shaken \cup {<<"x", p>> : p \in due}
                          \cup (IF accepting THEN {<<"y", None>>} ELSE {})
      /\ UNCHANGED <<edge, subscribed, held, under, recent, said, policy, purged, asks, report>>
  BY DEF Crash
<1>2. LeftAlone /\ shaken \subseteq shaken'
  BY <1>0, <1>1, Untouched
<1>3. Types'
  <2>1. shaken' \subseteq {"x", "y"} \X Subjects
    BY <1>0, <1>1, Typed DEF Subjects
  <2>2. upsets' \in Nat
    BY <1>0, <1>1, Typed
  <2>3. QED
    BY <1>0, <1>1, <1>2, <2>1, <2>2, Typed, TypesIf DEF LeftAlone
<1>4. Settled' => accepting' = accepting
  <2>1. CASE accepting
    <3>1. <<"y", None>> \in shaken'
      BY <1>1, <2>1
    <3>2. ~Settled'
      BY <3>1 DEF Settled
    <3>3. QED
      BY <3>2
  <2>2. CASE ~accepting
    <3>1. accepting = FALSE
      BY <1>0, <2>2, Typed
    <3>2. QED
      BY <1>1, <3>1
  <2>3. QED
    BY <2>1, <2>2
<1>5. PrivateHolds'
  BY <1>1 DEF IInv, PrivateHolds
<1>6. EdgeSteady
  BY <1>2, HandshakeGoesOn
<1>7. EdgeHolds'
  <2>1. CASE Settled'
    BY <1>1, <1>4, <1>6, <2>1, EdgeKeeps DEF IInv
  <2>2. CASE ~Settled'
    BY <2>2 DEF EdgeHolds
  <2>3. QED
    BY <2>1, <2>2
<1>8. WordHolds'
  <2>1. ASSUME NEW p \in Posts, NEW s \in {"board", "timeline", "mail"},
               Belongs(p, s), <<SiteOf[s], p>> \notin shaken'
        PROVE  WordFrom(wire'[<<HomeOf[p], SiteOf[s]>>], p, held'[s][p], said'[p])
    <3>1. Steady(<<HomeOf[p], SiteOf[s]>>, p)
      BY <1>2, <2>1, Ways DEF LeftAlone
    <3>2. QED
      BY <1>1, <1>2, <2>1, <3>1, WordKeeps DEF IInv
  <2>2. QED
    BY <2>1 DEF WordHolds
<1>9. MirrorHolds'
  <2>1. ASSUME Settled', NEW p \in Posts \ Private, <<"x", p>> \notin shaken'
        PROVE  MirrorComes(p)'
    <3>1. Steady(YX, p) /\ Ordered(p)
      BY <1>2, <2>1, Constants, Ends DEF LeftAlone, Settled
    <3>2. p \notin due /\ p \notin due' /\ <<"x", p>> \notin shaken
      BY <1>1, <2>1
    <3>3. QED
      BY <1>1, <1>4, <1>6, <2>1, <3>1, <3>2, MirrorKeeps DEF IInv
  <2>2. QED
    BY <2>1 DEF MirrorHolds
<1>10. HangsHold'
  <2>1. ASSUME NEW p \in Posts, <<"y", p>> \notin shaken'
        PROVE  Hangs(p)'
    <3>1. ToCome(p)' => ToCome(p)
      BY <1>0, <1>1, ToComeKeeps
    <3>2. Hangs(p)
      BY <1>1, <2>1 DEF IInv, HangsHold
    <3>3. QED
      BY <1>0, <1>1, <3>1, <3>2, HangsKeeps
  <2>2. QED
    BY <2>1 DEF HangsHold
<1>11. QED
  BY <1>3, <1>5, <1>7, <1>8, <1>9, <1>10 DEF IInv

LEMMA PurgeKeeps ==
  ASSUME IInv, NEW d \in {"y", "z"}, Purge(d)
  PROVE  IInv'
<1>0. Types /\ wire' = wire
  BY DEF IInv, Purge
<1>1. /\ held' = [s \in DOMAIN held |-> [p \in Posts |->
                    IF <<s, p>> \in Purgeable(d) THEN 0 ELSE held[s][p]]]
      /\ purged' = IF policy[d] = "suspend" THEN purged \cup {d} ELSE purged
      /\ shaken' = shaken \cup {<<"x", p>> : p \in Posts}
      /\ UNCHANGED <<edge, subscribed, accepting, under, recent, due, said, policy, asks,
                     upsets, report>>
  BY DEF Purge
<1>2. LeftAlone /\ shaken \subseteq shaken'
  BY <1>0, <1>1, Untouched
<1>3. /\ \A s \in Range(Stores), p \in Posts : held'[s][p] \in {0, held[s][p]}
      /\ \A p \in Posts : held'["board"][p] = held["board"][p]
      /\ held' \in [Range(Stores) -> [Posts -> 0 .. MaxVer]]
  <2>1. DOMAIN held = Range(Stores) /\ "board" \in Range(Stores)
    BY <1>0, Typed, Constants
  <2>2. \A p \in Posts : <<"board", p>> \notin Purgeable(d)
    BY DEF Purgeable
  <2>3. \A s \in Range(Stores), p \in Posts :
           held'[s][p] = IF <<s, p>> \in Purgeable(d) THEN 0 ELSE held[s][p]
    BY <1>1, <2>1
  <2>4. ASSUME NEW s \in Range(Stores), NEW p \in Posts
        PROVE  held[s][p] \in 0 .. MaxVer /\ 0 \in 0 .. MaxVer
    BY <1>0, Typed, Constants
  <2>5. held' \in [Range(Stores) -> [Posts -> 0 .. MaxVer]]
    BY <1>1, <2>1, <2>4
  <2>6. QED
    BY <2>1, <2>2, <2>3, <2>5
<1>4. Types'
  <2>1. shaken' \subseteq {"x", "y"} \X Subjects
    BY <1>0, <1>1, Typed DEF Subjects
  <2>2. purged' \subseteq {e \in DOMAIN policy' : policy'[e] = "suspend"}
    BY <1>0, <1>1, Typed
  <2>3. QED
    BY <1>0, <1>1, <1>2, <1>3, <2>1, <2>2, Typed, TypesIf DEF LeftAlone
<1>5. PrivateHolds'
  BY <1>3, Constants DEF IInv, PrivateHolds
<1>6. EdgeSteady
  BY <1>2, HandshakeGoesOn
<1>7. EdgeHolds'
  BY <1>1, <1>6, EdgeKeeps DEF IInv
<1>8. WordHolds'
  <2>1. ASSUME NEW p \in Posts, NEW s \in {"board", "timeline", "mail"},
               Belongs(p, s), <<SiteOf[s], p>> \notin shaken'
        PROVE  WordFrom(wire'[<<HomeOf[p], SiteOf[s]>>], p, held'[s][p], said'[p])
    <3>1. Steady(<<HomeOf[p], SiteOf[s]>>, p)
      BY <1>2, <2>1, Ways DEF LeftAlone
    <3>2. s = "board"
      BY <1>1, <2>1, Ways
    <3>3. QED
      BY <1>1, <1>2, <1>3, <2>1, <3>1, <3>2, WordKeeps DEF IInv
  <2>2. QED
    BY <2>1 DEF WordHolds
<1>9. MirrorHolds'
  BY <1>1 DEF MirrorHolds
<1>10. HangsHold'
  <2>1. ASSUME NEW p \in Posts, <<"y", p>> \notin shaken'
        PROVE  Hangs(p)'
    <3>1. ToCome(p)' => ToCome(p)
      BY <1>0, <1>1, ToComeKeeps
    <3>2. Hangs(p)
      BY <1>1, <2>1 DEF IInv, HangsHold
    <3>3. held'["mirror"][p] # 0 => held["mirror"][p] # 0
      BY <1>3, Constants
    <3>4. QED
      BY <1>0, <1>1, <1>3, <3>1, <3>2, <3>3, HangsKeeps
  <2>2. QED
    BY <2>1 DEF HangsHold
<1>11. QED
  BY <1>4, <1>5, <1>7, <1>8, <1>9, <1>10 DEF IInv

-----------------------------------------------------------------------------
(* The handshake. *)

\* What a message without a post leaves alone, whichever way it goes.
LEMMA Apart ==
  ASSUME IInv, NEW l \in Links, NEW m, Sends(l, m), m.post = None,
         m.act \notin {"Create", "Announced"},
         shaken \subseteq shaken', UNCHANGED <<held, under, due, said>>
  PROVE  PrivateHolds' /\ WordHolds' /\ HangsHold'
<1>0. /\ \A k \in Links : \A q \in Posts : Steady(k, q)
      /\ \A k \in Links : Range(wire'[k]) \subseteq Range(wire[k]) \cup {m}
  BY Constants DEF Sends
<1>1. PrivateHolds'
  BY DEF IInv, PrivateHolds
<1>2. WordHolds'
  <2>1. ASSUME NEW p \in Posts, NEW s \in {"board", "timeline", "mail"},
               Belongs(p, s), <<SiteOf[s], p>> \notin shaken'
        PROVE  WordFrom(wire'[<<HomeOf[p], SiteOf[s]>>], p, held'[s][p], said'[p])
    <3>1. Steady(<<HomeOf[p], SiteOf[s]>>, p)
      BY <1>0, <2>1, Ways
    <3>2. QED
      BY <2>1, <3>1, WordKeeps DEF IInv
  <2>2. QED
    BY <2>1 DEF WordHolds
<1>3. HangsHold'
  <2>1. ASSUME NEW p \in Posts, <<"y", p>> \notin shaken'
        PROVE  Hangs(p)'
    <3>1. ToCome(p)' => ToCome(p)
      BY <1>0, Ways, ToComeKeeps
    <3>2. Hangs(p)
      BY <2>1 DEF IInv, HangsHold
    <3>3. \A n \in Range(wire'[YX]) : n.act = "Announced" /\ n.post = p => n \in Range(wire[YX])
      BY <1>0, Constants
    <3>4. QED
      BY <3>1, <3>2, <3>3, HangsKeeps
  <2>2. QED
    BY <2>1 DEF HangsHold
<1>4. QED
  BY <1>1, <1>2, <1>3

\* The three of them are messages, of their links.
LEMMA Handshakes ==
  /\ FollowMsg \in Message /\ UndoMsg \in Message /\ AcceptMsg \in Message
  /\ Travels(XY, FollowMsg) /\ Travels(XY, UndoMsg) /\ Travels(YX, AcceptMsg)
  /\ FollowMsg.act = "Follow" /\ UndoMsg.act = "Undo" /\ AcceptMsg.act = "Accept"
  /\ FollowMsg.post = None /\ UndoMsg.post = None /\ AcceptMsg.post = None
<1>1. FollowMsg \in Message /\ UndoMsg \in Message /\ AcceptMsg \in Message
  BY Constants DEF FollowMsg, UndoMsg, AcceptMsg, Msg, Message, Acts, Subjects
<1>2. QED
  BY <1>1, Kinds DEF FollowMsg, UndoMsg, AcceptMsg, Msg

LEMMA FollowKeeps ==
  ASSUME IInv, Follow
  PROVE  IInv'
<1>0. Types
  BY DEF IInv
<1>1. /\ asks' = asks + 1
      /\ edge' = Requested
      /\ Send(XY, FollowMsg)
      /\ UNCHANGED <<subscribed, accepting, held, under, recent, due, said, policy, purged,
                     upsets, shaken, report>>
  BY DEF Follow, XY, FollowMsg
<1>2. Sends(XY, FollowMsg)
  BY <1>0, <1>1, Handshakes, Constants, SendSends
<1>3. Types'
  <2>1. edge' \in {None, "pending", "accepted"} /\ asks' \in Nat
    BY <1>0, <1>1, Typed DEF Requested
  <2>2. QED
    BY <1>0, <1>1, <1>2, <2>1, Typed, TypesIf DEF Sends
<1>4. PrivateHolds' /\ WordHolds' /\ HangsHold'
  BY <1>1, <1>2, Handshakes, Constants, Apart
<1>5. /\ edge' # None
      /\ edge' = "pending" => edge \in {None, "pending"}
      /\ edge = "accepted" => edge' = "accepted"
  BY <1>0, <1>1, Typed DEF Requested, None
<1>6. /\ Sent(wire[XY], wire'[XY], None, FollowMsg)
      /\ wire'[YX] = wire[YX]
  BY <1>2, Handshakes, Constants, Ends DEF Sends
<1>7. EdgeHolds'
  <2>1. Has(wire'[XY], None) /\ In(wire'[XY], None, FollowMsg)
    BY <1>6 DEF Sent
  <2>2. \A m : LastOf(wire'[XY], None, m) => m = FollowMsg
    BY <1>6 DEF Sent
  <2>3. EdgeFrom(wire'[XY], wire'[YX], edge', subscribed', accepting')
    BY <1>5, <2>1, <2>2, Handshakes DEF EdgeFrom
  <2>4. QED
    BY <2>3 DEF EdgeHolds
<1>8. MirrorHolds'
  <2>1. ASSUME Settled', NEW p \in Posts \ Private, <<"x", p>> \notin shaken'
        PROVE  MirrorComes(p)'
    <3>1. MirrorComes(p)
      BY <1>1, <2>1 DEF IInv, MirrorHolds, Settled
    <3>2. UndoMsg # FollowMsg
      BY Handshakes
    <3>3. ~In(wire'[XY], None, UndoMsg)
      BY <1>6, <3>1, <3>2 DEF MirrorComes, EdgeStays, Sent
    <3>4. EdgeStays'
      BY <1>0, <1>1, <1>5, <1>6, <3>1, <3>3, Typed DEF MirrorComes, EdgeStays
    <3>5. QED
      BY <1>1, <1>5, <1>6, <3>1, <3>4 DEF MirrorComes
  <2>2. QED
    BY <2>1 DEF MirrorHolds
<1>9. QED
  BY <1>3, <1>4, <1>7, <1>8 DEF IInv

LEMMA UnfollowKeeps ==
  ASSUME IInv, Unfollow
  PROVE  IInv'
<1>0. Types
  BY DEF IInv
<1>1. /\ edge' = None
      /\ Send(XY, UndoMsg)
      /\ shaken' = shaken \cup {<<"x", p>> : p \in Posts}
      /\ UNCHANGED <<subscribed, accepting, held, under, recent, due, said, policy, purged,
                     asks, upsets, report>>
  BY DEF Unfollow, XY, UndoMsg
<1>2. Sends(XY, UndoMsg)
  BY <1>0, <1>1, Handshakes, Constants, SendSends
<1>3. Types'
  <2>1. edge' \in {None, "pending", "accepted"} /\ shaken' \subseteq {"x", "y"} \X Subjects
    BY <1>0, <1>1, Typed DEF Subjects
  <2>2. QED
    BY <1>0, <1>1, <1>2, <2>1, Typed, TypesIf DEF Sends
<1>4. PrivateHolds' /\ WordHolds' /\ HangsHold'
  BY <1>1, <1>2, Handshakes, Constants, Apart
<1>5. Sent(wire[XY], wire'[XY], None, UndoMsg)
  BY <1>2, Handshakes DEF Sends
<1>6. EdgeHolds'
  <2>1. Has(wire'[XY], None)
    BY <1>5 DEF Sent
  <2>2. \A m : LastOf(wire'[XY], None, m) => m = UndoMsg
    BY <1>5 DEF Sent
  <2>3. None # "pending"
    BY DEF None
  <2>4. EdgeFrom(wire'[XY], wire'[YX], edge', subscribed', accepting')
    BY <1>1, <2>1, <2>2, <2>3, Handshakes DEF EdgeFrom
  <2>5. QED
    BY <2>4 DEF EdgeHolds
<1>7. MirrorHolds'
  BY <1>1 DEF MirrorHolds
<1>8. QED
  BY <1>3, <1>4, <1>6, <1>7 DEF IInv

LEMMA QueueAcceptKeeps ==
  ASSUME IInv, QueueAccept
  PROVE  IInv'
<1>0. Types
  BY DEF IInv
<1>1. /\ accepting /\ accepting' = FALSE
      /\ Send(YX, AcceptMsg)
      /\ UNCHANGED <<edge, subscribed, held, under, recent, due, said, policy, purged,
                     asks, upsets, shaken, report>>
  BY DEF QueueAccept, YX, AcceptMsg
<1>2. Sends(YX, AcceptMsg) /\ wire'[YX] = Append(wire[YX], AcceptMsg)
  BY <1>0, <1>1, Handshakes, Constants, SendSends
<1>3. Types'
  BY <1>0, <1>1, <1>2, Typed, TypesIf DEF Sends
<1>4. PrivateHolds' /\ WordHolds' /\ HangsHold'
  BY <1>1, <1>2, Handshakes, Constants, Apart
<1>5. /\ Sent(wire[YX], wire'[YX], None, AcceptMsg)
      /\ wire'[XY] = wire[XY]
  BY <1>2, Handshakes, Constants, Ends DEF Sends
<1>6. Has(wire'[YX], None)
  BY <1>5 DEF Sent
<1>7. EdgeHolds'
  <2>1. ASSUME Settled' PROVE EdgeFrom(wire'[XY], wire'[YX], edge', subscribed', accepting')
    <3>1. EdgeFrom(wire[XY], wire[YX], edge, subscribed, accepting)
      BY <1>1, <2>1 DEF IInv, EdgeHolds, Settled
    <3>2. QED
      BY <1>1, <1>5, <1>6, <3>1 DEF EdgeFrom
  <2>2. QED
    BY <2>1 DEF EdgeHolds
<1>8. MirrorHolds'
  <2>1. ASSUME Settled', NEW p \in Posts \ Private, <<"x", p>> \notin shaken'
        PROVE  MirrorComes(p)'
    <3>1. MirrorComes(p)
      BY <1>1, <2>1 DEF IInv, MirrorHolds, Settled
    <3>2. EdgeStays'
      BY <1>1, <1>5, <1>6, <3>1 DEF MirrorComes, EdgeStays
    <3>3. Open(wire'[YX], p) => Open(wire[YX], p)
      <4>1. wire[YX] \in Seq(Message) /\ AcceptMsg.post # p /\ AcceptMsg \in Message
        BY <1>0, Constants, Handshakes DEF Types
      <4>2. QED
        BY <1>2, <4>1, OpenSent
    <3>4. Steady(YX, p)
      BY <1>2, Handshakes, Constants DEF Sends
    <3>5. MirrorFrom(wire[YX], p, held["mirror"][p], held["board"][p], p \in due)
      BY <3>1 DEF MirrorComes
    <3>6. MirrorFrom(wire'[YX], p, held["mirror"][p], held["board"][p], p \in due)
      BY <3>4, <3>5, MirrorSame DEF Steady
    <3>7. QED
      BY <1>1, <3>1, <3>2, <3>3, <3>6 DEF MirrorComes
  <2>2. QED
    BY <2>1 DEF MirrorHolds
<1>9. QED
  BY <1>3, <1>4, <1>7, <1>8 DEF IInv

-----------------------------------------------------------------------------
(* Authors. *)

\* What an author says of post p goes wherever p belongs, and nowhere else.
Speaks(p, m) ==
  /\ Lawful
  /\ \A k \in Links : \A q : q # p => Steady(k, q)
  /\ \A k \in Links : Range(wire'[k]) \subseteq Range(wire[k]) \cup {m}
  /\ wire'[YX] = wire[YX]
  /\ m.post = p
  /\ \A s \in {"board", "timeline", "mail"} :
        Belongs(p, s) => LET l == <<HomeOf[p], SiteOf[s]>> IN Sent(wire[l], wire'[l], p, m)

LEMMA AuthorKeeps ==
  ASSUME IInv, NEW p \in Posts, NEW m \in Message, Speaks(p, m), NEW b \in Nat \ {0},
         b <= Gone,
         \/ m.act = "Create" /\ said[p] = 0 /\ b = 1
         \/ said[p] \in 1 .. MaxVer /\ m.act = "Update" /\ m.ver = b
         \/ said[p] \in 1 .. MaxVer /\ m.act = "Delete" /\ b = Gone,
         said' = [said EXCEPT ![p] = b],
         UNCHANGED <<edge, subscribed, accepting, held, under, recent, due, policy, purged,
                     asks, upsets, shaken, report>>
  PROVE  IInv'
<1>0. Types
  BY DEF IInv
<1>1. /\ said'[p] = b /\ \A q \in Posts \ {p} : said'[q] = said[q]
      /\ said' \in [Posts -> 0 .. Gone]
  <2>1. b \in 0 .. Gone
    BY Constants
  <2>2. QED
    BY <1>0, <2>1, Typed
<1>2. Types'
  BY <1>0, <1>1, Typed, TypesIf DEF Speaks
<1>3. PrivateHolds'
  BY DEF IInv, PrivateHolds
<1>4. EdgeSteady
  BY Constants DEF EdgeSteady, Settled, Speaks
<1>5. EdgeHolds'
  BY <1>4, EdgeKeeps DEF IInv
<1>6. WordHolds'
  <2>1. ASSUME NEW q \in Posts, NEW s \in {"board", "timeline", "mail"},
               Belongs(q, s), <<SiteOf[s], q>> \notin shaken'
        PROVE  WordFrom(wire'[<<HomeOf[q], SiteOf[s]>>], q, held'[s][q], said'[q])
    <3>1. CASE q # p
      <4>1. Steady(<<HomeOf[q], SiteOf[s]>>, q)
        BY <2>1, <3>1, Ways DEF Speaks
      <4>2. QED
        BY <1>1, <2>1, <3>1, <4>1, WordKeeps DEF IInv
    <3>2. CASE q = p
      <4> DEFINE w == wire[<<HomeOf[p], SiteOf[s]>>]
                 v == wire'[<<HomeOf[p], SiteOf[s]>>]
      <4>1. WordFrom(w, p, held[s][p], said[p])
        BY <2>1, <3>2 DEF IInv, WordHolds
      <4>2. Sent(w, v, p, m)
        BY <2>1, <3>2 DEF Speaks
      <4> HIDE DEF w, v
      <4>3. CASE m.act = "Create" /\ said[p] = 0 /\ b = 1
        <5>1. WordFrom(v, p, held[s][p], 1)
          BY <4>1, <4>2, <4>3, WordCreated
        <5>2. QED
          BY <1>1, <3>2, <4>3, <5>1 DEF v
      <4>4. CASE /\ said[p] \in 1 .. MaxVer
                 /\ (m.act = "Update" /\ m.ver = b) \/ (m.act = "Delete" /\ b = Gone)
        <5>1. WordFrom(v, p, held[s][p], b)
          BY <4>1, <4>2, <4>4, WordChanged
        <5>2. QED
          BY <1>1, <3>2, <5>1 DEF v
      <4>5. QED
        BY <4>3, <4>4
    <3>3. QED
      BY <3>1, <3>2
  <2>2. QED
    BY <2>1 DEF WordHolds
<1>7. MirrorHolds'
  <2>1. ASSUME Settled', NEW q \in Posts \ Private, <<"x", q>> \notin shaken'
        PROVE  MirrorComes(q)'
    <3>1. Steady(YX, q) /\ Ordered(q)
      BY SameIsSame DEF Speaks, Steady, Ordered
    <3>2. QED
      BY <1>4, <2>1, <3>1, MirrorKeeps DEF IInv
  <2>2. QED
    BY <2>1 DEF MirrorHolds
<1>8. HangsHold'
  <2>1. ASSUME NEW q \in Posts, <<"y", q>> \notin shaken'
        PROVE  Hangs(q)'
    <3>1. Hangs(q)
      BY <2>1 DEF IInv, HangsHold
    <3>2. ToCome(q)' => ToCome(q)
      <4> DEFINE l == <<HomeOf[q], "y">>
      <4>1. Range(wire'[l]) \subseteq Range(wire[l]) \cup {m}
        BY Ways DEF Speaks
      <4>2. CASE q = p /\ m.act = "Create"
        BY <4>2 DEF ToCome
      <4>3. CASE q # p
        <5>1. \A n \in Range(wire'[l]) : n.act = "Create" /\ n.post = q => n \in Range(wire[l])
          BY <4>1, <4>3 DEF Speaks
        <5>2. said'[q] = said[q]
          BY <1>1, <4>3
        <5>3. QED
          BY <5>1, <5>2, ToComeKeeps
      <4>4. CASE q = p /\ m.act # "Create"
        <5>1. said'[q] # 0
          BY <1>1, <4>4
        <5>2. \A n \in Range(wire'[l]) : n.act = "Create" => n \in Range(wire[l])
          BY <4>1, <4>4
        <5>3. QED
          BY <5>1, <5>2 DEF ToCome
      <4>5. QED
        BY <4>2, <4>3, <4>4
    <3>3. QED
      BY <3>1, <3>2, HangsKeeps DEF Speaks
  <2>2. QED
    BY <2>1 DEF HangsHold
<1>9. QED
  BY <1>2, <1>3, <1>5, <1>6, <1>7, <1>8 DEF IInv

LEMMA SubmitKeeps ==
  ASSUME IInv, NEW p \in Posts, Submit(p)
  PROVE  IInv'
<1> DEFINE m == RemoteCreate(p)
<1>0. Types
  BY DEF IInv
<1>1. /\ HomeOf[p] = "x" /\ said[p] = 0 /\ said' = [said EXCEPT ![p] = 1]
      /\ Send(XY, m)
      /\ UNCHANGED <<edge, subscribed, accepting, held, under, recent, due, policy, purged,
                     asks, upsets, shaken, report>>
  BY DEF Submit, XY
<1>2. m \in Message /\ m.act = "Create" /\ m.post = p /\ m.ver = 1
  BY Constants DEF RemoteCreate, Msg, Message, Acts, Subjects
<1> HIDE DEF m
<1>3. Travels(XY, m)
  BY <1>1, <1>2, Kinds
<1>4. Sends(XY, m)
  BY <1>0, <1>1, <1>2, <1>3, Constants, SendSends
<1>5. Speaks(p, m)
  <2>1. ASSUME NEW s \in {"board", "timeline", "mail"}, Belongs(p, s)
        PROVE  <<HomeOf[p], SiteOf[s]>> = XY
    <3>1. s = "board"
      BY <1>1, <2>1 DEF Belongs
    <3>2. QED
      BY <1>1, <3>1, Ways DEF XY
  <2>2. \A k \in Links : Range(wire'[k]) \subseteq Range(wire[k]) \cup {m}
    BY <1>4 DEF Sends
  <2>3. wire'[YX] = wire[YX]
    BY <1>4, Constants, Ends DEF Sends
  <2>4. Lawful /\ Sent(wire[XY], wire'[XY], p, m) /\ \A k \in Links : \A q : q # p => Steady(k, q)
    BY <1>2, <1>4 DEF Sends
  <2>5. QED
    BY <1>2, <2>1, <2>2, <2>3, <2>4 DEF Speaks
<1>6. 1 \in Nat \ {0} /\ 1 <= Gone
  BY Constants
<1>7. QED
  BY <1>1, <1>2, <1>5, <1>6, AuthorKeeps

\* Tell sends to the board, but for what is private, and to the followers.
LEMMA TellSpeaks ==
  ASSUME Types, NEW p \in Posts, NEW m \in Message, m.post = p, HomeOf[p] = "z",
         Travels(ZX, m), Tell(m)
  PROVE  Speaks(p, m)
<1>0. /\ wire \in [Links -> Seq(Message)]
      /\ wire' = [l \in Links |-> IF l[1] = "z" /\ (l[2] = "y" => p \notin Private)
                                    THEN Append(wire[l], m) ELSE wire[l]]
  BY DEF Types, Tell
<1>1. /\ wire'[XY] = wire[XY] /\ wire'[YX] = wire[YX]
      /\ wire'[ZX] = Append(wire[ZX], m)
      /\ wire'[ZY] = IF p \in Private THEN wire[ZY] ELSE Append(wire[ZY], m)
  BY <1>0, Constants, Ends
<1>2. \A l \in Links : wire'[l] = wire[l] \/ (wire'[l] = Append(wire[l], m) /\ Travels(l, m))
  <2>1. p \notin Private => Travels(ZY, m)
    BY Kinds
  <2>2. QED
    BY <1>1, <2>1, Constants
<1>3. \A l \in Links : /\ wire[l] \in Seq(Message)
                       /\ Append(wire[l], m) \in Seq(Message)
                       /\ Range(Append(wire[l], m)) = Range(wire[l]) \cup {m}
                       /\ Sent(wire[l], Append(wire[l], m), p, m)
                       /\ \A q : q # p => Same(wire[l], Append(wire[l], m), q)
  BY <1>0, AppendSends
<1>4. \A k \in Links : Range(wire'[k]) \subseteq Range(wire[k]) \cup {m}
  BY <1>2, <1>3
<1>5. Lawful
  <2>1. wire' \in [Links -> Seq(Message)]
    BY <1>0, <1>3
  <2>2. ASSUME NEW k \in Links, NEW j \in DOMAIN wire'[k]
        PROVE  Travels(k, wire'[k][j])
    <3>1. CASE wire'[k] = wire[k]
      BY <2>2, <3>1 DEF Types
    <3>2. CASE wire'[k] = Append(wire[k], m) /\ Travels(k, m)
      <4>1. wire'[k][j] \in Range(wire[k]) \/ wire'[k][j] = m
        BY <1>4, <2>2 DEF Range
      <4>2. QED
        BY <3>2, <4>1 DEF Types, Range
    <3>3. QED
      BY <1>2, <3>1, <3>2
  <2>3. QED
    BY <2>1, <2>2 DEF Lawful
<1>6. \A k \in Links : \A q : q # p => Steady(k, q)
  BY <1>2, <1>3, SameIsSame DEF Steady
<1>7. ASSUME NEW s \in {"board", "timeline", "mail"}, Belongs(p, s)
      PROVE  LET l == <<HomeOf[p], SiteOf[s]>> IN Sent(wire[l], wire'[l], p, m)
  <2> DEFINE l == <<HomeOf[p], SiteOf[s]>>
  <2>1. l \in Links /\ (l = ZX \/ (l = ZY /\ p \notin Private))
    <3>1. s = "board" => p \notin Private
      BY <1>7 DEF Belongs
    <3>2. ZY # XY /\ HomeOf[p] # "x"
      BY Ends
    <3>3. QED
      BY <1>7, <3>1, <3>2, Ways
  <2> HIDE DEF l
  <2>2. wire'[l] = Append(wire[l], m)
    BY <1>1, <2>1
  <2>3. Sent(wire[l], wire'[l], p, m)
    BY <1>3, <2>1, <2>2
  <2>4. QED
    BY <2>3 DEF l
<1>8. QED
  BY <1>1, <1>4, <1>5, <1>6, <1>7 DEF Speaks

LEMMA WriteKeeps ==
  ASSUME IInv, NEW p \in Posts, Write(p)
  PROVE  IInv'
<1>0. Types
  BY DEF IInv
<1>1. /\ HomeOf[p] = "z"
      /\ UNCHANGED <<edge, subscribed, accepting, held, under, recent, due, policy, purged,
                     asks, upsets, shaken, report>>
  BY DEF Write
<1>2. ASSUME NEW m \in Message, NEW b \in Nat \ {0}, m.post = p, Tell(m), b <= Gone,
             said' = [said EXCEPT ![p] = b],
             \/ m.act = "Create" /\ m.ver = 1 /\ said[p] = 0 /\ b = 1
             \/ said[p] \in 1 .. MaxVer /\ m.act = "Update" /\ m.ver = b
             \/ said[p] \in 1 .. MaxVer /\ m.act = "Delete" /\ b = Gone
      PROVE  IInv'
  <2>1. Travels(ZX, m)
    BY <1>1, <1>2, Kinds
  <2>2. Speaks(p, m)
    BY <1>0, <1>1, <1>2, <2>1, TellSpeaks
  <2>3. QED
    BY <1>1, <1>2, <2>2, AuthorKeeps
<1>3. CASE /\ said[p] = 0
           /\ said' = [said EXCEPT ![p] = 1]
           /\ Tell(Msg("Create", p, 1, ParentOf[p]))
  <2> DEFINE m == Msg("Create", p, 1, ParentOf[p])
  <2>1. m \in Message /\ m.act = "Create" /\ m.post = p /\ m.ver = 1 /\ 1 <= Gone
    BY Constants DEF Msg, Message, Acts, Subjects
  <2>2. Tell(m) /\ 1 \in Nat \ {0}
    BY <1>3
  <2> HIDE DEF m
  <2>3. QED
    BY <1>2, <1>3, <2>1, <2>2
<1>4. CASE /\ said[p] \in 1 .. MaxVer - 1
           /\ said' = [said EXCEPT ![p] = @ + 1]
           /\ Tell(Msg("Update", p, said[p] + 1, None))
  <2> DEFINE m == Msg("Update", p, said[p] + 1, None)
             b == said[p] + 1
  <2>1. said[p] \in 1 .. MaxVer /\ b \in Nat \ {0} /\ b <= Gone /\ b \in 0 .. MaxVer
    BY <1>4, Constants
  <2>2. m \in Message /\ m.act = "Update" /\ m.post = p /\ m.ver = b
    BY <2>1, Constants DEF Msg, Message, Acts, Subjects
  <2>3. Tell(m) /\ said' = [said EXCEPT ![p] = b]
    BY <1>0, <1>4, Typed
  <2> HIDE DEF m, b
  <2>4. QED
    BY <1>2, <2>1, <2>2, <2>3
<1>5. CASE /\ said[p] \in 1 .. MaxVer
           /\ said' = [said EXCEPT ![p] = Gone]
           /\ Tell(Msg("Delete", p, 0, None))
  <2> DEFINE m == Msg("Delete", p, 0, None)
  <2>1. m \in Message /\ m.act = "Delete" /\ m.post = p
    BY Constants DEF Msg, Message, Acts, Subjects
  <2>2. Tell(m)
    BY <1>5
  <2>3. Gone \in Nat \ {0} /\ Gone <= Gone
    BY Constants
  <2> HIDE DEF m
  <2>4. QED
    BY <1>2, <1>5, <2>1, <2>2, <2>3
<1>6. QED
  BY <1>3, <1>4, <1>5 DEF Write

-----------------------------------------------------------------------------
(* Deliveries of the handshake. *)

\* What the delivery of a message without a post leaves alone.
LEMMA ApartTaken ==
  ASSUME IInv, NEW l \in Links, NEW i, Taken(l, i), wire[l][i].post = None,
         shaken \subseteq shaken', UNCHANGED <<held, under, due, said>>
  PROVE  PrivateHolds' /\ WordHolds' /\ HangsHold'
<1>0. /\ \A k \in Links : \A q \in Posts : <<k[2], q>> \notin shaken' => Steady(k, q)
      /\ \A k \in Links : Range(wire'[k]) \subseteq Range(wire[k])
  BY Constants DEF Taken, Dwindles
<1>1. PrivateHolds'
  BY DEF IInv, PrivateHolds
<1>2. WordHolds'
  <2>1. ASSUME NEW p \in Posts, NEW s \in {"board", "timeline", "mail"},
               Belongs(p, s), <<SiteOf[s], p>> \notin shaken'
        PROVE  WordFrom(wire'[<<HomeOf[p], SiteOf[s]>>], p, held'[s][p], said'[p])
    <3>1. Steady(<<HomeOf[p], SiteOf[s]>>, p)
      BY <1>0, <2>1, Ways
    <3>2. QED
      BY <2>1, <3>1, WordKeeps DEF IInv
  <2>2. QED
    BY <2>1 DEF WordHolds
<1>3. HangsHold'
  <2>1. ASSUME NEW p \in Posts, <<"y", p>> \notin shaken'
        PROVE  Hangs(p)'
    <3>1. ToCome(p)' => ToCome(p)
      BY <1>0, Ways, ToComeKeeps
    <3>2. Hangs(p)
      BY <2>1 DEF IInv, HangsHold
    <3>3. Range(wire'[YX]) \subseteq Range(wire[YX])
      BY <1>0, Constants
    <3>4. QED
      BY <3>1, <3>2, <3>3, HangsKeeps
  <2>2. QED
    BY <2>1 DEF HangsHold
<1>4. QED
  BY <1>1, <1>2, <1>3

\* The handshake goes on undisturbed only if it did before.
LEMMA Settles ==
  ASSUME shaken \subseteq shaken', Settled'
  PROVE  Settled /\ <<"x", None>> \notin shaken' /\ <<"y", None>> \notin shaken'
<1>1. <<"x", None>> \notin shaken' /\ <<"y", None>> \notin shaken'
  BY DEF Settled
<1>2. Settled
  BY DEF Settled
<1>3. QED
  BY <1>1, <1>2

LEMMA ReceiveFollowKeeps ==
  ASSUME IInv, NEW i, ReceiveFollow(i)
  PROVE  IInv'
<1>0. Types
  BY DEF IInv
<1>1. /\ Received(XY, i) /\ wire[XY][i].act = "Follow"
      /\ subscribed' = TRUE /\ accepting' = TRUE
      /\ shaken' = shaken \cup Disturbed(XY, i)
      /\ UNCHANGED <<edge, held, under, recent, due, said, policy, purged, asks, report>>
  BY DEF ReceiveFollow, XY
<1>2. Taken(XY, i) /\ i \in DOMAIN wire[XY]
  BY <1>0, <1>1, Constants, Receives DEF Taken
<1>3. wire[XY][i] = FollowMsg
  BY <1>1, <1>2, Kinds, Handshakes DEF Taken
<1>4. Types'
  <2>1. shaken' \subseteq {"x", "y"} \X Subjects
    BY <1>0, <1>1, <1>2, Constants, Disturbs, Typed
  <2>2. QED
    BY <1>0, <1>1, <1>2, <2>1, Typed, TypesIf DEF Taken
<1>5. PrivateHolds' /\ WordHolds' /\ HangsHold'
  BY <1>1, <1>2, <1>3, Handshakes, Constants, ApartTaken
<1>6. ASSUME Settled' PROVE Settled /\ Took(wire[XY], wire'[XY], None, FollowMsg)
  <2>1. Settled /\ <<"x", None>> \notin shaken' /\ <<"y", None>> \notin shaken'
    BY <1>1, <1>6, Settles
  <2>2. QED
    BY <1>1, <1>2, <1>3, <2>1, Handshakes, Ends DEF Taken
<1>7. EdgeHolds'
  <2>1. ASSUME Settled' PROVE EdgeFrom(wire'[XY], wire'[YX], edge', subscribed', accepting')
    <3>1. EdgeFrom(wire[XY], wire[YX], edge, subscribed, accepting)
      BY <1>6, <2>1 DEF IInv, EdgeHolds
    <3>2. ~Has(wire'[XY], None) => edge # None
      BY <1>6, <2>1, <3>1, InRange, Handshakes DEF Took, EdgeFrom
    <3>3. ASSUME NEW m \in Range(wire'[XY]), LastOf(wire'[XY], None, m)
          PROVE  m.act = "Follow" <=> edge # None
      BY <1>6, <2>1, <3>1, <3>3, InRange DEF Took, EdgeFrom
    <3>4. QED
      BY <1>1, <3>2, <3>3 DEF EdgeFrom
  <2>2. QED
    BY <2>1 DEF EdgeHolds
<1>8. MirrorHolds'
  <2>1. ASSUME Settled', NEW p \in Posts \ Private, <<"x", p>> \notin shaken'
        PROVE  MirrorComes(p)'
    <3>1. MirrorComes(p) /\ Took(wire[XY], wire'[XY], None, FollowMsg)
      BY <1>1, <1>6, <2>1 DEF IInv, MirrorHolds
    <3>2. Steady(YX, p) /\ Ordered(p)
      BY <1>2, <2>1, Constants, Ends DEF Taken, Settled
    <3>3. EdgeStays'
      BY <1>1, <3>1 DEF MirrorComes, EdgeStays, Took
    <3>4. MirrorFrom(wire'[YX], p, held["mirror"][p], held["board"][p], p \in due)
      BY <3>1, <3>2, MirrorSame DEF MirrorComes, Steady
    <3>5. QED
      BY <1>1, <3>1, <3>2, <3>3, <3>4 DEF MirrorComes, Ordered
  <2>2. QED
    BY <2>1 DEF MirrorHolds
<1>9. QED
  BY <1>4, <1>5, <1>7, <1>8 DEF IInv

LEMMA ReceiveUndoKeeps ==
  ASSUME IInv, NEW i, ReceiveUndo(i)
  PROVE  IInv'
<1>0. Types
  BY DEF IInv
<1>1. /\ Received(XY, i) /\ wire[XY][i].act = "Undo"
      /\ subscribed' = FALSE
      /\ shaken' = shaken \cup Disturbed(XY, i)
      /\ UNCHANGED <<edge, accepting, held, under, recent, due, said, policy, purged, asks, report>>
  BY DEF ReceiveUndo, XY
<1>2. Taken(XY, i) /\ i \in DOMAIN wire[XY]
  BY <1>0, <1>1, Constants, Receives DEF Taken
<1>3. wire[XY][i] = UndoMsg /\ FollowMsg # UndoMsg
  BY <1>1, <1>2, Kinds, Handshakes DEF Taken
<1>4. Types'
  <2>1. shaken' \subseteq {"x", "y"} \X Subjects
    BY <1>0, <1>1, <1>2, Constants, Disturbs, Typed
  <2>2. QED
    BY <1>0, <1>1, <1>2, <2>1, Typed, TypesIf DEF Taken
<1>5. PrivateHolds' /\ WordHolds' /\ HangsHold'
  BY <1>1, <1>2, <1>3, Handshakes, Constants, ApartTaken
<1>6. ASSUME Settled' PROVE Settled /\ Took(wire[XY], wire'[XY], None, UndoMsg)
  <2>1. Settled /\ <<"x", None>> \notin shaken' /\ <<"y", None>> \notin shaken'
    BY <1>1, <1>6, Settles
  <2>2. QED
    BY <1>1, <1>2, <1>3, <2>1, Handshakes, Ends DEF Taken
<1>7. EdgeHolds'
  <2>1. ASSUME Settled' PROVE EdgeFrom(wire'[XY], wire'[YX], edge', subscribed', accepting')
    <3>1. EdgeFrom(wire[XY], wire[YX], edge, subscribed, accepting)
      BY <1>6, <2>1 DEF IInv, EdgeHolds
    <3>2. ~Has(wire'[XY], None) => edge = None
      BY <1>6, <2>1, <3>1, InRange, Handshakes DEF Took, EdgeFrom
    <3>3. ASSUME NEW m \in Range(wire'[XY]), LastOf(wire'[XY], None, m)
          PROVE  m.act = "Follow" <=> edge # None
      BY <1>6, <2>1, <3>1, <3>3, InRange DEF Took, EdgeFrom
    <3>4. In(wire[XY], None, FollowMsg) => In(wire'[XY], None, FollowMsg)
      BY <1>3, <1>6, <2>1 DEF Took
    <3>5. Has(wire'[YX], None) <=> Has(wire[YX], None)
      <4>1. Steady(YX, None)
        BY <1>2, <2>1, Constants, Ends DEF Taken, Settled
      <4>2. QED
        BY <4>1 DEF Steady, Same
    <3>6. QED
      BY <1>1, <3>1, <3>2, <3>3, <3>4, <3>5 DEF EdgeFrom
  <2>2. QED
    BY <2>1 DEF EdgeHolds
<1>8. MirrorHolds'
  <2>1. ASSUME Settled', NEW p \in Posts \ Private, <<"x", p>> \notin shaken'
        PROVE  FALSE
    <3>1. MirrorComes(p) /\ Took(wire[XY], wire'[XY], None, UndoMsg)
      BY <1>1, <1>6, <2>1 DEF IInv, MirrorHolds
    <3>2. QED
      BY <3>1 DEF MirrorComes, EdgeStays, Took
  <2>2. QED
    BY <2>1 DEF MirrorHolds
<1>9. QED
  BY <1>4, <1>5, <1>7, <1>8 DEF IInv

LEMMA ReceiveAcceptKeeps ==
  ASSUME IInv, NEW i, ReceiveAccept(i)
  PROVE  IInv'
<1>0. Types
  BY DEF IInv
<1>1. /\ Received(YX, i) /\ wire[YX][i].act = "Accept"
      /\ edge' = Accepted
      /\ shaken' = shaken \cup Disturbed(YX, i)
      /\ UNCHANGED <<subscribed, accepting, held, under, recent, due, said, policy, purged,
                     asks, report>>
  BY DEF ReceiveAccept, YX
<1>2. Taken(YX, i) /\ i \in DOMAIN wire[YX]
  BY <1>0, <1>1, Constants, Receives DEF Taken
<1>3. wire[YX][i] = AcceptMsg
  BY <1>1, <1>2, Kinds, Handshakes DEF Taken
<1>4. Types'
  <2>1. shaken' \subseteq {"x", "y"} \X Subjects
    BY <1>0, <1>1, <1>2, Constants, Disturbs, Typed
  <2>2. edge' \in {None, "pending", "accepted"}
    BY <1>1 DEF Accepted
  <2>3. QED
    BY <1>0, <1>1, <1>2, <2>1, <2>2, Typed, TypesIf DEF Taken
<1>5. PrivateHolds' /\ WordHolds' /\ HangsHold'
  BY <1>1, <1>2, <1>3, Handshakes, Constants, ApartTaken
<1>6. ASSUME Settled' PROVE Settled /\ Steady(XY, None)
  <2>1. Settled /\ <<"x", None>> \notin shaken' /\ <<"y", None>> \notin shaken'
    BY <1>1, <1>6, Settles
  <2>2. QED
    BY <1>1, <1>2, <2>1, Constants, Ends DEF Taken
<1>7. /\ edge' # None <=> edge # None
      /\ edge' # "pending"
      /\ edge # None => edge' = "accepted"
  BY <1>1 DEF Accepted, None
<1>8. EdgeHolds'
  <2>1. ASSUME Settled' PROVE EdgeFrom(wire'[XY], wire'[YX], edge', subscribed', accepting')
    <3>1. EdgeFrom(wire[XY], wire[YX], edge, subscribed, accepting)
      BY <1>6, <2>1 DEF IInv, EdgeHolds
    <3>2. ASSUME NEW m \in Range(wire'[XY]), LastOf(wire'[XY], None, m)
          PROVE  m.act = "Follow" <=> edge # None
      BY <1>6, <2>1, <3>1, <3>2, InRange DEF Steady, Same, EdgeFrom
    <3>3. Has(wire'[XY], None) <=> Has(wire[XY], None)
      BY <1>6, <2>1 DEF Steady, Same
    <3>4. QED
      BY <1>1, <1>7, <3>1, <3>2, <3>3 DEF EdgeFrom
  <2>2. QED
    BY <2>1 DEF EdgeHolds
<1>9. MirrorHolds'
  <2>1. ASSUME Settled', NEW p \in Posts \ Private, <<"x", p>> \notin shaken'
        PROVE  MirrorComes(p)'
    <3>1. MirrorComes(p) /\ Steady(XY, None)
      BY <1>1, <1>6, <2>1 DEF IInv, MirrorHolds
    <3>2. Has(wire[YX], None)
      BY <1>2, <1>3, Handshakes DEF Has
    <3>3. edge' = "accepted"
      BY <1>7, <3>1, <3>2 DEF MirrorComes, EdgeStays
    <3>4. EdgeStays'
      <4>1. In(wire'[XY], None, UndoMsg) <=> In(wire[XY], None, UndoMsg)
        BY <3>1 DEF Steady, Same
      <4>2. ~In(wire'[XY], None, UndoMsg) /\ edge' # None
        BY <1>7, <3>1, <3>2, <4>1 DEF MirrorComes, EdgeStays
      <4>3. QED
        BY <3>3, <4>2 DEF EdgeStays
    <3>5. Steady(YX, p)
      BY <1>2, <1>3, <2>1, Constants, Ends, Handshakes DEF Taken
    <3>6. MirrorFrom(wire'[YX], p, held["mirror"][p], held["board"][p], p \in due)
      BY <3>1, <3>5, MirrorSame DEF MirrorComes, Steady
    <3>7. QED
      BY <1>1, <3>3, <3>4, <3>6 DEF MirrorComes
  <2>2. QED
    BY <2>1 DEF MirrorHolds
<1>10. QED
  BY <1>4, <1>5, <1>8, <1>9 DEF IInv

-----------------------------------------------------------------------------
(* The board speaks to its subscriber. *)

\* What the board announces of post p, and the order it comes in.
LEMMA Announces ==
  ASSUME IInv, NEW m \in Message, Send(YX, m), Travels(YX, m),
         m.act \in {"Announced", "Withdrawn"}
  PROVE  /\ Sends(YX, m) /\ m.post \in Posts \ Private
         /\ \A q \in Posts : q # m.post => Ordered(q)
         /\ EdgeStays /\ subscribed /\ ~accepting /\ Open(wire'[YX], m.post)
              => edge = "accepted" \/ Open(wire[YX], m.post)
<1>0. Types /\ wire[YX] \in Seq(Message)
  BY Constants DEF IInv, Types
<1>1. Sends(YX, m) /\ wire'[YX] = Append(wire[YX], m)
  BY <1>0, Constants, SendSends
<1>2. m.post \in Posts \ Private
  BY Kinds, Handshakes
<1>3. \A q \in Posts : q # m.post => Ordered(q)
  BY <1>0, <1>1, OpenSent DEF Ordered
<1>4. ASSUME EdgeStays, subscribed, ~accepting, Open(wire'[YX], m.post),
             ~Open(wire[YX], m.post)
      PROVE  edge = "accepted"
  <2>1. \A k \in DOMAIN wire[YX] : wire[YX][k].act # "Accept"
    BY <1>0, <1>1, <1>4, OpenSent
  <2>2. ASSUME NEW k \in DOMAIN wire[YX] PROVE wire[YX][k].post # None
    <3>1. wire[YX][k] \in Message /\ Travels(YX, wire[YX][k])
      BY <1>0, <2>2, Constants DEF Types
    <3>2. QED
      BY <2>1, <3>1, Kinds, Handshakes, Constants
  <2>3. ~Has(wire[YX], None)
    BY <2>2 DEF Has
  <2>4. QED
    BY <1>4, <2>3 DEF EdgeStays
<1>5. QED
  BY <1>1, <1>2, <1>3, <1>4

LEMMA RelayKeeps ==
  ASSUME IInv, NEW p \in Posts, Relay(p)
  PROVE  IInv'
<1> DEFINE m == BoardAnnounce(p)
<1>0. Types
  BY DEF IInv
<1>1. /\ p \in due /\ due' = due \ {p}
      /\ shaken' = IF accepting \/ ~subscribed THEN shaken \cup {<<"x", p>>} ELSE shaken
      /\ UNCHANGED <<edge, subscribed, accepting, held, under, recent, said, policy, purged,
                     asks, upsets, report>>
      /\ shaken \subseteq shaken'
  BY DEF Relay
<1>2. \/ Send(YX, m) /\ held["board"][p] # 0 /\ subscribed
      \/ wire' = wire /\ ~(held["board"][p] # 0 /\ subscribed)
  BY DEF Relay, Relays, YX
<1>3. /\ m.act = "Announced" /\ m.post = p /\ m.ver = held["board"][p]
      /\ m.up = under["board"][p]
  BY DEF BoardAnnounce, WireParent, Msg
<1>4. m \in Message
  <2>1. held["board"][p] \in 0 .. MaxVer
    BY <1>0, Typed, Constants
  <2>2. under["board"][p] \in Subjects
    BY <1>0, Typed
  <2>3. QED
    BY <2>1, <2>2 DEF BoardAnnounce, WireParent, Msg, Message, Acts, Subjects
<1> HIDE DEF m
<1>5. held["board"][p] # 0 => p \notin Private /\ Travels(YX, m)
  <2>1. held["board"][p] # 0 => p \notin Private
    BY DEF IInv, PrivateHolds
  <2>2. QED
    BY <1>3, <1>4, <2>1, Kinds
<1>6. \/ /\ held["board"][p] # 0 /\ subscribed /\ p \notin Private
         /\ Sends(YX, m)
         /\ \A q \in Posts : q # p => Ordered(q)
         /\ EdgeStays /\ ~accepting /\ Open(wire'[YX], p)
              => edge = "accepted" \/ Open(wire[YX], p)
      \/ wire' = wire /\ LeftAlone /\ ~(held["board"][p] # 0 /\ subscribed)
  BY <1>0, <1>2, <1>3, <1>4, <1>5, Announces, Untouched
<1>7. /\ Lawful /\ \A q : q # p => Steady(YX, q)
      /\ \A k \in Links : k # YX => wire'[k] = wire[k]
      /\ \A k \in Links : \A q : k # YX => Steady(k, q)
      /\ \A n \in Range(wire'[YX]) : n \in Range(wire[YX]) \/ (n = m /\ held["board"][p] # 0)
      /\ \A q \in Posts : q # p => Ordered(q)
  <2>1. CASE held["board"][p] # 0 /\ Sends(YX, m) /\ \A q \in Posts : q # p => Ordered(q)
    BY <1>3, <2>1, Constants DEF Sends
  <2>2. CASE wire' = wire /\ LeftAlone
    BY <2>2, SameIsSame DEF LeftAlone, Steady, Ordered
  <2>3. QED
    BY <1>6, <2>1, <2>2
<1>8. Types'
  <2>1. shaken' \subseteq {"x", "y"} \X Subjects
    BY <1>0, <1>1, Typed DEF Subjects
  <2>2. QED
    BY <1>0, <1>1, <1>7, <2>1, Typed, TypesIf
<1>9. PrivateHolds'
  BY <1>1 DEF IInv, PrivateHolds
<1>10. EdgeSteady
  BY <1>1, <1>7, Settles, Constants, Ends DEF EdgeSteady
<1>11. EdgeHolds'
  BY <1>1, <1>10, EdgeKeeps DEF IInv
<1>12. WordHolds'
  <2>1. ASSUME NEW q \in Posts, NEW s \in {"board", "timeline", "mail"},
               Belongs(q, s), <<SiteOf[s], q>> \notin shaken'
        PROVE  WordFrom(wire'[<<HomeOf[q], SiteOf[s]>>], q, held'[s][q], said'[q])
    <3>1. <<HomeOf[q], SiteOf[s]>> \in Links /\ <<HomeOf[q], SiteOf[s]>> # YX
      BY <2>1, Ways, Ends
    <3>2. Steady(<<HomeOf[q], SiteOf[s]>>, q)
      BY <1>7, <3>1
    <3>3. QED
      BY <1>1, <2>1, <3>2, WordKeeps DEF IInv
  <2>2. QED
    BY <2>1 DEF WordHolds
<1>13. MirrorHolds'
  <2>1. ASSUME Settled', NEW q \in Posts \ Private, <<"x", q>> \notin shaken'
        PROVE  MirrorComes(q)'
    <3>1. CASE q # p
      <4>1. Steady(YX, q) /\ Ordered(q) /\ (q \in due' <=> q \in due)
        BY <1>1, <1>7, <3>1
      <4>2. QED
        BY <1>1, <1>10, <2>1, <4>1, MirrorKeeps DEF IInv
    <3>2. CASE q = p
      <4>1. subscribed /\ ~accepting /\ <<"x", p>> \notin shaken
        BY <1>1, <2>1, <3>2
      <4>2. MirrorComes(p) /\ Steady(XY, None) /\ Steady(YX, None)
        BY <1>1, <1>10, <2>1, <3>2, <4>1 DEF IInv, MirrorHolds, EdgeSteady
      <4>3. EdgeStays /\ EdgeStays'
        BY <1>1, <4>2, StaysKeeps DEF MirrorComes
      <4>4. Open(wire'[YX], p) => edge' = "accepted"
        BY <1>1, <1>6, <4>1, <4>2, <4>3 DEF MirrorComes
      <4>5. MirrorFrom(wire[YX], p, held["mirror"][p], held["board"][p], p \in due)
        BY <4>2 DEF MirrorComes
      <4>6. p \notin due' /\ (p \in due') = FALSE
        BY <1>1
      <4>7. MirrorFrom(wire'[YX], p, held["mirror"][p], held["board"][p], FALSE)
        <5>1. CASE held["board"][p] # 0
          <6>1. held["board"][p] = 1
            BY <4>5, <5>1 DEF MirrorFrom
          <6>2. Sent(wire[YX], wire'[YX], p, m)
            BY <1>3, <1>6, <4>1, <5>1 DEF Sends
          <6>3. m.act = "Announced" /\ m.ver = 1 /\ 1 \in {0, 1}
            BY <1>3, <6>1
          <6>4. MirrorFrom(wire'[YX], p, held["mirror"][p], 1, FALSE)
            BY <4>5, <6>2, <6>3, MirrorSent
          <6>5. QED
            BY <6>1, <6>4
        <5>2. CASE held["board"][p] = 0
          <6>1. wire' = wire /\ (p \in due) \in BOOLEAN
            BY <1>6, <5>2
          <6>2. MirrorFrom(wire[YX], p, held["mirror"][p], 0, p \in due)
            BY <4>5, <5>2
          <6>3. MirrorFrom(wire[YX], p, held["mirror"][p], 0, FALSE)
            BY <6>1, <6>2, MirrorForgotten
          <6>4. QED
            BY <5>2, <6>1, <6>3
        <5>3. QED
          BY <5>1, <5>2
      <4>8. QED
        BY <1>1, <3>2, <4>3, <4>4, <4>6, <4>7 DEF MirrorComes
    <3>3. QED
      BY <3>1, <3>2
  <2>2. QED
    BY <2>1 DEF MirrorHolds
<1>14. HangsHold'
  <2>1. ASSUME NEW q \in Posts, <<"y", q>> \notin shaken'
        PROVE  Hangs(q)'
    <3>1. Hangs(q)
      BY <1>1, <2>1 DEF IInv, HangsHold
    <3>2. wire'[<<HomeOf[q], "y">>] = wire[<<HomeOf[q], "y">>]
      BY <1>7, Ways, Ends
    <3>3. ToCome(q)' => ToCome(q)
      BY <1>1, <3>2, ToComeKeeps
    <3>4. ASSUME NEW n \in Range(wire'[YX]), n.act = "Announced", n.post = q
          PROVE  ~ToCome(q)' /\ n.up = under'["board"][q]
      <4>1. CASE n \in Range(wire[YX])
        BY <1>1, <3>1, <3>3, <3>4, <4>1 DEF Hangs
      <4>2. CASE n = m /\ q = p
        BY <1>1, <1>3, <3>1, <3>3, <4>2 DEF Hangs
      <4>3. QED
        BY <1>3, <1>7, <3>4, <4>1, <4>2
    <3>5. QED
      BY <1>1, <3>1, <3>3, <3>4 DEF Hangs
  <2>2. QED
    BY <2>1 DEF HangsHold
<1>15. QED
  BY <1>8, <1>9, <1>11, <1>12, <1>13, <1>14 DEF IInv

LEMMA ModerateKeeps ==
  ASSUME IInv, NEW p \in Posts, Moderate(p)
  PROVE  IInv'
<1> DEFINE m == BoardDelete(p)
<1>0. Types
  BY DEF IInv
<1>1. /\ held["board"][p] # 0
      /\ held' = [held EXCEPT !["board"][p] = 0]
      /\ shaken' = shaken \cup {<<"y", p>>}
                          \cup (IF accepting \/ ~subscribed THEN {<<"x", p>>} ELSE {})
      /\ UNCHANGED <<edge, subscribed, accepting, under, recent, due, said, policy, purged,
                     asks, upsets, report>>
      /\ shaken \subseteq shaken'
  BY DEF Moderate
<1>2. IF subscribed THEN Send(YX, m) ELSE wire' = wire
  BY DEF Moderate, YX
<1>3. m.act = "Withdrawn" /\ m.post = p
  BY DEF BoardDelete, Msg
<1>4. m \in Message
  BY Constants DEF BoardDelete, Msg, Message, Acts, Subjects
<1> HIDE DEF m
<1>5. p \notin Private /\ Travels(YX, m)
  <2>1. p \notin Private
    BY <1>1 DEF IInv, PrivateHolds
  <2>2. QED
    BY <1>3, <1>4, <2>1, Kinds
<1>6. \/ /\ subscribed
         /\ Sends(YX, m)
         /\ \A q \in Posts : q # p => Ordered(q)
         /\ EdgeStays /\ ~accepting /\ Open(wire'[YX], p)
              => edge = "accepted" \/ Open(wire[YX], p)
      \/ wire' = wire /\ LeftAlone /\ ~subscribed
  BY <1>0, <1>2, <1>3, <1>4, <1>5, Announces, Untouched
<1>7. /\ Lawful /\ \A q : q # p => Steady(YX, q)
      /\ \A k \in Links : k # YX => wire'[k] = wire[k]
      /\ \A k \in Links : \A q : k # YX => Steady(k, q)
      /\ \A n \in Range(wire'[YX]) : n \in Range(wire[YX]) \/ n = m
      /\ \A q \in Posts : q # p => Ordered(q)
  <2>1. CASE Sends(YX, m) /\ \A q \in Posts : q # p => Ordered(q)
    BY <1>3, <2>1, Constants DEF Sends
  <2>2. CASE wire' = wire /\ LeftAlone
    BY <2>2, SameIsSame DEF LeftAlone, Steady, Ordered
  <2>3. QED
    BY <1>6, <2>1, <2>2
<1>8. /\ \A s \in Range(Stores), q \in Posts :
           held'[s][q] = IF s = "board" /\ q = p THEN 0 ELSE held[s][q]
      /\ held' \in [Range(Stores) -> [Posts -> 0 .. MaxVer]]
      /\ Range(Stores) = {"board", "timeline", "mirror", "mail"}
  <2>1. held \in [Range(Stores) -> [Posts -> 0 .. MaxVer]] /\ "board" \in Range(Stores)
    BY <1>0, Typed, Constants
  <2>2. 0 \in 0 .. MaxVer
    BY Constants
  <2>3. QED
    BY <1>1, <2>1, <2>2, Constants
<1>9. Types'
  <2>1. shaken' \subseteq {"x", "y"} \X Subjects
    BY <1>0, <1>1, Typed DEF Subjects
  <2>2. QED
    BY <1>0, <1>1, <1>7, <1>8, <2>1, Typed, TypesIf
<1>10. PrivateHolds'
  BY <1>5, <1>8, Constants DEF IInv, PrivateHolds
<1>11. EdgeSteady
  BY <1>1, <1>5, <1>7, Settles, Constants, Ends DEF EdgeSteady
<1>12. EdgeHolds'
  BY <1>1, <1>11, EdgeKeeps DEF IInv
<1>13. WordHolds'
  <2>1. ASSUME NEW q \in Posts, NEW s \in {"board", "timeline", "mail"},
               Belongs(q, s), <<SiteOf[s], q>> \notin shaken'
        PROVE  WordFrom(wire'[<<HomeOf[q], SiteOf[s]>>], q, held'[s][q], said'[q])
    <3>1. <<HomeOf[q], SiteOf[s]>> \in Links /\ <<HomeOf[q], SiteOf[s]>> # YX
      BY <2>1, Ways, Ends
    <3>2. Steady(<<HomeOf[q], SiteOf[s]>>, q)
      BY <1>7, <3>1
    <3>3. ~(s = "board" /\ q = p)
      BY <1>1, <2>1, Ways
    <3>4. held'[s][q] = held[s][q]
      BY <1>8, <3>3
    <3>5. QED
      BY <1>1, <2>1, <3>2, <3>4, WordKeeps DEF IInv
  <2>2. QED
    BY <2>1 DEF WordHolds
<1>14. MirrorHolds'
  <2>1. ASSUME Settled', NEW q \in Posts \ Private, <<"x", q>> \notin shaken'
        PROVE  MirrorComes(q)'
    <3>1. CASE q # p
      <4>1. /\ Steady(YX, q) /\ Ordered(q)
            /\ held'["mirror"][q] = held["mirror"][q]
            /\ held'["board"][q] = held["board"][q]
        BY <1>7, <1>8, <3>1
      <4>2. QED
        BY <1>1, <1>11, <2>1, <4>1, MirrorKeeps DEF IInv
    <3>2. CASE q = p
      <4>1. subscribed /\ ~accepting /\ <<"x", p>> \notin shaken
        BY <1>1, <2>1, <3>2
      <4>2. MirrorComes(p) /\ Steady(XY, None) /\ Steady(YX, None)
        BY <1>1, <1>5, <1>11, <2>1, <3>2, <4>1 DEF IInv, MirrorHolds, EdgeSteady
      <4>3. EdgeStays /\ EdgeStays'
        BY <1>1, <4>2, StaysKeeps DEF MirrorComes
      <4>4. Open(wire'[YX], p) => edge' = "accepted"
        BY <1>1, <1>6, <4>1, <4>2, <4>3 DEF MirrorComes
      <4>5. MirrorFrom(wire[YX], p, held["mirror"][p], held["board"][p], p \in due)
        BY <4>2 DEF MirrorComes
      <4>6. Sent(wire[YX], wire'[YX], p, m)
        BY <1>3, <1>6, <4>1 DEF Sends
      <4>7. MirrorFrom(wire'[YX], p, held["mirror"][p], 0, p \in due)
        BY <1>3, <4>5, <4>6, MirrorSent
      <4>8. held'["mirror"][p] = held["mirror"][p] /\ held'["board"][p] = 0
        BY <1>8
      <4>9. QED
        BY <1>1, <3>2, <4>3, <4>4, <4>7, <4>8 DEF MirrorComes
    <3>3. QED
      BY <3>1, <3>2
  <2>2. QED
    BY <2>1 DEF MirrorHolds
<1>15. HangsHold'
  <2>1. ASSUME NEW q \in Posts, <<"y", q>> \notin shaken'
        PROVE  Hangs(q)'
    <3>1. Hangs(q) /\ q # p
      BY <1>1, <2>1 DEF IInv, HangsHold
    <3>2. wire'[<<HomeOf[q], "y">>] = wire[<<HomeOf[q], "y">>]
      BY <1>7, Ways, Ends
    <3>3. ToCome(q)' => ToCome(q)
      BY <1>1, <3>2, ToComeKeeps
    <3>4. \A n \in Range(wire'[YX]) :
             n.act = "Announced" /\ n.post = q => n \in Range(wire[YX])
      BY <1>3, <1>7
    <3>5. /\ held'["mirror"][q] = held["mirror"][q]
          /\ held'["board"][q] = held["board"][q]
      BY <1>8, <3>1
    <3>6. QED
      BY <1>1, <3>1, <3>3, <3>4, <3>5, HangsKeeps
  <2>2. QED
    BY <2>1 DEF HangsHold
<1>16. QED
  BY <1>9, <1>10, <1>12, <1>13, <1>14, <1>15 DEF IInv

-----------------------------------------------------------------------------
(* Deliveries about a post. *)

\* What came for the board or for the stores of x leaves the mirror as it was.
LEMMA MirrorRests ==
  ASSUME IInv, NEW l \in Links, NEW i, Taken(l, i), NEW p \in Posts, wire[l][i].post = p,
         l # YX, shaken \subseteq shaken',
         UNCHANGED <<edge, subscribed, accepting, under, due>>,
         Settled', <<"x", p>> \notin shaken', p \notin Private,
         held'["mirror"][p] = held["mirror"][p], held'["board"][p] = held["board"][p]
  PROVE  MirrorComes(p)'
<1>1. p # None /\ Steady(YX, p) /\ Ordered(p)
  BY Settles, Constants, Ends DEF Taken
<1>2. EdgeSteady
  BY <1>1, HandshakeGoesOn
<1>3. QED
  BY <1>1, <1>2, MirrorKeeps DEF IInv

LEMMA HangsRests ==
  ASSUME IInv, NEW l \in Links, NEW i, Taken(l, i), NEW p \in Posts,
         shaken \subseteq shaken', <<"y", p>> \notin shaken',
         UNCHANGED <<under, due, said>>,
         held'["mirror"][p] # 0 => held["mirror"][p] # 0,
         held'["board"][p] # 0 => held["board"][p] # 0
  PROVE  Hangs(p)'
<1>1. /\ Range(wire'[YX]) \subseteq Range(wire[YX])
      /\ Range(wire'[<<HomeOf[p], "y">>]) \subseteq Range(wire[<<HomeOf[p], "y">>])
  BY Constants, Ways DEF Taken, Dwindles
<1>2. ToCome(p)' => ToCome(p)
  BY <1>1, ToComeKeeps
<1>3. Hangs(p)
  BY DEF IInv, HangsHold
<1>4. QED
  BY <1>1, <1>2, <1>3, HangsKeeps

\* A Create that comes in its turn finds nothing, what follows it something.
LEMMA FindsIt ==
  ASSUME IInv, NEW l \in Links, NEW i, Taken(l, i), NEW p \in Posts, wire[l][i].post = p,
         NEW s \in {"board", "timeline", "mail"}, Belongs(p, s),
         l = <<HomeOf[p], SiteOf[s]>>, shaken \subseteq shaken', <<SiteOf[s], p>> \notin shaken'
  PROVE  /\ WordFrom(wire[l], p, held[s][p], said[p])
         /\ Took(wire[l], wire'[l], p, wire[l][i])
         /\ wire[l][i].act = "Create" <=> held[s][p] = 0
<1>1. l[2] = SiteOf[s]
  BY Ways
<1>2. Took(wire[l], wire'[l], p, wire[l][i])
  BY <1>1 DEF Taken
<1>3. WordFrom(wire[l], p, held[s][p], said[p])
  BY DEF IInv, WordHolds
<1>4. wire[l][i] \in Range(wire[l]) /\ FirstOf(wire[l], p, wire[l][i])
  BY <1>2 DEF Taken, Took
<1>5. QED
  BY <1>2, <1>3, <1>4 DEF WordFrom

LEMMA ReceiveNoteKeeps ==
  ASSUME IInv, NEW i, ReceiveNote(i)
  PROVE  IInv'
<1>0. Types
  BY DEF IInv
<1>a. /\ Received(ZX, i) /\ wire[ZX][i].act = "Create"
      /\ shaken \cup Disturbed(ZX, i) \subseteq shaken'
  BY DEF ReceiveNote, ZX
<1>2. Taken(ZX, i) /\ i \in DOMAIN wire[ZX] /\ shaken \subseteq shaken'
  BY <1>0, <1>a, Constants, Receives DEF Taken
<1>b. PICK m \in Message : m = wire[ZX][i]
  BY <1>2 DEF Taken
<1>c. m.post \in Posts /\ HomeOf[m.post] = "z" /\ m.ver = 1
  BY <1>2, <1>a, <1>b, Kinds DEF Taken
<1>d. PICK p \in Posts : p = m.post
  BY <1>c
<1> DEFINE s == Routed(p)
           taken == IF s = "mail" THEN TakesMail ELSE TakesStatus
<1>1. /\ Received(ZX, i) /\ m.act = "Create"
      /\ held' = IF taken THEN Stored(s, p, m.ver) ELSE held
      /\ shaken' = shaken \cup Disturbed(ZX, i) \cup (IF taken THEN {} ELSE {<<"x", p>>})
      /\ UNCHANGED <<edge, subscribed, accepting, under, recent, due, said, policy, purged,
                     asks, report>>
  BY <1>b, <1>d DEF ReceiveNote, ZX
<1>3. p \in Posts /\ HomeOf[p] = "z" /\ m.ver = 1
  BY <1>c, <1>d
<1>4. s = IF p \in Private THEN "mail" ELSE "timeline"
  BY DEF Routed
<1>15. wire[ZX][i].post = p /\ wire[ZX][i].act # "Accept"
  BY <1>1, <1>b, <1>d
<1> HIDE DEF s, taken
<1>5. \/ /\ taken /\ held[s][p] = 0 /\ held' = [held EXCEPT ![s][p] = 1]
      \/ /\ held' = held /\ (taken => held[s][p] # 0)
  BY <1>1, <1>3 DEF Stored
<1>6. /\ s \in {"timeline", "mail"}
      /\ held \in [Range(Stores) -> [Posts -> 0 .. MaxVer]]
      /\ Range(Stores) = {"board", "timeline", "mirror", "mail"}
      /\ 1 \in 0 .. MaxVer
  BY <1>0, <1>4, Typed, Constants
<1>7. /\ held' \in [Range(Stores) -> [Posts -> 0 .. MaxVer]]
      /\ \A q \in Posts, t \in Range(Stores) : ~(q = p /\ t = s) => held'[t][q] = held[t][q]
  <2>1. CASE held' = [held EXCEPT ![s][p] = 1]
    BY <1>3, <1>6, <2>1
  <2>2. CASE held' = held
    BY <1>6, <2>2
  <2>3. QED
    BY <1>5, <2>1, <2>2
<1>8. Types'
  <2>1. shaken' \subseteq {"x", "y"} \X Subjects
    <3>1. Disturbed(ZX, i) \subseteq {"x", "y"} \X Subjects
      BY <1>0, <1>2, Constants, Disturbs
    <3>2. <<"x", p>> \in {"x", "y"} \X Subjects
      BY <1>3 DEF Subjects
    <3>3. QED
      BY <1>0, <1>1, <3>1, <3>2, Typed
  <2>2. QED
    BY <1>0, <1>1, <1>2, <1>7, <2>1, Typed, TypesIf DEF Taken
<1>9. ASSUME p \in Private, NEW t \in {"board", "mirror", "timeline"} PROVE held'[t][p] = 0
  BY <1>4, <1>6, <1>7, <1>9 DEF IInv, PrivateHolds
<1>10. ASSUME NEW t \in {"board", "timeline", "mail"}, Belongs(p, t),
              <<SiteOf[t], p>> \notin shaken'
       PROVE  \/ /\ ZX # <<HomeOf[p], SiteOf[t]>>
                 /\ held'[t][p] = held[t][p]
              \/ WordFrom(wire'[<<HomeOf[p], SiteOf[t]>>], p, held'[t][p], said[p])
  <2>1. CASE t = "board"
    <3>1. ZX # <<HomeOf[p], SiteOf[t]>>
      BY <1>3, <2>1, Ways DEF ZX
    <3>2. QED
      BY <1>6, <1>7, <2>1, <3>1
  <2>2. CASE t # "board"
    <3>1. t = s /\ ZX = <<HomeOf[p], SiteOf[t]>> /\ SiteOf[t] = "x"
      BY <1>3, <1>4, <1>10, <2>2, Ways DEF Belongs
    <3>2. /\ WordFrom(wire[ZX], p, held[s][p], said[p])
          /\ Took(wire[ZX], wire'[ZX], p, m)
          /\ m.act = "Create" <=> held[s][p] = 0
      <4>1. ZX \in Links
        BY Constants
      <4>2. /\ WordFrom(wire[ZX], p, held[t][p], said[p])
            /\ Took(wire[ZX], wire'[ZX], p, wire[ZX][i])
            /\ wire[ZX][i].act = "Create" <=> held[t][p] = 0
        BY <1>2, <1>10, <1>15, <3>1, <4>1, FindsIt
      <4>3. QED
        BY <1>b, <3>1, <4>2
    <3>3. held'[s][p] = 1
      <4>1. taken
        BY <1>1, <1>10, <3>1
      <4>2. held' = [held EXCEPT ![s][p] = 1]
        BY <1>1, <1>5, <3>2, <4>1
      <4>3. QED
        BY <1>3, <1>6, <4>2
    <3>4. said[p] \in 0 .. Gone
      BY <1>0, <1>3, Typed
    <3>5. WordFrom(wire'[ZX], p, 1, said[p])
      BY <1>1, <1>6, <3>2, <3>4, WordTaken
    <3>6. QED
      BY <3>1, <3>3, <3>5
  <2>3. QED
    BY <2>1, <2>2
<1>11. held'["mirror"][p] = held["mirror"][p] /\ held'["board"][p] = held["board"][p]
  BY <1>3, <1>6, <1>7
<1>12. ASSUME p \notin Private, Settled', <<"x", p>> \notin shaken' PROVE MirrorComes(p)'
  BY <1>1, <1>2, <1>3, <1>11, <1>12, <1>15, Constants, Ends, MirrorRests
<1>13. ASSUME <<"y", p>> \notin shaken' PROVE Hangs(p)'
  BY <1>1, <1>2, <1>3, <1>11, <1>13, Constants, HangsRests
<1>14. OnlyAbout(p)
  BY <1>1, <1>7 DEF OnlyAbout
<1>16. WordGoesOn(ZX, p)
  BY <1>10 DEF WordGoesOn
<1>17. RestGoesOn(p)
  BY <1>9, <1>12, <1>13 DEF RestGoesOn
<1>18. ZX \in Links /\ UNCHANGED <<edge, subscribed, accepting, said>>
  BY <1>1, Constants
<1>19. QED
  BY <1>2, <1>8, <1>14, <1>15, <1>16, <1>17, <1>18, Delivers

\* The store a change of a post is for.
LEMMA Aims ==
  ASSUME Types, NEW p \in Posts
  PROVE  /\ Target("y", p) = IF held["board"][p] # 0 THEN "board" ELSE None
         /\ Target("x", p) = IF held["timeline"][p] # 0 THEN "timeline"
                             ELSE IF held["mirror"][p] # 0 THEN "mirror"
                             ELSE IF held["mail"][p] # 0 THEN "mail" ELSE None
<1>1. /\ DOMAIN Stores = {1, 2, 3, 4}
      /\ Stores[1] = "board" /\ Stores[2] = "timeline"
      /\ Stores[3] = "mirror" /\ Stores[4] = "mail"
  BY DEF Stores
<1>2. /\ SiteOf["board"] = "y" /\ SiteOf["timeline"] = "x" /\ SiteOf["mail"] = "x"
      /\ SiteOf["mirror"] = "x"
  BY DEF SiteOf
<1> DEFINE has(site) == {k \in DOMAIN Stores : SiteOf[Stores[k]] = site /\ held[Stores[k]][p] # 0}
<1>3. \A site : Target(site, p) = IF has(site) = {} THEN None ELSE Stores[Min(has(site))]
  BY DEF Target
<1>4. /\ has("y") = {k \in {1} : held["board"][p] # 0}
      /\ \A k : k \in has("x") <=> \/ k = 2 /\ held["timeline"][p] # 0
                                   \/ k = 3 /\ held["mirror"][p] # 0
                                   \/ k = 4 /\ held["mail"][p] # 0
  BY <1>1, <1>2
<1>5. ASSUME NEW S, NEW k \in S, S \subseteq Int, \A j \in S : k <= j
      PROVE  Min(S) = k
  <2>1. Min(S) \in S /\ \A j \in S : Min(S) <= j
    BY <1>5 DEF Min
  <2>2. Min(S) \in Int /\ k \in Int /\ Min(S) <= k /\ k <= Min(S)
    BY <1>5, <2>1
  <2>3. QED
    BY <2>2
<1> HIDE DEF has
<1>6. Target("y", p) = IF held["board"][p] # 0 THEN "board" ELSE None
  <2>1. CASE held["board"][p] # 0
    <3>1. has("y") = {1}
      BY <1>4, <2>1
    <3>2. Min(has("y")) = 1
      BY <1>5, <3>1
    <3>3. QED
      BY <1>1, <1>3, <2>1, <3>1, <3>2
  <2>2. CASE held["board"][p] = 0
    BY <1>3, <1>4, <2>2
  <2>3. QED
    BY <2>1, <2>2
<1>7. has("x") \subseteq Int /\ \A k \in has("x") : k \in {2, 3, 4}
  BY <1>4
<1>8. CASE held["timeline"][p] # 0
  <2>1. 2 \in has("x") /\ \A k \in has("x") : 2 <= k
    BY <1>4, <1>7, <1>8
  <2>2. Min(has("x")) = 2
    BY <1>5, <1>7, <2>1
  <2>3. QED
    BY <1>1, <1>3, <1>6, <1>8, <2>1, <2>2
<1>9. CASE held["timeline"][p] = 0 /\ held["mirror"][p] # 0
  <2>1. 3 \in has("x") /\ \A k \in has("x") : 3 <= k
    BY <1>4, <1>7, <1>9
  <2>2. Min(has("x")) = 3
    BY <1>5, <1>7, <2>1
  <2>3. QED
    BY <1>1, <1>3, <1>6, <1>9, <2>1, <2>2
<1>10. CASE held["timeline"][p] = 0 /\ held["mirror"][p] = 0 /\ held["mail"][p] # 0
  <2>1. 4 \in has("x") /\ \A k \in has("x") : 4 <= k
    BY <1>4, <1>7, <1>10
  <2>2. Min(has("x")) = 4
    BY <1>5, <1>7, <2>1
  <2>3. QED
    BY <1>1, <1>3, <1>6, <1>10, <2>1, <2>2
<1>11. CASE held["timeline"][p] = 0 /\ held["mirror"][p] = 0 /\ held["mail"][p] = 0
  <2>1. has("x") = {}
    BY <1>4, <1>11
  <2>2. QED
    BY <1>3, <1>6, <1>11, <2>1
<1>12. QED
  BY <1>8, <1>9, <1>10, <1>11

\* An edit or a withdrawal, b being what becomes of the text.
Changes(l, i, b) ==
  LET m == wire[l][i] IN LET s == Target(l[2], m.post) IN
  /\ l[1] = "z" /\ Received(l, i)
  /\ \/ m.act = "Update" /\ b = m.ver
     \/ m.act = "Delete" /\ b = 0
  /\ held' = IF s = None THEN held ELSE [held EXCEPT ![s][m.post] = b]
  /\ shaken' = shaken \cup Disturbed(l, i) \cup {<<"x", m.post>> : z \in {l[2]} \cap {"y"}}
  /\ UNCHANGED <<edge, subscribed, accepting, under, recent, due, said, policy, purged,
                 asks, report>>

LEMMA ChangeKeeps ==
  ASSUME IInv, NEW l \in Links, NEW i, NEW b, Changes(l, i, b)
  PROVE  IInv'
<1>0. Types
  BY DEF IInv
<1>a. /\ l[1] = "z" /\ Received(l, i)
      /\ \/ wire[l][i].act = "Update" /\ b = wire[l][i].ver
         \/ wire[l][i].act = "Delete" /\ b = 0
  BY DEF Changes
<1>b. UNCHANGED <<edge, subscribed, accepting, under, recent, due, said, policy, purged,
                  asks, report>>
  BY DEF Changes
<1>1. shaken \cup Disturbed(l, i) \subseteq shaken' /\ shaken \subseteq shaken'
  BY DEF Changes
<1>2. Taken(l, i) /\ i \in DOMAIN wire[l]
  BY <1>0, <1>1, <1>a, Receives DEF Taken
<1>3. PICK m \in Message : m = wire[l][i]
  BY <1>2 DEF Taken
<1>4. /\ m.post \in Posts /\ HomeOf[m.post] = "z"
      /\ l = ZX \/ (l = ZY /\ m.post \notin Private)
      /\ b \in 0 .. MaxVer
      /\ \/ m.act = "Update" /\ b = m.ver /\ b # 0
         \/ m.act = "Delete" /\ b = 0
  <2>1. l = ZX \/ l = ZY
    BY <1>a, Constants, Ends
  <2>2. m.ver \in 0 .. MaxVer /\ 0 \in 0 .. MaxVer /\ Travels(l, m)
    BY <1>2, <1>3, Constants DEF Taken, Message
  <2>3. \/ m.act = "Update" /\ b = m.ver
        \/ m.act = "Delete" /\ b = 0
    BY <1>3, <1>a
  <2>4. QED
    BY <1>3, <2>1, <2>2, <2>3, Kinds
<1>5. PICK p \in Posts : p = m.post
  BY <1>4
<1>6. PICK s : s = Target(l[2], p)
  OBVIOUS
<1>7. /\ held' = IF s = None THEN held ELSE [held EXCEPT ![s][p] = b]
      /\ l[2] = "y" => <<"x", p>> \in shaken'
      /\ shaken' \subseteq shaken \cup Disturbed(l, i) \cup {<<"x", p>>}
      /\ wire[l][i].post = p /\ wire[l][i].act # "Accept" /\ wire[l][i].act # "Create"
  <2>1. \A z \in {l[2]} \cap {"y"} : l[2] = "y"
    OBVIOUS
  <2>2. /\ l[2] = "y" => <<"x", p>> \in shaken'
        /\ shaken' \subseteq shaken \cup Disturbed(l, i) \cup {<<"x", p>>}
    BY <1>3, <1>5, <2>1 DEF Changes
  <2>3. held' = IF s = None THEN held ELSE [held EXCEPT ![s][p] = b]
    BY <1>3, <1>5, <1>6 DEF Changes
  <2>4. QED
    BY <1>3, <1>5, <1>a, <2>2, <2>3
<1>8. /\ l = ZY => s = IF held["board"][p] # 0 THEN "board" ELSE None
      /\ l = ZX => s = IF held["timeline"][p] # 0 THEN "timeline"
                       ELSE IF held["mirror"][p] # 0 THEN "mirror"
                       ELSE IF held["mail"][p] # 0 THEN "mail" ELSE None
  BY <1>0, <1>6, Aims, Ends
<1>9. /\ held \in [Range(Stores) -> [Posts -> 0 .. MaxVer]]
      /\ Range(Stores) = {"board", "timeline", "mirror", "mail"}
      /\ s \in Range(Stores) \cup {None} /\ None \notin Range(Stores)
  <2>1. Range(Stores) = {"board", "timeline", "mirror", "mail"} /\ None = "none"
    BY Constants DEF None
  <2>2. QED
    BY <1>0, <1>4, <1>8, <2>1, Typed
<1>10. /\ held' \in [Range(Stores) -> [Posts -> 0 .. MaxVer]]
       /\ \A t \in Range(Stores), q \in Posts :
             held'[t][q] = IF t = s /\ q = p THEN b ELSE held[t][q]
  <2>1. CASE s = None
    BY <1>7, <1>9, <2>1
  <2>2. CASE s # None
    BY <1>4, <1>7, <1>9, <2>2
  <2>3. QED
    BY <2>1, <2>2
<1>11. Types'
  <2>1. shaken' \subseteq {"x", "y"} \X Subjects
    <3>1. Disturbed(l, i) \subseteq {"x", "y"} \X Subjects
      BY <1>0, <1>2, Disturbs
    <3>2. <<"x", p>> \in {"x", "y"} \X Subjects
      BY DEF Subjects
    <3>3. QED
      BY <1>0, <1>7, <3>1, <3>2, Typed
  <2>2. QED
    BY <1>0, <1>2, <1>b, <1>10, <2>1, Typed, TypesIf DEF Taken
<1>12. \A t \in {"board", "timeline", "mirror", "mail"} :
          held[t][p] = 0 => t # s
  BY <1>4, <1>8, Ends DEF None
<1>13. p \in Private => \A t \in {"board", "mirror", "timeline"} : held'[t][p] = 0
  BY <1>9, <1>10, <1>12 DEF IInv, PrivateHolds
<1>14. ASSUME NEW t \in {"board", "timeline", "mail"}, Belongs(p, t),
              <<SiteOf[t], p>> \notin shaken', l = <<HomeOf[p], SiteOf[t]>>
       PROVE  held[t][p] # 0 /\ t = s /\ WordFrom(wire'[l], p, b, said[p])
  <2>1. /\ WordFrom(wire[l], p, held[t][p], said[p])
        /\ Took(wire[l], wire'[l], p, m)
        /\ m.act = "Create" <=> held[t][p] = 0
    <3>1. /\ WordFrom(wire[l], p, held[t][p], said[p])
          /\ Took(wire[l], wire'[l], p, wire[l][i])
          /\ wire[l][i].act = "Create" <=> held[t][p] = 0
      BY <1>1, <1>2, <1>7, <1>14, FindsIt
    <3>2. QED
      BY <1>3, <3>1
  <2>2. held[t][p] # 0
    BY <1>3, <1>7, <2>1
  <2>3. t = s
    <3>1. CASE t = "board"
      <4>1. l = ZY
        BY <1>4, <1>5, <1>14, <3>1, Ways, Ends
      <4>2. QED
        BY <1>8, <2>2, <3>1, <4>1
    <3>2. CASE t # "board"
      <4>1. l = ZX /\ (t = "mail" <=> p \in Private)
        BY <1>14, <3>2, Ways DEF Belongs
      <4>2. CASE t = "timeline"
        BY <1>8, <2>2, <4>1, <4>2
      <4>3. CASE t = "mail"
        <5>1. held["timeline"][p] = 0 /\ held["mirror"][p] = 0
          BY <4>1, <4>3 DEF IInv, PrivateHolds
        <5>2. QED
          BY <1>8, <2>2, <4>1, <4>3, <5>1
      <4>4. QED
        BY <1>14, <3>2, <4>2, <4>3
    <3>3. QED
      BY <3>1, <3>2
  <2>4. said[p] \in 0 .. Gone
    BY <1>0, Typed
  <2>5. WordFrom(wire'[l], p, b, said[p])
    BY <1>4, <2>1, <2>4, WordTaken
  <2>6. QED
    BY <2>2, <2>3, <2>5
<1>15. ASSUME NEW t \in {"board", "timeline", "mail"}, Belongs(p, t),
              <<SiteOf[t], p>> \notin shaken'
       PROVE  \/ /\ l # <<HomeOf[p], SiteOf[t]>>
                 /\ held'[t][p] = held[t][p]
              \/ WordFrom(wire'[<<HomeOf[p], SiteOf[t]>>], p, held'[t][p], said[p])
  <2>1. CASE l = <<HomeOf[p], SiteOf[t]>>
    <3>1. t = s /\ WordFrom(wire'[l], p, b, said[p])
      BY <1>14, <1>15, <2>1
    <3>2. held'[t][p] = b
      BY <1>9, <1>10, <3>1
    <3>3. QED
      BY <2>1, <3>1, <3>2
  <2>2. CASE l # <<HomeOf[p], SiteOf[t]>>
    <3>1. t # s
      <4>1. CASE t = "board"
        <5>1. l # ZY
          BY <1>4, <1>5, <1>15, <2>2, <4>1, Ways, Ends
        <5>2. QED
          BY <1>4, <1>8, <4>1, <5>1 DEF None
      <4>2. CASE t # "board"
        <5>1. l # ZX
          BY <1>15, <2>2, <4>2, Ways
        <5>2. QED
          BY <1>4, <1>8, <1>15, <4>2, <5>1 DEF None
      <4>3. QED
        BY <4>1, <4>2
    <3>2. held'[t][p] = held[t][p]
      BY <1>9, <1>10, <3>1
    <3>3. QED
      BY <2>2, <3>2
  <2>3. QED
    BY <2>1, <2>2
<1>16. ASSUME p \notin Private, Settled', <<"x", p>> \notin shaken' PROVE MirrorComes(p)'
  <2>1. l = ZX /\ l # YX /\ l = <<HomeOf[p], SiteOf["timeline"]>> /\ SiteOf["timeline"] = "x"
    <3>1. l = ZX
      BY <1>4, <1>7, <1>16, Ends
    <3>2. SiteOf["timeline"] = "x" /\ HomeOf[p] = "z"
      BY <1>4, <1>5, Ways
    <3>3. QED
      BY <3>1, <3>2, Ends DEF ZX
  <2>2. Belongs(p, "timeline")
    BY <1>4, <1>5, <1>16 DEF Belongs
  <2>3. s = "timeline"
    BY <1>14, <1>16, <2>1, <2>2
  <2>4. held'["mirror"][p] = held["mirror"][p] /\ held'["board"][p] = held["board"][p]
    BY <1>9, <1>10, <2>3
  <2>5. QED
    BY <1>1, <1>2, <1>7, <1>b, <1>16, <2>1, <2>4, MirrorRests
<1>17. ASSUME <<"y", p>> \notin shaken' PROVE Hangs(p)'
  <2>1. /\ held'["mirror"][p] # 0 => held["mirror"][p] # 0
        /\ held'["board"][p] # 0 => held["board"][p] # 0
    BY <1>9, <1>10, <1>12
  <2>2. QED
    BY <1>1, <1>2, <1>b, <1>17, <2>1, HangsRests
<1>18. OnlyAbout(p)
  BY <1>10, <1>b DEF OnlyAbout
<1>19. WordGoesOn(l, p)
  BY <1>15 DEF WordGoesOn
<1>20. RestGoesOn(p)
  BY <1>13, <1>16, <1>17 DEF RestGoesOn
<1>21. /\ UNCHANGED <<edge, subscribed, accepting, said>> /\ shaken \subseteq shaken'
       /\ wire[l][i].post = p /\ wire[l][i].act # "Accept"
  BY <1>1, <1>7, <1>b
<1>22. QED
  BY <1>2, <1>11, <1>18, <1>19, <1>20, <1>21, Delivers

LEMMA ReceiveUpdateKeeps ==
  ASSUME IInv, NEW l \in Links, NEW i, ReceiveUpdate(l, i)
  PROVE  IInv'
<1>1. PICK b : b = wire[l][i].ver
  OBVIOUS
<1>2. Changes(l, i, b)
  BY <1>1 DEF ReceiveUpdate, Rewritten, Changes
<1>3. QED
  BY <1>2, ChangeKeeps

LEMMA ReceiveDeleteKeeps ==
  ASSUME IInv, NEW l \in Links, NEW i, ReceiveDelete(l, i)
  PROVE  IInv'
<1>1. Changes(l, i, 0)
  BY DEF ReceiveDelete, Changes
<1>2. QED
  BY <1>1, ChangeKeeps

LEMMA ReceivePostKeeps ==
  ASSUME IInv, NEW l \in Links, NEW i, ReceivePost(l, i)
  PROVE  IInv'
<1>0. Types
  BY DEF IInv
<1>a. /\ l[2] = "y" /\ Received(l, i) /\ wire[l][i].act = "Create"
      /\ shaken \cup Disturbed(l, i) \subseteq shaken' /\ shaken \subseteq shaken'
      /\ UNCHANGED <<edge, subscribed, accepting, said, policy, purged, asks, report>>
  BY DEF ReceivePost
<1>2. Taken(l, i) /\ i \in DOMAIN wire[l]
  BY <1>0, <1>a, Receives DEF Taken
<1>b. PICK m \in Message : m = wire[l][i]
  BY <1>2 DEF Taken
<1>c. /\ m.post \in Posts \ Private /\ m.ver = 1 /\ l = <<HomeOf[m.post], "y">>
      /\ l # YX /\ (l = XY \/ l = ZY) /\ m.up \in Subjects
  <2>1. l = XY \/ l = ZY
    BY <1>a, Constants, Ends
  <2>2. Travels(l, m) /\ m.act = "Create" /\ m.up \in Subjects
    BY <1>2, <1>a, <1>b DEF Taken, Message
  <2>3. m.post \in Posts /\ m.post \notin Private /\ m.ver = 1
        /\ HomeOf[m.post] = (IF l = XY THEN "x" ELSE "z")
    BY <2>1, <2>2, Kinds, Handshakes, Constants, Ends
  <2>4. QED
    BY <2>1, <2>2, <2>3, Ends DEF XY, ZY
<1>d. PICK p \in Posts : p = m.post
  BY <1>c
<1>e. wire[l][i].post = p /\ p \notin Private /\ l = <<HomeOf[p], "y">>
  BY <1>b, <1>c, <1>d
<1>f. PICK u \in Subjects :
         u = IF m.up # None /\ held["board"][m.up] # 0 THEN m.up ELSE None
  BY <1>c DEF Subjects
<1>1. /\ \/ /\ held["board"][p] = 0
            /\ held' = [held EXCEPT !["board"][p] = 1]
            /\ under' = [under EXCEPT !["board"][p] = u]
            /\ recent' = recent \cup {p} /\ due' = due \cup {p}
         \/ UNCHANGED <<held, under, recent, due>>
      /\ held'["board"][p] = 0 => <<"y", p>> \in shaken' /\ <<"x", p>> \in shaken'
      /\ shaken' \subseteq shaken \cup Disturbed(l, i) \cup {<<"y", p>>, <<"x", p>>}
  BY <1>b, <1>c, <1>d, <1>f DEF ReceivePost
<1>3. /\ held \in [Range(Stores) -> [Posts -> 0 .. MaxVer]]
      /\ under \in [{"board", "mirror"} -> [Posts -> Subjects]]
      /\ Range(Stores) = {"board", "timeline", "mirror", "mail"} /\ 1 \in 0 .. MaxVer
  BY <1>0, Typed, Constants
<1>4. \/ /\ held["board"][p] = 0 /\ held'["board"][p] = 1
         /\ p \in due'
      \/ UNCHANGED <<held, under, recent, due>>
  BY <1>1, <1>3
<1>5. /\ held' \in [Range(Stores) -> [Posts -> 0 .. MaxVer]]
      /\ \A t \in Range(Stores), q \in Posts : ~(t = "board" /\ q = p) => held'[t][q] = held[t][q]
  <2>1. CASE held' = [held EXCEPT !["board"][p] = 1]
    BY <1>3, <2>1
  <2>2. CASE held' = held
    BY <1>3, <2>2
  <2>3. QED
    BY <1>1, <2>1, <2>2
<1>6. /\ under' \in [{"board", "mirror"} -> [Posts -> Subjects]]
      /\ \A t \in {"board", "mirror"}, q \in Posts :
            ~(t = "board" /\ q = p) => under'[t][q] = under[t][q]
  <2>1. CASE under' = [under EXCEPT !["board"][p] = u]
    BY <1>3, <2>1
  <2>2. CASE under' = under
    BY <1>3, <2>2
  <2>3. QED
    BY <1>1, <2>1, <2>2
<1>7. /\ recent' \subseteq Posts /\ due' \subseteq Posts
      /\ \A q \in Posts \ {p} : q \in due' <=> q \in due
  BY <1>0, <1>1, Typed
<1>8. Types'
  <2>1. shaken' \subseteq {"x", "y"} \X Subjects
    <3>1. Disturbed(l, i) \subseteq {"x", "y"} \X Subjects
      BY <1>0, <1>2, Disturbs
    <3>2. <<"x", p>> \in {"x", "y"} \X Subjects /\ <<"y", p>> \in {"x", "y"} \X Subjects
      BY DEF Subjects
    <3>3. QED
      BY <1>0, <1>1, <3>1, <3>2, Typed
  <2>2. QED
    BY <1>0, <1>2, <1>a, <1>5, <1>6, <1>7, <2>1, Typed, TypesIf DEF Taken
<1>9. OnlyAbout(p)
  BY <1>5, <1>6, <1>7 DEF OnlyAbout
<1>10. ASSUME <<"y", p>> \notin shaken'
       PROVE  /\ WordFrom(wire[l], p, held["board"][p], said[p])
              /\ Took(wire[l], wire'[l], p, m)
              /\ held["board"][p] = 0 /\ held'["board"][p] = 1
              /\ WordFrom(wire'[l], p, 1, said[p])
              /\ \A n : In(wire'[l], p, n) => n.act # "Create"
  <2>1. Belongs(p, "board") /\ SiteOf["board"] = "y" /\ l = <<HomeOf[p], SiteOf["board"]>>
    BY <1>e, Ways DEF Belongs
  <2>2. /\ WordFrom(wire[l], p, held["board"][p], said[p])
        /\ Took(wire[l], wire'[l], p, wire[l][i])
        /\ wire[l][i].act = "Create" <=> held["board"][p] = 0
    BY <1>2, <1>a, <1>e, <1>10, <2>1, FindsIt
  <2>3. /\ WordFrom(wire[l], p, held["board"][p], said[p])
        /\ Took(wire[l], wire'[l], p, m) /\ m.act = "Create"
        /\ held["board"][p] = 0
    BY <1>a, <1>b, <2>2
  <2>4. held'["board"][p] = 1
    BY <1>1, <1>4, <1>10, <2>3
  <2>5. said[p] \in 0 .. Gone
    BY <1>0, Typed
  <2>6. WordFrom(wire'[l], p, 1, said[p])
    BY <1>3, <2>3, <2>5, WordTaken
  <2>7. \A n : In(wire'[l], p, n) => n.act # "Create"
    <3>1. \A n : In(wire'[l], p, n) => In(wire[l], p, n) /\ Precedes(wire[l], p, m, n)
      BY <2>3 DEF Took
    <3>2. m \in Range(wire[l])
      BY <1>2, <1>b DEF Taken
    <3>3. QED
      BY <2>3, <3>1, <3>2, InRange DEF WordFrom
  <2>8. QED
    BY <2>3, <2>4, <2>6, <2>7
<1>11. ASSUME NEW t \in {"board", "timeline", "mail"}, Belongs(p, t),
              <<SiteOf[t], p>> \notin shaken'
       PROVE  \/ /\ l # <<HomeOf[p], SiteOf[t]>>
                 /\ held'[t][p] = held[t][p]
              \/ WordFrom(wire'[<<HomeOf[p], SiteOf[t]>>], p, held'[t][p], said[p])
  <2>1. CASE t = "board"
    <3>1. l = <<HomeOf[p], SiteOf[t]>> /\ <<"y", p>> \notin shaken'
      BY <1>e, <1>11, <2>1, Ways
    <3>2. QED
      BY <1>10, <2>1, <3>1
  <2>2. CASE t # "board"
    <3>1. l # <<HomeOf[p], SiteOf[t]>>
      BY <1>a, <1>11, <2>2, Ways, Ends
    <3>2. held'[t][p] = held[t][p]
      BY <1>3, <1>5, <2>2
    <3>3. QED
      BY <3>1, <3>2
  <2>3. QED
    BY <2>1, <2>2
<1>12. ASSUME Settled', <<"x", p>> \notin shaken' PROVE MirrorComes(p)'
  <2>1. p # None /\ Steady(YX, p) /\ Ordered(p) /\ EdgeSteady
    <3>1. p # None /\ wire[l][i].act # "Accept" /\ p # None
      BY <1>a, Constants
    <3>2. Steady(YX, p) /\ Ordered(p)
      BY <1>2, <1>a, <1>c, <1>12, <3>1, Settles, Constants, Ends DEF Taken
    <3>3. EdgeSteady
      BY <1>2, <1>a, <1>e, <3>1, HandshakeGoesOn
    <3>4. QED
      BY <3>1, <3>2, <3>3
  <2>2. CASE UNCHANGED <<held, under, recent, due>>
    BY <1>a, <1>e, <1>12, <2>1, <2>2, MirrorKeeps DEF IInv
  <2>3. CASE held["board"][p] = 0 /\ held'["board"][p] = 1 /\ p \in due'
    <3>1. MirrorComes(p) /\ Steady(XY, None) /\ Steady(YX, None)
      BY <1>a, <1>e, <1>12, <2>1 DEF IInv, MirrorHolds, EdgeSteady
    <3>2. EdgeStays'
      BY <1>a, <3>1, StaysKeeps DEF MirrorComes
    <3>3. Open(wire'[YX], p) => edge' = "accepted"
      BY <1>a, <2>1, <3>1 DEF MirrorComes, Ordered
    <3>4. MirrorFrom(wire[YX], p, held["mirror"][p], 0, p \in due)
      BY <2>3, <3>1 DEF MirrorComes
    <3>5. MirrorFrom(wire'[YX], p, held["mirror"][p], 0, p \in due)
      BY <2>1, <3>4, MirrorSame DEF Steady
    <3>6. MirrorFrom(wire'[YX], p, held["mirror"][p], 1, TRUE)
      <4>1. (p \in due) \in BOOLEAN
        OBVIOUS
      <4>2. QED
        BY <3>5, <4>1, MirrorDue
    <3>7. held'["mirror"][p] = held["mirror"][p] /\ (p \in due') = TRUE
      BY <1>3, <1>5, <2>3
    <3>8. MirrorFrom(wire'[YX], p, held'["mirror"][p], held'["board"][p], p \in due')
      BY <2>3, <3>6, <3>7
    <3>9. QED
      BY <3>2, <3>3, <3>8 DEF MirrorComes
  <2>4. QED
    BY <1>4, <2>2, <2>3
<1>13. ASSUME <<"y", p>> \notin shaken' PROVE Hangs(p)'
  <2>1. ToCome(p) /\ ~ToCome(p)'
    <3>1. m \in Range(wire[l]) /\ m.act = "Create" /\ m.post = p
      BY <1>2, <1>a, <1>b, <1>d DEF Taken
    <3>2. ToCome(p)
      BY <1>e, <3>1 DEF ToCome
    <3>3. said'[p] # 0
      BY <1>a, <1>10, <1>13 DEF Took, WordFrom
    <3>4. ASSUME NEW n \in Range(wire'[l]), n.act = "Create", n.post = p PROVE FALSE
      <4>1. In(wire'[l], p, n)
        BY <3>4 DEF In, Range
      <4>2. QED
        BY <1>10, <1>13, <3>4, <4>1
    <3>5. QED
      BY <1>e, <3>2, <3>3, <3>4 DEF ToCome
  <2>2. Hangs(p)
    BY <1>a, <1>13 DEF IInv, HangsHold
  <2>3. Range(wire'[YX]) \subseteq Range(wire[YX])
    BY <1>2, Constants DEF Taken, Dwindles
  <2>4. held'["mirror"][p] = held["mirror"][p]
    BY <1>3, <1>5
  <2>5. QED
    BY <2>1, <2>2, <2>3, <2>4 DEF Hangs
<1>14. WordGoesOn(l, p)
  BY <1>11 DEF WordGoesOn
<1>15. RestGoesOn(p)
  BY <1>e, <1>12, <1>13 DEF RestGoesOn
<1>16. /\ UNCHANGED <<edge, subscribed, accepting, said>> /\ shaken \subseteq shaken'
       /\ wire[l][i].post = p /\ wire[l][i].act # "Accept"
  BY <1>a, <1>e
<1>17. QED
  BY <1>2, <1>8, <1>9, <1>14, <1>15, <1>16, Delivers

LEMMA ReceiveAnnounceKeeps ==
  ASSUME IInv, NEW i, ReceiveAnnounce(i)
  PROVE  IInv'
<1>0. Types
  BY DEF IInv
<1>a. /\ Received(YX, i) /\ wire[YX][i].act \in {"Announced", "Withdrawn"}
      /\ shaken \cup Disturbed(YX, i) \subseteq shaken' /\ shaken \subseteq shaken'
      /\ UNCHANGED <<edge, subscribed, accepting, recent, due, said, policy, purged, asks, report>>
  BY DEF ReceiveAnnounce, YX
<1>2. Taken(YX, i) /\ i \in DOMAIN wire[YX] /\ YX \in Links
  BY <1>0, <1>a, Constants, Receives DEF Taken
<1>b. PICK m \in Message : m = wire[YX][i]
  BY <1>2 DEF Taken
<1>c. /\ m.post \in Posts \ Private
      /\ \/ m.act = "Announced" /\ m.ver # 0
         \/ m.act = "Withdrawn"
      /\ m.ver \in 0 .. MaxVer /\ m.up \in Subjects
  <2>1. Travels(YX, m) /\ m.act \in {"Announced", "Withdrawn"}
    BY <1>2, <1>a, <1>b DEF Taken
  <2>2. QED
    BY <2>1, Kinds, Handshakes DEF Message
<1>d. PICK p \in Posts : p = m.post
  BY <1>c
<1>e. wire[YX][i].post = p /\ p \notin Private /\ m.post = p
  BY <1>b, <1>c, <1>d
<1>1. /\ \/ ~Heard /\ UNCHANGED <<held, under>>
         \/ /\ Heard /\ m.act = "Withdrawn"
            /\ held' = [held EXCEPT !["mirror"][p] = 0] /\ UNCHANGED under
         \/ /\ Heard /\ m.act = "Announced" /\ held["mirror"][p] = 0
            /\ held' = [held EXCEPT !["mirror"][p] = m.ver]
            /\ under' = [under EXCEPT !["mirror"][p] = m.up]
         \/ /\ Heard /\ m.act = "Announced" /\ held["mirror"][p] # 0
            /\ held' = held /\ under' = [under EXCEPT !["mirror"][p] = @]
      /\ policy["y"] = "silence" => <<"x", p>> \in shaken'
      /\ shaken' \subseteq shaken \cup Disturbed(YX, i) \cup {<<"x", p>>}
  BY <1>b, <1>c, <1>d DEF ReceiveAnnounce, YX, DropMirrored, Stored
<1>3. /\ held \in [Range(Stores) -> [Posts -> 0 .. MaxVer]]
      /\ under \in [{"board", "mirror"} -> [Posts -> Subjects]]
      /\ Range(Stores) = {"board", "timeline", "mirror", "mail"} /\ 0 \in 0 .. MaxVer
  BY <1>0, Typed, Constants
<1>4. /\ held' \in [Range(Stores) -> [Posts -> 0 .. MaxVer]]
      /\ under' \in [{"board", "mirror"} -> [Posts -> Subjects]]
      /\ \A t \in Range(Stores), q \in Posts : ~(t = "mirror" /\ q = p) => held'[t][q] = held[t][q]
      /\ \A t \in {"board", "mirror"}, q \in Posts :
            ~(t = "mirror" /\ q = p) => under'[t][q] = under[t][q]
      /\ held'["mirror"][p] # 0 =>
            \/ held["mirror"][p] # 0 /\ under'["mirror"][p] = under["mirror"][p]
            \/ m.act = "Announced" /\ under'["mirror"][p] = m.up
      /\ Heard => /\ m.act = "Withdrawn" => held'["mirror"][p] = 0
                  /\ m.act = "Announced" =>
                       held'["mirror"][p] = IF held["mirror"][p] = 0 THEN m.ver ELSE held["mirror"][p]
  <2>1. CASE UNCHANGED <<held, under>> /\ ~Heard
    BY <1>3, <2>1
  <2>2. CASE m.act = "Withdrawn" /\ held' = [held EXCEPT !["mirror"][p] = 0] /\ under' = under
    BY <1>3, <2>2
  <2>3. CASE /\ m.act = "Announced" /\ held["mirror"][p] = 0
             /\ held' = [held EXCEPT !["mirror"][p] = m.ver]
             /\ under' = [under EXCEPT !["mirror"][p] = m.up]
    BY <1>3, <1>c, <2>3
  <2>4. CASE /\ m.act = "Announced" /\ held["mirror"][p] # 0
             /\ held' = held /\ under' = [under EXCEPT !["mirror"][p] = @]
    <3>1. under' = under
      BY <1>3, <2>4
    <3>2. QED
      BY <1>3, <2>4, <3>1
  <2>5. QED
    BY <1>1, <2>1, <2>2, <2>3, <2>4
<1>5. Types'
  <2>1. shaken' \subseteq {"x", "y"} \X Subjects
    <3>1. Disturbed(YX, i) \subseteq {"x", "y"} \X Subjects
      BY <1>0, <1>2, Disturbs
    <3>2. <<"x", p>> \in {"x", "y"} \X Subjects
      BY DEF Subjects
    <3>3. QED
      BY <1>0, <1>1, <3>1, <3>2, Typed
  <2>2. QED
    BY <1>0, <1>2, <1>a, <1>4, <2>1, Typed, TypesIf DEF Taken
<1>6. OnlyAbout(p)
  BY <1>4, <1>a DEF OnlyAbout
<1>7. ASSUME NEW t \in {"board", "timeline", "mail"}, Belongs(p, t)
      PROVE  YX # <<HomeOf[p], SiteOf[t]>> /\ held'[t][p] = held[t][p]
  <2>1. YX # <<HomeOf[p], SiteOf[t]>>
    BY <1>7, Ways, Ends
  <2>2. QED
    BY <1>3, <1>4, <2>1
<1>8. ASSUME Settled', <<"x", p>> \notin shaken' PROVE MirrorComes(p)'
  <2>1. /\ i = 1 /\ Took(wire[YX], wire'[YX], p, m)
        /\ Ordered(p)
    BY <1>2, <1>a, <1>b, <1>e, <1>8, Settles, Ends DEF Taken
  <2>2. p # None /\ EdgeSteady
    BY <1>2, <1>a, <1>e, Constants, HandshakeGoesOn
  <2>3. MirrorComes(p) /\ Steady(XY, None) /\ Steady(YX, None)
    BY <1>a, <1>e, <1>8, <2>2 DEF IInv, MirrorHolds, EdgeSteady
  <2>4. EdgeStays'
    BY <1>a, <2>3, StaysKeeps DEF MirrorComes
  <2>5. Open(wire[YX], p)
    <3>1. \A j \in DOMAIN wire[YX] : ~(j < 1)
      <4>1. wire[YX] \in Seq(Message)
        BY <1>0, <1>2 DEF Types
      <4>2. QED
        BY <4>1
    <3>2. QED
      BY <1>2, <1>e, <2>1, <3>1 DEF Open
  <2>6. edge = "accepted" /\ Heard
    BY <1>1, <1>8, <2>3, <2>5 DEF MirrorComes, Heard
  <2>7. MirrorFrom(wire[YX], p, held["mirror"][p], held["board"][p], p \in due)
    BY <2>3 DEF MirrorComes
  <2>8. MirrorFrom(wire'[YX], p, held'["mirror"][p], held["board"][p], p \in due)
    <3>1. (p \in due) \in BOOLEAN
      OBVIOUS
    <3>2. \/ m.act = "Announced"
             /\ held'["mirror"][p] = IF held["mirror"][p] = 0 THEN m.ver ELSE held["mirror"][p]
          \/ m.act = "Withdrawn" /\ held'["mirror"][p] = 0
      BY <1>4, <1>c, <2>6
    <3>3. QED
      BY <2>1, <2>7, <3>1, <3>2, MirrorTaken
  <2>9. held'["board"][p] = held["board"][p] /\ due' = due /\ edge' = edge
    BY <1>3, <1>4, <1>a
  <2>10. QED
    BY <2>4, <2>6, <2>8, <2>9 DEF MirrorComes
<1>9. ASSUME <<"y", p>> \notin shaken' PROVE Hangs(p)'
  <2>1. Hangs(p)
    BY <1>a, <1>9 DEF IInv, HangsHold
  <2>2. Range(wire'[YX]) \subseteq Range(wire[YX]) /\ m \in Range(wire[YX])
    BY <1>2, <1>b DEF Taken, Dwindles
  <2>3. ToCome(p)' => ToCome(p)
    <3>1. Range(wire'[<<HomeOf[p], "y">>]) \subseteq Range(wire[<<HomeOf[p], "y">>])
      BY <1>2, Ways DEF Taken, Dwindles
    <3>2. QED
      BY <1>a, <3>1, ToComeKeeps
  <2>4. /\ under'["board"][p] = under["board"][p]
        /\ held'["board"][p] = held["board"][p]
    BY <1>3, <1>4
  <2>5. held'["mirror"][p] # 0 => ~ToCome(p) /\ under'["mirror"][p] = under["board"][p]
    BY <1>4, <1>e, <2>1, <2>2 DEF Hangs
  <2>6. QED
    BY <1>a, <2>1, <2>2, <2>3, <2>4, <2>5 DEF Hangs
<1>10. WordGoesOn(YX, p)
  BY <1>7 DEF WordGoesOn
<1>11. RestGoesOn(p)
  BY <1>e, <1>8, <1>9 DEF RestGoesOn
<1>12. /\ UNCHANGED <<edge, subscribed, accepting, said>> /\ shaken \subseteq shaken'
       /\ wire[YX][i].post = p /\ wire[YX][i].act # "Accept"
  BY <1>a, <1>e
<1>13. QED
  BY <1>2, <1>5, <1>6, <1>10, <1>11, <1>12, Delivers

-----------------------------------------------------------------------------
(* The theorems. *)

LEMMA InitHolds == ASSUME Init PROVE IInv
<1>0. /\ edge = None /\ subscribed = FALSE /\ accepting = FALSE
      /\ \A s \in Range(Stores) : held[s] = [p \in Posts |-> 0]
      /\ \A l \in Links : wire[l] = <<>>
      /\ said = [p \in Posts |-> 0] /\ due = {} /\ shaken = {}
  BY DEF Init
<1>1. Types
  <2>1. 0 \in 0 .. MaxVer /\ 0 \in 0 .. Gone /\ None \in Subjects
    BY Constants DEF Subjects
  <2>2. /\ held \in [Range(Stores) -> [Posts -> 0 .. MaxVer]]
        /\ under \in [{"board", "mirror"} -> [Posts -> Posts \cup {None}]]
        /\ said \in [Posts -> 0 .. Gone]
        /\ wire \in [Links -> Seq(Message)]
        /\ policy \in [{"y", "z"} -> {"open", "silence", "suspend"}]
    BY <2>1 DEF Init, Subjects
  <2>3. \A l \in Links : Range(wire[l]) = {} /\ DOMAIN wire[l] = {}
    BY <1>0 DEF Range
  <2>4. TypeOK
    BY <1>0, <2>2, <2>3 DEF Init, TypeOK
  <2>5. QED
    BY <2>2, <2>3, <2>4 DEF Init, Types
<1>2. /\ \A p \in Posts, s \in {"board", "timeline", "mirror", "mail"} : held[s][p] = 0
      /\ \A p \in Posts : said[p] = 0
  BY <1>0, Constants
<1>3. \A l \in Links : Range(wire[l]) = {} /\ \A q : ~Has(wire[l], q) /\ ~Open(wire[l], q)
                       /\ \A m : ~In(wire[l], q, m)
  BY <1>0 DEF Range, Has, Open, In
<1>4. XY \in Links /\ YX \in Links
  BY Constants
<1>5. PrivateHolds
  BY <1>2, Constants DEF PrivateHolds
<1>6. EdgeHolds
  <2>1. edge # "pending"
    BY <1>0 DEF None
  <2>2. QED
    BY <1>0, <1>3, <1>4, <2>1 DEF EdgeHolds, EdgeFrom
<1>7. WordHolds
  <2>1. ASSUME NEW p \in Posts, NEW s \in {"board", "timeline", "mail"}, Belongs(p, s)
        PROVE  WordFrom(wire[<<HomeOf[p], SiteOf[s]>>], p, held[s][p], said[p])
    <3>1. <<HomeOf[p], SiteOf[s]>> \in Links
      BY <2>1, Ways
    <3>2. held[s][p] = 0 /\ said[p] = 0 /\ Word(0) = 0
      BY <1>2 DEF Word
    <3>3. QED
      BY <1>3, <3>1, <3>2 DEF WordFrom
  <2>2. QED
    BY <2>1 DEF WordHolds
<1>8. MirrorHolds
  <2>1. EdgeStays
    BY <1>0, <1>3, <1>4 DEF EdgeStays
  <2>2. ASSUME NEW p \in Posts
        PROVE  MirrorFrom(wire[YX], p, held["mirror"][p], held["board"][p], p \in due)
    <3>1. held["mirror"][p] = 0 /\ held["board"][p] = 0
      BY <1>2
    <3>2. QED
      BY <1>3, <1>4, <3>1 DEF MirrorFrom
  <2>3. QED
    BY <1>3, <1>4, <2>1, <2>2 DEF MirrorHolds, MirrorComes
<1>9. HangsHold
  BY <1>0, <1>2, <1>3, <1>4 DEF HangsHold, Hangs
<1>10. QED
  BY <1>1, <1>5, <1>6, <1>7, <1>8, <1>9 DEF IInv

LEMMA NextKeeps == ASSUME IInv, [Next]_vars PROVE IInv'
<1>1. CASE ChangePolicy
  BY <1>1, SetPolicyKeeps DEF ChangePolicy
<1>2. CASE ChangeFollow
  BY <1>2, FollowKeeps, UnfollowKeeps DEF ChangeFollow
<1>3. CASE Clean
  BY <1>3, OtherKeeps, PurgeKeeps DEF Clean
<1>4. CASE QueueAccept \/ WindowPasses \/ Crash \/ ReceiveFlag
  BY <1>4, QueueAcceptKeeps, OtherKeeps, CrashKeeps
<1>5. ASSUME NEW p \in Posts, Submit(p) \/ Write(p) \/ Relay(p) \/ Moderate(p)
      PROVE  IInv'
  BY <1>5, SubmitKeeps, WriteKeeps, RelayKeeps, ModerateKeeps
<1>6. ASSUME NEW l \in Links, NEW i \in DOMAIN wire[l], Receive(l, i)
      PROVE  IInv'
  BY <1>6, ReceiveFollowKeeps, ReceiveUndoKeeps, ReceiveAcceptKeeps, ReceiveAnnounceKeeps,
     ReceiveNoteKeeps, ReceivePostKeeps, ReceiveUpdateKeeps, ReceiveDeleteKeeps DEF Receive
<1>7. ASSUME NEW l \in Links, Refuse(l) \/ GiveUp(l)
      PROVE  IInv'
  BY <1>7, RefuseKeeps, GiveUpKeeps
<1>8. CASE UNCHANGED vars
  <2>1. Types /\ wire' = wire
    BY <1>8 DEF IInv, vars
  <2>2. LeftAlone
    BY <2>1, Untouched
  <2>3. Types'
    BY <1>8, <2>1, <2>2, Typed, TypesIf DEF vars, LeftAlone
  <2>4. QED
    BY <1>8, <2>2, <2>3, Quiet DEF vars
<1>9. QED
  BY <1>1, <1>2, <1>3, <1>4, <1>5, <1>6, <1>7, <1>8 DEF Next

\* In every behaviour what is to come makes good what is not yet there: the
\* strengthening of the four properties below.
THEOREM Invariant == Spec => []IInv
<1>1. Init => IInv
  BY InitHolds
<1>2. IInv /\ [Next]_vars => IInv'
  BY NextKeeps
<1>3. QED
  BY <1>1, <1>2, PTL DEF Spec

\* The variables keep their types, whatever is delivered, lost or repeated.
THEOREM TypeCorrect == Spec => []TypeOK
<1>1. IInv => TypeOK
  BY DEF IInv, Types
<1>2. QED
  BY <1>1, Invariant, PTL

\* What OnWire says, of each queue.
LEMMA Delivered ==
  ASSUME NEW q, ~OnWire(q), NEW l \in Links
  PROVE  ~Has(wire[l], q) /\ \A m : ~In(wire[l], q, m)
<1>1. \A m \in Range(wire[l]) : m.post # q
  BY DEF OnWire
<1>2. ~Has(wire[l], q)
  BY <1>1 DEF Has, Range
<1>3. QED
  BY <1>2, InRange

\* Once the handshake is over and nothing disturbed it, both ends of a follow
\* agree on it (follows::request, mark_accepted, accept, remove), however often
\* it was asked for and left.
THEOREM BothEndsAgree == Spec => []EdgesAgree
<1>1. ASSUME IInv, ~accepting, ~OnWire(None), Settled
      PROVE  (edge = "accepted" <=> subscribed) /\ edge # "pending"
  <2>1. EdgeFrom(wire[XY], wire[YX], edge, subscribed, accepting)
    BY <1>1 DEF IInv, EdgeHolds
  <2>2. /\ ~Has(wire[XY], None) /\ ~Has(wire[YX], None)
        /\ ~In(wire[XY], None, FollowMsg)
    BY <1>1, Constants, Delivered
  <2>3. edge \in {None, "pending", "accepted"} /\ None # "accepted"
    BY <1>1, Typed DEF IInv, None
  <2>4. QED
    BY <1>1, <2>1, <2>2, <2>3 DEF EdgeFrom
<1>2. IInv => EdgesAgree
  BY <1>1 DEF EdgesAgree
<1>3. QED
  BY <1>2, Invariant, PTL

\* What the board, the timeline and the mailbox hold of a post is what its author
\* said last, once that has come in order: no edit is lost, and no withdrawn post
\* stays or comes back (Create, Update and Delete::receive).
THEOREM LastWordHolds == Spec => []AuthorsWordHolds
<1>1. ASSUME IInv, NEW p \in Posts, NEW s \in {"board", "timeline", "mail"},
             ~OnWire(p), <<SiteOf[s], p>> \notin shaken, Belongs(p, s)
      PROVE  held[s][p] = IF said[p] = Gone THEN 0 ELSE said[p]
  <2>1. <<HomeOf[p], SiteOf[s]>> \in Links
    BY <1>1, Ways
  <2>2. ~Has(wire[<<HomeOf[p], SiteOf[s]>>], p)
    BY <1>1, <2>1, Delivered
  <2>3. WordFrom(wire[<<HomeOf[p], SiteOf[s]>>], p, held[s][p], said[p])
    BY <1>1 DEF IInv, WordHolds
  <2>4. QED
    BY <2>2, <2>3 DEF WordFrom, Word
<1>2. IInv => AuthorsWordHolds
  BY <1>1 DEF AuthorsWordHolds, Belongs
<1>3. QED
  BY <1>2, Invariant, PTL

\* A mirror holds what its board holds, once the board has announced it and the
\* follow stands (deliver_board_post, Announce::receive).
THEOREM MirrorFollows == Spec => []MirrorAgrees
<1>1. ASSUME IInv, NEW p \in Posts \ Private, ~OnWire(p), p \notin due, Settled,
             <<"x", p>> \notin shaken
      PROVE  held["mirror"][p] = held["board"][p]
  <2>1. MirrorFrom(wire[YX], p, held["mirror"][p], held["board"][p], p \in due)
    BY <1>1 DEF IInv, MirrorHolds, MirrorComes
  <2>2. ~Has(wire[YX], p)
    BY <1>1, Constants, Delivered
  <2>3. QED
    BY <1>1, <2>1, <2>2 DEF MirrorFrom
<1>2. IInv => MirrorAgrees
  BY <1>1 DEF MirrorAgrees
<1>3. QED
  BY <1>2, Invariant, PTL

\* A reply hangs under the same post in the mirror as on the board, in whatever
\* order the two came (store_remote_post, board_item_for, mirror::thread).
THEOREM ThreadsStayJoined == Spec => []ThreadsJoin
<1>1. ASSUME IInv, NEW p \in Posts,
             held["mirror"][p] # 0, <<"y", p>> \notin shaken,
             ShownUnder("board", p) # None, held["mirror"][ShownUnder("board", p)] # 0
      PROVE  ShownUnder("mirror", p) = ShownUnder("board", p)
  <2>1. Hangs(p)
    BY <1>1 DEF IInv, HangsHold
  <2>2. under["mirror"][p] = under["board"][p]
    BY <1>1, <2>1 DEF Hangs
  <2>3. QED
    BY <1>1, <2>2 DEF ShownUnder
<1>2. IInv => ThreadsJoin
  BY <1>1 DEF ThreadsJoin
<1>3. QED
  BY <1>2, Invariant, PTL

\* Whatever a store of x comes to hold it was sent by a server that is not
\* suspended: the author's for the timeline and the mail, the board's for mirrors.
FromOthers(s) == IF s = "mirror" THEN "y" ELSE "z"

LEMMA TakenFromOthers ==
  ASSUME IInv, [Next]_vars, NEW s \in {"timeline", "mirror", "mail"}, NEW p \in Posts,
         held[s][p] = 0, held'[s][p] # 0
  PROVE  policy[FromOthers(s)] # "suspend"
<1>0. /\ Types /\ DOMAIN held = {"board", "timeline", "mirror", "mail"}
      /\ \A r \in DOMAIN held : DOMAIN held[r] = Posts
  BY Typed, Constants DEF IInv
<1>1. held' # held
  OBVIOUS
<1>2. ASSUME NEW q, NEW v, held' = [held EXCEPT !["board"][q] = v] PROVE FALSE
  BY <1>0, <1>2
<1>3. ASSUME NEW r, NEW q, held' = [held EXCEPT ![r][q] = 0] PROVE FALSE
  BY <1>0, <1>3
<1>4. ASSUME NEW d \in {"y", "z"}, Purge(d) PROVE FALSE
  BY <1>0, <1>4 DEF Purge
<1>5. ASSUME NEW l, NEW i, ReceivePost(l, i) PROVE FALSE
  BY <1>1, <1>2, <1>5 DEF ReceivePost
<1>6. ASSUME NEW q \in Posts, Moderate(q) PROVE FALSE
  BY <1>2, <1>6 DEF Moderate
<1>7. ASSUME NEW l, NEW i, ReceiveDelete(l, i) PROVE FALSE
  BY <1>1, <1>3, <1>7 DEF ReceiveDelete
<1>8. ASSUME NEW l \in Links, NEW i \in DOMAIN wire[l], ReceiveUpdate(l, i) PROVE FALSE
  <2> DEFINE q == wire[l][i].post
             r == Target(l[2], q)
  <2>1. r # None /\ held' = [held EXCEPT ![r][q] = Rewritten(r, q, wire[l][i].ver)]
    BY <1>1, <1>8 DEF ReceiveUpdate
  <2>2. l[2] \in {"x", "y"} /\ q = p /\ r = s
    BY <1>0, <2>1 DEF Links
  <2>3. held[r][q] # 0
    BY <1>0, <2>1, <2>2, Aims
  <2>4. QED
    BY <2>2, <2>3
<1>9. ASSUME NEW i, ReceiveAnnounce(i) PROVE s = "mirror" /\ policy["y"] # "suspend"
  <2>1. held' = Stored("mirror", wire[YX][i].post, wire[YX][i].ver)
    BY <1>1, <1>3, <1>9 DEF ReceiveAnnounce, DropMirrored, YX
  <2>2. s = "mirror"
    BY <1>0, <2>1 DEF Stored
  <2>3. QED
    BY <1>9, <2>2 DEF ReceiveAnnounce
<1>10. ASSUME NEW i, ReceiveNote(i) PROVE s # "mirror" /\ policy["z"] # "suspend"
  <2> DEFINE m == wire[ZX][i]
             r == Routed(m.post)
  <2>1. held' = Stored(r, m.post, m.ver) /\ r \in {"mail", "timeline"}
    BY <1>1, <1>10 DEF ReceiveNote, Routed, ZX
  <2>2. s # "mirror"
    BY <1>0, <2>1 DEF Stored
  <2>3. QED
    BY <1>10, <2>2 DEF ReceiveNote
<1>11. ASSUME NEW i, ReceiveFollow(i) \/ ReceiveUndo(i) \/ ReceiveAccept(i) PROVE FALSE
  BY <1>1, <1>11 DEF ReceiveFollow, ReceiveUndo, ReceiveAccept
<1>12. ASSUME \/ ChangePolicy \/ ChangeFollow \/ Resolve
              \/ QueueAccept \/ WindowPasses \/ Crash \/ ReceiveFlag \/ UNCHANGED vars
       PROVE  FALSE
  BY <1>1, <1>12 DEF ChangePolicy, SetPolicy, ChangeFollow, Follow, Unfollow, Resolve, QueueAccept,
                     WindowPasses, Crash, ReceiveFlag, vars
<1>13. ASSUME NEW q \in Posts, Submit(q) \/ Write(q) \/ Relay(q) PROVE FALSE
  BY <1>1, <1>13 DEF Submit, Write, Relay
<1>14. ASSUME NEW l \in Links, Refuse(l) \/ GiveUp(l) PROVE FALSE
  BY <1>1, <1>14 DEF Refuse, GiveUp
<1>15. QED
  BY <1>4, <1>5, <1>6, <1>7, <1>8, <1>9, <1>10, <1>11, <1>12, <1>13, <1>14
     DEF Next, Clean, Receive, FromOthers

\* Once a server is suspended and then purged, nothing it sent comes back, whatever
\* was on its way or is put off until later (AllowlistVerifier, purge_domain): a
\* delivery being one step, the check and what it lets in are never apart.
THEOREM PurgedServersStayOut == Spec => []PurgedStaysOut
<1>1. Init => PurgedStaysOut
  BY DEF Init, PurgedStaysOut
<1>2. ASSUME IInv, PurgedStaysOut, [Next]_vars PROVE PurgedStaysOut'
  <2>0. /\ TypeOK /\ purged \subseteq {d \in {"y", "z"} : policy[d] = "suspend"}
        /\ DOMAIN held = {"board", "timeline", "mirror", "mail"}
        /\ \A p \in Posts : HomeOf[p] \in {"x", "z"}
    BY <1>2, Typed, Constants, InboxAssumption DEF IInv, Types
  <2>1. ASSUME NEW d \in {"y", "z"}, Purge(d)
        PROVE  /\ purged' \subseteq purged \cup {d}
               /\ \A s \in DOMAIN held, p \in Posts : held'[s][p] \in {0, held[s][p]}
               /\ \A s \in {"timeline", "mirror", "mail"}, p \in Posts :
                     d = HomeOf[p] \/ (s = "mirror" /\ d = "y") => held'[s][p] = 0
    BY <2>0, <2>1 DEF Purge, Purgeable
  <2>2. purged' \subseteq purged \/ \E d \in {"y", "z"} : Purge(d)
    <3>1. CASE ChangePolicy
      BY <3>1 DEF ChangePolicy, SetPolicy
    <3>2. CASE \/ ChangeFollow \/ Resolve \/ QueueAccept \/ WindowPasses \/ Crash \/ ReceiveFlag
               \/ UNCHANGED vars
      BY <3>2 DEF ChangeFollow, Follow, Unfollow, Resolve, QueueAccept, WindowPasses, Crash,
                  ReceiveFlag, vars
    <3>3. ASSUME NEW p \in Posts, Submit(p) \/ Write(p) \/ Relay(p) \/ Moderate(p)
          PROVE  purged' = purged
      BY <3>3 DEF Submit, Write, Relay, Moderate
    <3>4. ASSUME NEW l, NEW i, Receive(l, i) PROVE purged' = purged
      <4>1. CASE ReceiveFollow(i) \/ ReceiveUndo(i) \/ ReceiveAccept(i) \/ ReceiveAnnounce(i)
        BY <4>1 DEF ReceiveFollow, ReceiveUndo, ReceiveAccept, ReceiveAnnounce
      <4>2. CASE ReceiveNote(i) \/ ReceivePost(l, i)
        BY <4>2 DEF ReceiveNote, ReceivePost
      <4>3. CASE ReceiveUpdate(l, i) \/ ReceiveDelete(l, i)
        BY <4>3 DEF ReceiveUpdate, ReceiveDelete
      <4>4. QED
        BY <3>4, <4>1, <4>2, <4>3 DEF Receive
    <3>5. ASSUME NEW l \in Links, Refuse(l) \/ GiveUp(l) PROVE purged' = purged
      BY <3>5 DEF Refuse, GiveUp
    <3>6. QED
      BY <1>2, <3>1, <3>2, <3>3, <3>4, <3>5 DEF Next, Clean
  <2>3. ASSUME NEW d \in purged, NEW s \in {"timeline", "mirror", "mail"}, NEW p \in Posts,
               IF s = "mirror" THEN d = "y" ELSE d = HomeOf[p]
        PROVE  held'[s][p] = 0
    <3>1. held[s][p] = 0 /\ policy[d] = "suspend" /\ d = FromOthers(s)
      BY <1>2, <2>0, <2>3 DEF PurgedStaysOut, FromOthers
    <3>2. QED
      BY <1>2, <3>1, TakenFromOthers
  <2>4. ASSUME NEW d \in purged', NEW s \in {"timeline", "mirror", "mail"}, NEW p \in Posts,
               IF s = "mirror" THEN d = "y" ELSE d = HomeOf[p]
        PROVE  held'[s][p] = 0
    BY <2>1, <2>2, <2>3, <2>4
  <2>5. QED
    BY <2>4 DEF PurgedStaysOut
<1>3. QED
  BY <1>1, <1>2, Invariant, PTL DEF Spec

-----------------------------------------------------------------------------
(* Syndication. *)

\* How much of the post's history an activity tells: its text, or the end.
Rank(a) == IF a[1] = "delete" THEN Absent ELSE a[2]

\* Ids are those of the rows enqueued so far, no two rows share one, and only what
\* was enqueued arrives.
RowsHold ==
  /\ queue \subseteq accepted
  /\ \A d \in accepted : id[d] \in 1 .. Cardinality(accepted)
  /\ \A d, e \in accepted : id[d] = id[e] => d = e
  /\ \A d \in Deliveries : got[d] > 0 => d \in accepted

\* A recorded outcome is what happened to the row the pass is at.
OutcomeHolds ==
  \A d \in Queue!Current : /\ outcome = "ok" => got[d] > 0
                           /\ outcome = "error" => fails[d] > 0

\* The rows of inbox i go out in the order they came in: none of them backs off,
\* a pass takes none without those before it, one that left the queue arrived, and
\* one that arrived is the first that is still queued, or before it.
InTurn(i) ==
  /\ \A a \in Activities : wait[<<a, i>>] = 0
  /\ \A a, b \in Activities :
        <<a, i>> \in pass /\ <<b, i>> \in queue /\ id[<<b, i>>] < id[<<a, i>>]
          => <<b, i>> \in pass
  /\ \A a \in Activities :
        <<a, i>> \in accepted /\ <<a, i>> \notin queue => got[<<a, i>>] > 0
  /\ \A a, b \in Activities :
        got[<<a, i>>] > 0 /\ <<b, i>> \in queue => id[<<a, i>>] <= id[<<b, i>>]

QueueHolds ==
  /\ Queue!TypeOK
  /\ RowsHold
  /\ OutcomeHolds
  /\ \A i \in Inboxes : ~Retried(i) => InTurn(i)

\* What is under way belongs to the post, and a withdrawal is enqueued, or about to
\* be, only once the post is gone for good.
PostHolds ==
  /\ ~posted => post = Absent
  /\ \A p \in Actors : doing[p] # "idle" => posted
  /\ doing["author"] = "mint" => left["author"] = Inboxes /\ act["author"][1] # "delete"
  /\ doing["admin"] \in {"idle", "delete", "enqueue"}
  /\ \A p \in Actors : doing[p] = "enqueue" /\ act[p][1] = "delete" => post = Absent
  /\ \A d \in accepted : posted /\ (d[1][1] = "delete" => post = Absent)

\* Session p has still to enqueue a row for inbox i.
Owes(p, i) == doing[p] \in {"read", "mint"} \/ (doing[p] = "enqueue" /\ i \in left[p])

\* As long as the sessions take turns and finish: one is busy at a time; the post
\* has its ap_id but while it gets it; what a session has built is of the post as it is.
TurnsTaken ==
  /\ \A p, q \in Actors : doing[p] # "idle" /\ doing[q] # "idle" => p = q
  /\ posted /\ post # Absent /\ ~uri => doing["author"] \in {"read", "mint"}
  /\ \A p \in Actors :
        /\ doing[p] \in {"read", "mint"} => post # Absent
        /\ doing[p] \in {"mint", "enqueue"} => Rank(act[p]) = post
        /\ doing[p] = "delete" => /\ left[p] = Inboxes /\ Rank(act[p]) = Absent
                                  /\ post # Absent

\* Then what was enqueued is in the post's order and tells all of its history but
\* what a session still owes.
Told ==
  /\ \A d \in accepted : Rank(d[1]) <= post
  /\ posted => \A i \in Inboxes :
        (\A p \in Actors : ~Owes(p, i))
          => \E a \in Activities : <<a, i>> \in accepted /\ Rank(a) = post
  /\ posted /\ post # 0 => \A i \in Inboxes : <<<<"create", 0>>, i>> \in accepted
  /\ \A i \in Inboxes, a, b \in Activities :
        <<a, i>> \in accepted /\ <<b, i>> \in accepted /\ Rank(a) < Rank(b)
          => id[<<a, i>>] < id[<<b, i>>]

\* The mirror of i shows the last activity that arrived.
Shown(i) ==
  \/ mirror[i] = Absent /\ \A a \in Activities : ~(got[<<a, i>>] > 0)
  \/ \E a \in Activities :
        /\ got[<<a, i>>] > 0
        /\ Rank(a) = mirror[i]
        /\ \A b \in Activities : got[<<b, i>>] > 0 => Rank(b) <= Rank(a)

HubHolds ==
  /\ HubTypeOK
  /\ PostHolds
  /\ cut = {} => TurnsTaken /\ Told

HubInv ==
  /\ QueueHolds
  /\ HubHolds
  /\ \A i \in Inboxes : cut = {} /\ ~Retried(i) => Shown(i)

\* The queue's instance brings its own copies of the library's operators.
LEMMA SameFinite == \A S : Queue!IsFiniteSet(S) <=> IsFiniteSet(S)
  BY DEF Queue!IsFiniteSet, IsFiniteSet

LEMMA SameCardinality == \A S : Queue!Cardinality(S) = Cardinality(S)
  BY DEF Queue!Cardinality, Cardinality

\* A row is an activity for an inbox.
LEMMA RowShape ==
  /\ \A d \in Deliveries : d[1] \in Activities /\ d[2] \in Inboxes /\ d = <<d[1], d[2]>>
  /\ \A a \in Activities, i \in Inboxes : <<a, i>> \in Deliveries
  BY DEF Deliveries

LEMMA AcceptedIsFinite ==
  ASSUME Queue!TypeOK
  PROVE  IsFiniteSet(accepted) /\ Cardinality(accepted) \in Nat
  <1>1. accepted \subseteq Deliveries /\ IsFiniteSet(Deliveries)
    BY HubAssumption, SameFinite DEF Queue!TypeOK, Queue!QueueAssumption
  <1>2. IsFiniteSet(accepted)
    BY <1>1, FS_Subset
  <1> QED
    BY <1>2, FS_CardinalityType

LEMMA QueueIds ==
  ASSUME Queue!TypeOK, RowsHold
  PROVE  /\ \A d \in Deliveries : id[d] \in Nat
         /\ pass \subseteq queue /\ queue \subseteq accepted /\ accepted \subseteq Deliveries
  BY DEF Queue!TypeOK, RowsHold

\* A pass is at one row at a time.
LEMMA OneRowAtATime ==
  ASSUME Queue!TypeOK, RowsHold, NEW d \in Queue!Current, NEW e \in Queue!Current
  PROVE  d = e
  <1>1. d \in accepted /\ e \in accepted /\ id[d] <= id[e] /\ id[e] <= id[d]
    BY DEF Queue!Current, Queue!TypeOK, RowsHold
  <1>2. id[d] \in Nat /\ id[e] \in Nat
    BY <1>1, QueueIds
  <1> QED
    BY <1>1, <1>2 DEF RowsHold

\* What it is at is the first of the inbox that is still queued.
LEMMA CurrentIsFirst ==
  ASSUME QueueHolds, NEW i \in Inboxes, ~Retried(i), NEW a \in Activities,
         <<a, i>> \in Queue!Current, NEW b \in Activities, <<b, i>> \in queue
  PROVE  id[<<a, i>>] <= id[<<b, i>>]
  <1>1. Queue!TypeOK /\ RowsHold /\ InTurn(i)
    BY DEF QueueHolds
  <1>2. id[<<a, i>>] \in Nat /\ id[<<b, i>>] \in Nat
    BY <1>1, RowShape, QueueIds
  <1>3. <<a, i>> \in pass /\ \A e \in pass : id[<<a, i>>] <= id[e]
    BY DEF Queue!Current
  <1>4. CASE id[<<b, i>>] < id[<<a, i>>]
    <2>1. <<b, i>> \in pass
      BY <1>1, <1>3, <1>4 DEF InTurn
    <2> QED
      BY <1>3, <2>1
  <1> QED
    BY <1>2, <1>4

-----------------------------------------------------------------------------
(* The queue's actions. *)

LEMMA HubEnqueue ==
  ASSUME QueueHolds, NEW d \in Deliveries, Queue!Enqueue(d)
  PROVE  /\ QueueHolds'
         /\ accepted' = accepted \cup {d}
         /\ \A e \in accepted : id'[e] = id[e] /\ id'[e] < id'[d]
         /\ UNCHANGED <<got, fails>>
  <1> DEFINE n == Cardinality(accepted)
  <1>0. /\ Queue!TypeOK /\ RowsHold /\ OutcomeHolds
        /\ \A i \in Inboxes : ~Retried(i) => InTurn(i)
        /\ d \notin accepted /\ d \notin queue /\ d \notin pass
        /\ accepted \subseteq Deliveries
    BY DEF QueueHolds, Queue!Enqueue, RowsHold, Queue!TypeOK
  <1>1. n \in Nat /\ IsFiniteSet(accepted) /\ accepted' = accepted \cup {d}
    BY <1>0, AcceptedIsFinite DEF Queue!Enqueue
  <1>2. Cardinality(accepted') = n + 1
    BY <1>0, <1>1, FS_AddElement
  <1>3. id' = [id EXCEPT ![d] = n + 1] /\ id \in [Deliveries -> Nat]
    BY <1>0, SameCardinality DEF Queue!Enqueue, Queue!TypeOK
  <1>4. \A e \in accepted : id[e] \in 1 .. n
    BY <1>0 DEF RowsHold
  <1> HIDE DEF n
  <1>5. id'[d] = n + 1 /\ id' \in [Deliveries -> Nat]
        /\ \A e \in Deliveries : e # d => id'[e] = id[e]
    BY <1>1, <1>3
  <1>6. /\ queue' = queue \cup {d}
        /\ UNCHANGED <<attempts, wait, pass, outcome, up, faults, posts, fails, got, refused>>
    BY DEF Queue!Enqueue
  <1>7. Queue!TypeOK'
    BY <1>0, <1>1, <1>5, <1>6 DEF Queue!TypeOK
  <1>8. \A e \in accepted : id'[e] = id[e] /\ id'[e] < id'[d]
    BY <1>0, <1>1, <1>4, <1>5
  <1>9. RowsHold'
    <2>1. queue' \subseteq accepted'
      BY <1>0, <1>1, <1>6 DEF RowsHold
    <2>2. \A e \in accepted' : id'[e] \in 1 .. n + 1
      BY <1>1, <1>4, <1>5, <1>8
    <2>3. ASSUME NEW e \in accepted', NEW f \in accepted', id'[e] = id'[f] PROVE e = f
      <3>1. CASE e \in accepted /\ f \in accepted
        BY <1>0, <1>8, <2>3, <3>1 DEF RowsHold
      <3>2. CASE e = d \/ f = d
        <4>1. \A g \in accepted : id'[g] \in Nat /\ id'[d] \in Nat /\ id'[g] < id'[d]
          BY <1>0, <1>5, <1>8
        <4> QED
          BY <1>1, <2>3, <3>2, <4>1
      <3> QED
        BY <1>1, <3>1, <3>2
    <2>4. \A e \in Deliveries : got'[e] > 0 => e \in accepted'
      BY <1>0, <1>1, <1>6 DEF RowsHold
    <2> QED
      BY <1>2, <2>1, <2>2, <2>3, <2>4 DEF RowsHold
  <1>10. Queue!Current' = Queue!Current
    BY <1>0, <1>5, <1>6 DEF Queue!Current, Queue!TypeOK
  <1>11. OutcomeHolds'
    BY <1>0, <1>6, <1>10 DEF OutcomeHolds
  <1>12. ASSUME NEW i \in Inboxes, ~Retried(i)' PROVE InTurn(i)'
    <2>1. InTurn(i)
      BY <1>0, <1>6, <1>12 DEF Retried
    <2>2. \A a \in Activities : wait'[<<a, i>>] = 0
      BY <1>6, <2>1 DEF InTurn
    <2>3. ASSUME NEW a \in Activities, NEW b \in Activities, <<a, i>> \in pass',
                 <<b, i>> \in queue', id'[<<b, i>>] < id'[<<a, i>>]
          PROVE  <<b, i>> \in pass'
      <3>1. <<a, i>> \in accepted
        BY <1>0, <1>6, <2>3, QueueIds
      <3>2. <<b, i>> # d
        BY <1>0, <1>5, <1>8, <2>3, <3>1
      <3>3. <<b, i>> \in queue /\ <<b, i>> \in accepted
        BY <1>0, <1>6, <2>3, <3>2, QueueIds
      <3> QED
        BY <1>6, <1>8, <2>1, <2>3, <3>1, <3>3 DEF InTurn
    <2>4. ASSUME NEW a \in Activities, <<a, i>> \in accepted', <<a, i>> \notin queue'
          PROVE  got'[<<a, i>>] > 0
      BY <1>1, <1>6, <2>1, <2>4 DEF InTurn
    <2>5. ASSUME NEW a \in Activities, NEW b \in Activities,
                 got'[<<a, i>>] > 0, <<b, i>> \in queue'
          PROVE  id'[<<a, i>>] <= id'[<<b, i>>]
      <3>1. <<a, i>> \in accepted
        BY <1>0, <1>6, <2>5, RowShape DEF RowsHold
      <3>2. CASE <<b, i>> = d
        <4>1. id'[<<a, i>>] \in Nat /\ id'[d] \in Nat
          BY <1>5, RowShape
        <4> QED
          BY <1>8, <3>1, <3>2, <4>1
      <3>3. CASE <<b, i>> # d
        <4>1. <<b, i>> \in queue /\ <<b, i>> \in accepted
          BY <1>0, <1>6, <2>5, <3>3, QueueIds
        <4> QED
          BY <1>6, <1>8, <2>1, <2>5, <3>1, <4>1 DEF InTurn
      <3> QED
        BY <3>2, <3>3
    <2> QED
      BY <2>2, <2>3, <2>4, <2>5 DEF InTurn
  <1> QED
    BY <1>1, <1>6, <1>7, <1>8, <1>9, <1>11, <1>12 DEF QueueHolds

\* A tick fetches the first rows that are due: with a row all those before it of
\* an inbox that has none backing off.
LEMMA DueIsPrefix ==
  ASSUME QueueHolds, NEW d \in Queue!Due, NEW e \in queue, wait[e] = 0, id[e] < id[d]
  PROVE  e \in Queue!Due
  <1> DEFINE ready == {f \in queue : wait[f] = 0}
             Before(g) == {f \in ready : id[f] < id[g]}
  <1>0. Queue!TypeOK /\ RowsHold
    BY DEF QueueHolds
  <1>1. d \in ready /\ Cardinality(Before(d)) < Batch /\ e \in ready
    BY SameCardinality DEF Queue!Due, Queue!Oldest
  <1>2. ready \subseteq accepted /\ \A f \in ready : id[f] \in Nat
    BY <1>0, QueueIds
  <1>3. Before(e) \subseteq Before(d)
    BY <1>1, <1>2
  <1>4. IsFiniteSet(Before(d)) /\ IsFiniteSet(Before(e))
    <2>1. IsFiniteSet(accepted)
      BY <1>0, AcceptedIsFinite
    <2>2. Before(d) \subseteq accepted /\ Before(e) \subseteq accepted
      BY <1>2
    <2> QED
      BY <2>1, <2>2, FS_Subset
  <1> HIDE DEF ready
  <1>5. Cardinality(Before(e)) <= Cardinality(Before(d))
    BY <1>3, <1>4, FS_Subset
  <1>6. Cardinality(Before(e)) \in Nat /\ Cardinality(Before(d)) \in Nat /\ Batch \in Nat
    BY <1>4, FS_CardinalityType, HubAssumption DEF Queue!QueueAssumption
  <1>7. Cardinality(Before(e)) < Batch
    BY <1>1, <1>5, <1>6
  <1> QED
    BY <1>1, <1>7, SameCardinality DEF Queue!Due, Queue!Oldest, ready

LEMMA HubStartPass ==
  ASSUME QueueHolds, Queue!StartPass
  PROVE  QueueHolds'
  <1>0. /\ Queue!TypeOK /\ RowsHold /\ OutcomeHolds
        /\ \A i \in Inboxes : ~Retried(i) => InTurn(i)
        /\ pass = {} /\ outcome = "none" /\ pass' = Queue!Due /\ pass' \subseteq queue
        /\ UNCHANGED <<queue, id, attempts, wait, outcome, up, faults, accepted,
                       posts, fails, got, refused>>
    BY DEF QueueHolds, Queue!StartPass, Queue!Due, Queue!Oldest, Queue!TypeOK
  <1>1. Queue!TypeOK' /\ RowsHold'
    BY <1>0 DEF Queue!TypeOK, RowsHold
  <1>2. OutcomeHolds'
    BY <1>0 DEF OutcomeHolds
  <1>3. ASSUME NEW i \in Inboxes, ~Retried(i)' PROVE InTurn(i)'
    <2>1. InTurn(i)
      BY <1>0, <1>3 DEF Retried
    <2>2. ASSUME NEW a \in Activities, NEW b \in Activities, <<a, i>> \in pass',
                 <<b, i>> \in queue', id'[<<b, i>>] < id'[<<a, i>>]
          PROVE  <<b, i>> \in pass'
      <3>1. wait[<<b, i>>] = 0
        BY <2>1 DEF InTurn
      <3> QED
        BY <1>0, <2>2, <3>1, DueIsPrefix
    <2> QED
      BY <1>0, <2>1, <2>2 DEF InTurn
  <1> QED
    BY <1>1, <1>2, <1>3 DEF QueueHolds

LEMMA HubPost ==
  ASSUME QueueHolds, NEW d \in Deliveries, NEW arrives \in BOOLEAN,
         NEW result \in {"ok", "error"}, Queue!Post(d, arrives, result)
  PROVE  /\ QueueHolds'
         /\ UNCHANGED <<id, accepted, queue>>
         /\ \A i \in Inboxes : ~Retried(i)' => ~Retried(i)
         /\ result = "error" => Retried(d[2])'
         /\ result = "ok" => arrives
         /\ \A e \in Deliveries : e # d => got'[e] = got[e]
         /\ got'[d] = IF arrives THEN got[d] + 1 ELSE got[d]
  <1>0. /\ Queue!TypeOK /\ RowsHold /\ OutcomeHolds
        /\ \A i \in Inboxes : ~Retried(i) => InTurn(i)
        /\ d \in Queue!Current /\ d \in pass /\ d \in queue /\ d \in accepted
        /\ UNCHANGED <<queue, id, attempts, wait, pass, up, faults, accepted, refused>>
    BY DEF QueueHolds, Queue!Post, Queue!TypeOK, Queue!Current, RowsHold
  <1>1. /\ posts' = [posts EXCEPT ![d] = posts[d] + 1]
        /\ got'   = [got EXCEPT ![d] = IF arrives THEN got[d] + 1 ELSE got[d]]
        /\ fails' = [fails EXCEPT ![d] = IF result = "ok" THEN fails[d] ELSE fails[d] + 1]
        /\ outcome' = result /\ (result = "ok" => arrives)
    BY DEF Queue!Post
  <1>2. /\ posts \in [Deliveries -> Nat] /\ got \in [Deliveries -> Nat]
        /\ fails \in [Deliveries -> Nat]
    BY <1>0 DEF Queue!TypeOK
  <1>3. /\ \A e \in Deliveries : e # d => got'[e] = got[e] /\ fails'[e] = fails[e]
        /\ got'[d] = IF arrives THEN got[d] + 1 ELSE got[d]
        /\ fails'[d] = IF result = "ok" THEN fails[d] ELSE fails[d] + 1
        /\ \A e \in Deliveries : got[e] > 0 => got'[e] > 0
        /\ \A e \in Deliveries : fails[e] > 0 => fails'[e] > 0
    BY <1>1, <1>2
  <1>4. Queue!TypeOK'
    BY <1>0, <1>1, <1>2 DEF Queue!TypeOK
  <1>5. RowsHold'
    BY <1>0, <1>3 DEF RowsHold
  <1>6. ASSUME NEW e \in Queue!Current' PROVE e = d
    BY <1>0, <1>6, OneRowAtATime DEF Queue!Current
  <1>7. OutcomeHolds'
    <2>1. result = "ok" => got'[d] > 0
      BY <1>1, <1>2, <1>3
    <2>2. result = "error" => fails'[d] > 0
      BY <1>2, <1>3
    <2> QED
      BY <1>1, <1>6, <2>1, <2>2 DEF OutcomeHolds
  <1>8. \A i \in Inboxes : ~Retried(i)' => ~Retried(i)
    BY <1>3, RowShape DEF Retried
  <1>9. result = "error" => Retried(d[2])'
    <2>1. result = "error" => fails'[d] > 0
      BY <1>2, <1>3
    <2>2. d[1] \in Activities /\ <<d[1], d[2]>> = d
      BY RowShape
    <2>3. result = "error" => fails'[<<d[1], d[2]>>] > 0
      BY <2>1, <2>2
    <2> QED
      BY <2>2, <2>3 DEF Retried
  <1>10. ASSUME NEW i \in Inboxes, ~Retried(i)' PROVE InTurn(i)'
    <2>1. ~Retried(i) /\ InTurn(i)
      BY <1>0, <1>8, <1>10
    <2>2. ASSUME NEW a \in Activities, NEW b \in Activities,
                 got'[<<a, i>>] > 0, <<b, i>> \in queue
          PROVE  id[<<a, i>>] <= id[<<b, i>>]
      <3>1. CASE <<a, i>> = d
        BY <1>0, <2>1, <2>2, <3>1, CurrentIsFirst
      <3>2. CASE <<a, i>> # d
        <4>1. got[<<a, i>>] > 0
          BY <1>3, <2>2, <3>2, RowShape
        <4> QED
          BY <2>1, <2>2, <4>1 DEF InTurn
      <3> QED
        BY <3>1, <3>2
    <2> QED
      BY <1>0, <1>3, <2>1, <2>2, RowShape DEF InTurn
  <1> QED
    BY <1>0, <1>1, <1>3, <1>4, <1>5, <1>7, <1>8, <1>9, <1>10 DEF QueueHolds

LEMMA HubMarkDelivered ==
  ASSUME QueueHolds, NEW d \in Deliveries, Queue!MarkDelivered(d)
  PROVE  QueueHolds'
  <1>0. /\ Queue!TypeOK /\ RowsHold /\ OutcomeHolds
        /\ \A i \in Inboxes : ~Retried(i) => InTurn(i)
        /\ d \in Queue!Current /\ d \in queue /\ outcome = "ok" /\ outcome' = "none"
        /\ queue' = queue \ {d} /\ pass' = pass \ {d}
        /\ UNCHANGED <<id, attempts, wait, up, faults, accepted, posts, fails, got,
                       refused>>
    BY DEF QueueHolds, Queue!MarkDelivered, Queue!Current, Queue!TypeOK
  <1>1. Queue!TypeOK' /\ RowsHold' /\ OutcomeHolds'
    BY <1>0 DEF Queue!TypeOK, RowsHold, OutcomeHolds
  <1>2. got[d] > 0
    BY <1>0 DEF OutcomeHolds
  <1>3. ASSUME NEW i \in Inboxes, ~Retried(i)' PROVE InTurn(i)'
    <2>1. InTurn(i)
      BY <1>0, <1>3 DEF Retried
    <2>2. ASSUME NEW a \in Activities, NEW b \in Activities, <<a, i>> \in pass',
                 <<b, i>> \in queue', id[<<b, i>>] < id[<<a, i>>]
          PROVE  <<b, i>> \in pass'
      <3>1. <<b, i>> \in pass /\ <<b, i>> # d
        BY <1>0, <2>1, <2>2 DEF InTurn
      <3> QED
        BY <1>0, <3>1
    <2> QED
      BY <1>0, <1>2, <2>1, <2>2 DEF InTurn
  <1> QED
    BY <1>1, <1>3 DEF QueueHolds

\* The backoff is a number of seconds.
LEMMA HubBackoff == \A n \in Nat : Queue!BackoffSecs(n) \in Nat
  <1> SUFFICES ASSUME NEW n \in Nat PROVE Queue!BackoffSecs(n) \in Nat
    OBVIOUS
  <1>1. Queue!MinOf(n, 16) \in 0 .. 16
    BY DEF Queue!MinOf
  <1> DEFINE shift == 2 ^ Queue!MinOf(n, 16)
  <1>2. shift \in Nat
    BY <1>1, HubAssumption DEF Queue!ShiftAssumption
  <1> HIDE DEF shift
  <1>3. Base * shift \in Nat /\ BackoffCap \in Nat
    BY <1>2, HubAssumption DEF Queue!QueueAssumption
  <1>4. Queue!BackoffSecs(n) = Queue!MinOf(Base * shift, BackoffCap)
    BY DEF Queue!BackoffSecs, shift
  <1> QED
    BY <1>3, <1>4 DEF Queue!MinOf

\* A failure takes its inbox out of those of which anything is said.
LEMMA HubMarkFailed ==
  ASSUME QueueHolds, NEW d \in Deliveries, Queue!MarkFailed(d)
  PROVE  QueueHolds'
  <1> DEFINE n == attempts[d] + 1
  <1>0. /\ Queue!TypeOK /\ RowsHold /\ OutcomeHolds
        /\ \A i \in Inboxes : ~Retried(i) => InTurn(i)
        /\ d \in Queue!Current /\ d \in queue /\ outcome = "error" /\ outcome' = "none"
        /\ pass' = pass \ {d}
        /\ UNCHANGED <<id, up, faults, accepted, posts, fails, got, refused>>
    BY DEF QueueHolds, Queue!MarkFailed, Queue!Current, Queue!TypeOK
  <1>1. /\ attempts \in [Deliveries -> 0 .. MaxAttempts - 1] /\ n \in Nat
        /\ MaxAttempts \in Nat /\ wait \in [Deliveries -> Nat]
    BY <1>0, HubAssumption DEF Queue!TypeOK, Queue!QueueAssumption
  <1>2. /\ queue' \in {queue, queue \ {d}}
        /\ attempts' \in [Deliveries -> 0 .. MaxAttempts - 1]
        /\ wait' \in [Deliveries -> Nat]
        /\ \A e \in Deliveries : e # d => wait'[e] = wait[e]
    <2>1. CASE n >= MaxAttempts /\ queue' = queue \ {d} /\ UNCHANGED <<attempts, wait>>
      BY <1>1, <2>1
    <2>2. CASE /\ n < MaxAttempts /\ UNCHANGED queue
               /\ attempts' = [attempts EXCEPT ![d] = n]
               /\ wait' = [wait EXCEPT ![d] = Queue!BackoffSecs(n)]
      <3>1. n \in 0 .. MaxAttempts - 1 /\ Queue!BackoffSecs(n) \in Nat
        BY <1>1, <2>2, HubBackoff
      <3> QED
        BY <1>1, <2>2, <3>1
    <2> QED
      BY <2>1, <2>2 DEF Queue!MarkFailed
  <1>3. Queue!TypeOK' /\ RowsHold' /\ OutcomeHolds'
    BY <1>0, <1>2 DEF Queue!TypeOK, RowsHold, OutcomeHolds
  <1>4. fails[d] > 0
    BY <1>0 DEF OutcomeHolds
  <1>5. ASSUME NEW i \in Inboxes, ~Retried(i)' PROVE InTurn(i)'
    <2>1. ~Retried(i) /\ InTurn(i)
      BY <1>0, <1>5 DEF Retried
    <2>2. \A a \in Activities : <<a, i>> # d /\ <<a, i>> \in Deliveries
      BY <1>4, <2>1, RowShape DEF Retried
    <2> QED
      BY <1>0, <1>2, <2>1, <2>2 DEF InTurn
  <1> QED
    BY <1>3, <1>5 DEF QueueHolds

\* A pass that ends in the middle may leave a row that arrived.
LEMMA HubPassEnds ==
  ASSUME QueueHolds, Queue!PassFails \/ Queue!Crash
  PROVE  QueueHolds'
  <1>0. /\ Queue!TypeOK /\ RowsHold
        /\ \A i \in Inboxes : ~Retried(i) => InTurn(i)
        /\ pass' = {} /\ outcome' = "none" /\ faults' = faults + 1 /\ faults < MaxFaults
        /\ up' \in BOOLEAN
        /\ UNCHANGED <<queue, id, attempts, wait, accepted, posts, fails, got, refused>>
    BY DEF QueueHolds, Queue!PassFails, Queue!Crash, Queue!TypeOK
  <1>1. faults' \in 0 .. MaxFaults
    BY <1>0, HubAssumption DEF Queue!TypeOK, Queue!QueueAssumption
  <1>2. Queue!TypeOK' /\ RowsHold' /\ OutcomeHolds'
    BY <1>0, <1>1 DEF Queue!TypeOK, RowsHold, OutcomeHolds, Queue!Current
  <1>3. ASSUME NEW i \in Inboxes, ~Retried(i)' PROVE InTurn(i)'
    <2>1. InTurn(i)
      BY <1>0, <1>3 DEF Retried
    <2> QED
      BY <1>0, <2>1 DEF InTurn
  <1> QED
    BY <1>2, <1>3 DEF QueueHolds

\* A restart, time and an error of a session leave rows and pass as they are.
LEMMA HubWaits ==
  ASSUME QueueHolds, up' \in BOOLEAN, faults' \in 0 .. MaxFaults,
         Queue!Elapse \/ UNCHANGED wait,
         UNCHANGED <<queue, id, attempts, pass, outcome, accepted, posts, fails, got,
                     refused>>
  PROVE  QueueHolds'
  <1>0. /\ Queue!TypeOK /\ RowsHold /\ OutcomeHolds
        /\ \A i \in Inboxes : ~Retried(i) => InTurn(i)
        /\ wait \in [Deliveries -> Nat]
    BY DEF QueueHolds, Queue!TypeOK
  <1>1. /\ wait' \in [Deliveries -> Nat]
        /\ \A d \in Deliveries : wait[d] = 0 => wait'[d] = 0
    <2>1. CASE Queue!Elapse
      <3>1. ASSUME NEW d \in Deliveries
            PROVE  (IF wait[d] > 0 THEN wait[d] - 1 ELSE 0) \in Nat
        BY <1>0
      <3> QED
        BY <1>0, <2>1, <3>1 DEF Queue!Elapse
    <2>2. CASE UNCHANGED wait
      BY <1>0, <2>2
    <2> QED
      BY <2>1, <2>2
  <1>2. Queue!TypeOK' /\ RowsHold'
    BY <1>0, <1>1 DEF Queue!TypeOK, RowsHold
  <1>3. Queue!Current' = Queue!Current
    BY DEF Queue!Current
  <1>4. OutcomeHolds'
    BY <1>0, <1>3 DEF OutcomeHolds
  <1>5. ASSUME NEW i \in Inboxes, ~Retried(i)' PROVE InTurn(i)'
    <2>1. InTurn(i)
      BY <1>0, <1>5 DEF Retried
    <2> QED
      BY <1>1, <2>1, RowShape DEF InTurn
  <1> QED
    BY <1>2, <1>4, <1>5 DEF QueueHolds

-----------------------------------------------------------------------------
(* The sessions' actions. *)

LEMMA RankShape ==
  /\ MaxEdits \in Nat /\ Absent = MaxEdits + 1 /\ 0 # Absent
  /\ <<"create", 0>> \in Activities /\ <<"delete", 0>> \in Activities
  /\ \A k \in 1 .. MaxEdits : <<"update", k>> \in Activities
  /\ \A a \in Activities :
        /\ Rank(a) \in 0 .. Absent
        /\ a[1] \in {"create", "update", "delete"}
        /\ a[1] = "create" => a = <<"create", 0>> /\ Rank(a) = 0
        /\ a[1] = "delete" => Rank(a) = Absent
        /\ a[1] = "update" => Rank(a) = a[2] /\ a[2] \in 1 .. MaxEdits
  /\ Rank(<<"create", 0>>) = 0 /\ Rank(<<"delete", 0>>) = Absent
  /\ \A k \in 1 .. MaxEdits : Rank(<<"update", k>>) = k
  <1>0. MaxEdits \in Nat /\ Absent = MaxEdits + 1
    BY HubAssumption DEF Absent
  <1>1. /\ <<"create", 0>> \in Activities /\ <<"delete", 0>> \in Activities
        /\ \A k \in 1 .. MaxEdits : <<"update", k>> \in Activities
    BY DEF Activities
  <1>2. ASSUME NEW a \in Activities
        PROVE  /\ Rank(a) \in 0 .. Absent
               /\ a[1] \in {"create", "update", "delete"}
               /\ a[1] = "create" => a = <<"create", 0>> /\ Rank(a) = 0
               /\ a[1] = "delete" => Rank(a) = Absent
               /\ a[1] = "update" => Rank(a) = a[2] /\ a[2] \in 1 .. MaxEdits
    <2>1. CASE a = <<"create", 0>>
      BY <1>0, <2>1 DEF Rank
    <2>2. CASE a = <<"delete", 0>>
      BY <1>0, <2>2 DEF Rank
    <2>3. CASE a \in {"update"} \X (1 .. MaxEdits)
      <3>1. a[1] = "update" /\ a[2] \in 1 .. MaxEdits
        BY <2>3
      <3>2. Rank(a) = a[2]
        BY <3>1 DEF Rank
      <3> QED
        BY <1>0, <3>1, <3>2
    <2> QED
      BY <2>1, <2>2, <2>3 DEF Activities
  <1>3. /\ Rank(<<"create", 0>>) = 0 /\ Rank(<<"delete", 0>>) = Absent
        /\ \A k \in 1 .. MaxEdits : Rank(<<"update", k>>) = k
    BY DEF Rank
  <1> QED
    BY <1>0, <1>1, <1>2, <1>3

\* An activity is told by its rank.
LEMMA RankTells ==
  ASSUME NEW a \in Activities, NEW b \in Activities, Rank(a) = Rank(b)
  PROVE  a = b
  <1>1. CASE a \in {"update"} \X (1 .. MaxEdits)
    <2>1. a[1] = "update" /\ a = <<a[1], a[2]>>
      BY <1>1
    <2>2. b[1] = "update"
      <3>1. Rank(a) = a[2] /\ a[2] \in 1 .. MaxEdits
        BY <2>1, RankShape
      <3>2. Rank(b) # 0 /\ Rank(b) # Absent
        BY <3>1, RankShape
      <3> QED
        BY <3>2, RankShape
    <2>3. b \in {"update"} \X (1 .. MaxEdits)
      BY <2>2 DEF Activities
    <2>4. b = <<b[1], b[2]>>
      BY <2>3
    <2>5. Rank(a) = a[2] /\ Rank(b) = b[2]
      BY <2>1, <2>2, RankShape
    <2> QED
      BY <2>1, <2>2, <2>4, <2>5
  <1>2. CASE a = <<"create", 0>>
    <2>1. b[1] = "create"
      <3>1. Rank(b) = 0
        BY <1>2, RankShape
      <3> QED
        BY <3>1, RankShape
    <2> QED
      BY <1>2, <2>1, RankShape
  <1>3. CASE a = <<"delete", 0>>
    <2>1. b[1] = "delete"
      <3>1. Rank(b) = Absent
        BY <1>3, RankShape
      <3> QED
        BY <3>1, RankShape
    <2>2. b = <<"delete", 0>>
      BY <2>1 DEF Activities
    <2> QED
      BY <1>3, <2>2
  <1> QED
    BY <1>1, <1>2, <1>3 DEF Activities

LEMMA StepDoing ==
  ASSUME HubTypeOK, NEW p \in Actors, NEW from, NEW to,
         to \in {"idle", "read", "mint", "enqueue", "delete"}, Step(p, from, to)
  PROVE  /\ up /\ doing[p] = from /\ doing'[p] = to
         /\ \A q \in Actors : q # p => doing'[q] = doing[q]
         /\ doing' \in [Actors -> {"idle", "read", "mint", "enqueue", "delete"}]
  BY DEF HubTypeOK, Step

LEMMA BeginDoing ==
  ASSUME HubTypeOK, NEW p \in Actors, NEW to \in {"read", "delete"}, Begin(p, to)
  PROVE  /\ up /\ doing[p] = "idle" /\ doing'[p] = to
         /\ \A q \in Actors : q # p => doing'[q] = doing[q]
         /\ doing' \in [Actors -> {"idle", "read", "mint", "enqueue", "delete"}]
         /\ cut' \subseteq {"crash", "error", "race"}
         /\ cut' = {} => cut = {} /\ \A q \in Actors : doing[q] = "idle"
  <1>1. Step(p, "idle", to)
        /\ cut' = IF \E q \in Actors \ {p} : doing[q] # "idle" THEN cut \cup {"race"} ELSE cut
    BY DEF Begin
  <1>2. /\ up /\ doing[p] = "idle" /\ doing'[p] = to
        /\ \A q \in Actors : q # p => doing'[q] = doing[q]
        /\ doing' \in [Actors -> {"idle", "read", "mint", "enqueue", "delete"}]
    BY <1>1, StepDoing
  <1> QED
    BY <1>1, <1>2 DEF HubTypeOK

\* What a session addresses goes to every subscriber.
LEMMA AddressTo ==
  ASSUME HubTypeOK, NEW p \in Actors, NEW a \in Activities, Address(p, a)
  PROVE  /\ act' \in [Actors -> Activities] /\ left' \in [Actors -> SUBSET Inboxes]
         /\ act'[p] = a /\ left'[p] = Inboxes
         /\ \A q \in Actors : q # p => act'[q] = act[q] /\ left'[q] = left[q]
  BY DEF HubTypeOK, Address

LEMMA ActorNames ==
  /\ "author" \in Actors /\ "admin" \in Actors /\ "author" # "admin"
  /\ \A p \in Actors : p = "author" \/ p = "admin"
  BY DEF Actors

LEMMA SubmitStep ==
  ASSUME HubHolds, SubmitPost
  PROVE  HubHolds' /\ (cut' = {} => cut = {})
  <1>0. /\ HubTypeOK /\ PostHolds /\ (cut = {} => TurnsTaken /\ Told)
        /\ ~posted /\ posted' = TRUE /\ post' = 0
        /\ UNCHANGED <<uri, act, left, mirror, id, accepted>>
    BY DEF HubHolds, SubmitPost, queueVars
  <1>1. /\ up /\ doing["author"] = "idle" /\ doing'["author"] = "read"
        /\ \A q \in Actors : q # "author" => doing'[q] = doing[q]
        /\ doing' \in [Actors -> {"idle", "read", "mint", "enqueue", "delete"}]
        /\ cut' \subseteq {"crash", "error", "race"}
        /\ cut' = {} => cut = {} /\ \A q \in Actors : doing[q] = "idle"
    BY <1>0, ActorNames, BeginDoing DEF SubmitPost
  <1>2. \A q \in Actors : doing[q] = "idle"
    BY <1>0 DEF PostHolds
  <1>3. accepted = {}
    BY <1>0 DEF PostHolds
  <1>4. HubTypeOK'
    BY <1>0, <1>1, <1>2, ActorNames, RankShape DEF HubTypeOK
  <1>5. PostHolds'
    BY <1>0, <1>1, <1>2, <1>3, ActorNames DEF PostHolds
  <1>6. TurnsTaken'
    BY <1>0, <1>1, <1>2, ActorNames, RankShape DEF TurnsTaken
  <1>7. Told'
    BY <1>0, <1>1, <1>3, ActorNames DEF Told, Owes
  <1> QED
    BY <1>1, <1>4, <1>5, <1>6, <1>7 DEF HubHolds

LEMMA EditStep ==
  ASSUME QueueHolds, HubHolds, Edit
  PROVE  HubHolds' /\ (cut' = {} => cut = {})
  <1>0. /\ HubTypeOK /\ PostHolds /\ (cut = {} => TurnsTaken /\ Told)
        /\ post < MaxEdits /\ post' = post + 1 /\ post \in 0 .. Absent
        /\ UNCHANGED <<posted, uri, act, left, mirror, id, accepted>>
    BY DEF HubHolds, HubTypeOK, Edit, queueVars
  <1>1. /\ up /\ doing["author"] = "idle" /\ doing'["author"] = "read"
        /\ \A q \in Actors : q # "author" => doing'[q] = doing[q]
        /\ doing' \in [Actors -> {"idle", "read", "mint", "enqueue", "delete"}]
        /\ cut' \subseteq {"crash", "error", "race"}
        /\ cut' = {} => cut = {} /\ \A q \in Actors : doing[q] = "idle"
    BY <1>0, ActorNames, BeginDoing DEF Edit
  <1>2. post # Absent /\ post' # Absent /\ post' \in 0 .. Absent /\ post' # 0 /\ posted
    BY <1>0, RankShape DEF PostHolds
  <1>3. HubTypeOK'
    <2>1. \A p \in Actors : doing'[p] = "enqueue" => left[p] # {}
      BY <1>0, <1>1, ActorNames DEF HubTypeOK
    <2> QED
      BY <1>0, <1>1, <1>2, <2>1 DEF HubTypeOK
  <1>4. PostHolds'
    BY <1>0, <1>1, <1>2, ActorNames DEF PostHolds
  <1>5. ASSUME cut' = {} PROVE TurnsTaken' /\ Told'
    <2>0. TurnsTaken /\ Told /\ \A q \in Actors : doing[q] = "idle"
      BY <1>0, <1>1, <1>5
    <2>1. TurnsTaken'
      BY <1>0, <1>1, <1>2, <2>0, ActorNames DEF TurnsTaken
    <2>2. \A d \in accepted : Rank(d[1]) <= post'
      <3>1. ASSUME NEW d \in accepted PROVE Rank(d[1]) <= post + 1
        <4>1. Rank(d[1]) <= post
          BY <2>0 DEF Told
        <4>2. post \in Nat /\ Absent \in Nat
          BY <1>0, RankShape
        <4>3. d[1] \in Activities
          BY RowShape, QueueIds DEF QueueHolds
        <4>4. Rank(d[1]) \in Nat
          BY <4>2, <4>3, RankShape
        <4> QED
          BY <4>1, <4>2, <4>4
      <3> QED
        BY <1>0, <3>1
    <2>3. \A i \in Inboxes : <<<<"create", 0>>, i>> \in accepted
      <3>1. ASSUME NEW i \in Inboxes PROVE <<<<"create", 0>>, i>> \in accepted
        <4>1. CASE post # 0
          BY <1>2, <2>0, <4>1 DEF Told
        <4>2. CASE post = 0
          <5>1. PICK a \in Activities : <<a, i>> \in accepted /\ Rank(a) = post
            BY <1>2, <2>0 DEF Told, Owes
          <5>2. a = <<"create", 0>>
            BY <4>2, <5>1, RankShape, RankTells
          <5> QED
            BY <5>1, <5>2
        <4> QED
          BY <4>1, <4>2
      <3> QED
        BY <3>1
    <2>4. \A i \in Inboxes : Owes("author", i)'
      BY <1>1 DEF Owes
    <2> QED
      BY <1>0, <2>0, <2>1, <2>2, <2>3, <2>4, ActorNames DEF Told
  <1> QED
    BY <1>1, <1>3, <1>4, <1>5 DEF HubHolds

LEMMA ReadStep ==
  ASSUME HubHolds, Read
  PROVE  HubHolds' /\ (cut' = {} => cut = {})
  <1>0. /\ HubTypeOK /\ PostHolds /\ (cut = {} => TurnsTaken /\ Told)
        /\ post \in 0 .. Absent
        /\ UNCHANGED <<post, posted, uri, mirror, cut, id, accepted>>
    BY DEF HubHolds, HubTypeOK, Read, queueVars
  <1>1. CASE post # Absent
    <2> DEFINE a == IF post = 0 THEN <<"create", 0>> ELSE <<"update", post>>
    <2>1. Step("author", "read", "mint") /\ Address("author", a)
      BY <1>1 DEF Read
    <2>2. a \in Activities /\ Rank(a) = post /\ a[1] # "delete"
      <3>1. CASE post = 0
        BY <3>1, RankShape
      <3>2. CASE post # 0
        <4>1. post \in 1 .. MaxEdits
          BY <1>0, <1>1, <3>2, RankShape
        <4> QED
          BY <3>2, <4>1, RankShape
      <3> QED
        BY <3>1, <3>2
    <2> HIDE DEF a
    <2>3. /\ doing["author"] = "read" /\ doing'["author"] = "mint"
          /\ \A q \in Actors : q # "author" => doing'[q] = doing[q]
          /\ doing' \in [Actors -> {"idle", "read", "mint", "enqueue", "delete"}]
      BY <1>0, <2>1, ActorNames, StepDoing
    <2>4. /\ act' \in [Actors -> Activities] /\ left' \in [Actors -> SUBSET Inboxes]
          /\ act'["author"] = a /\ left'["author"] = Inboxes
          /\ \A q \in Actors : q # "author" => act'[q] = act[q] /\ left'[q] = left[q]
      BY <1>0, <2>1, <2>2, ActorNames, AddressTo
    <2>5. HubTypeOK'
      <3>1. \A p \in Actors : doing'[p] = "enqueue" => left'[p] # {}
        BY <1>0, <2>3, <2>4, ActorNames DEF HubTypeOK
      <3> QED
        BY <1>0, <2>3, <2>4, <3>1 DEF HubTypeOK
    <2>6. PostHolds'
      BY <1>0, <2>2, <2>3, <2>4, ActorNames DEF PostHolds
    <2>7. ASSUME cut' = {} PROVE TurnsTaken' /\ Told'
      <3>0. TurnsTaken /\ Told
        BY <1>0, <2>7
      <3>1. \A q \in Actors : q # "author" => doing[q] = "idle"
        BY <2>3, <3>0, ActorNames DEF TurnsTaken
      <3>2. TurnsTaken'
        BY <1>0, <1>1, <2>2, <2>3, <2>4, <3>0, <3>1, ActorNames DEF TurnsTaken
      <3>3. \A i \in Inboxes : Owes("author", i)'
        BY <2>3 DEF Owes
      <3> QED
        BY <1>0, <3>0, <3>2, <3>3, ActorNames DEF Told
    <2> QED
      BY <1>0, <2>5, <2>6, <2>7 DEF HubHolds
  <1>2. CASE post = Absent
    <2>1. Step("author", "read", "idle") /\ UNCHANGED <<act, left>>
      BY <1>2 DEF Read
    <2>2. /\ doing["author"] = "read" /\ doing'["author"] = "idle"
          /\ \A q \in Actors : q # "author" => doing'[q] = doing[q]
          /\ doing' \in [Actors -> {"idle", "read", "mint", "enqueue", "delete"}]
      BY <1>0, <2>1, ActorNames, StepDoing
    <2>3. HubTypeOK'
      <3>1. \A p \in Actors : doing'[p] = "enqueue" => left[p] # {}
        BY <1>0, <2>2, ActorNames DEF HubTypeOK
      <3> QED
        BY <1>0, <2>1, <2>2, <3>1 DEF HubTypeOK
    <2>4. PostHolds'
      BY <1>0, <2>1, <2>2, ActorNames DEF PostHolds
    <2>5. cut # {}
      BY <1>0, <1>2, <2>2, ActorNames DEF TurnsTaken
    <2> QED
      BY <1>0, <2>3, <2>4, <2>5 DEF HubHolds
  <1> QED
    BY <1>1, <1>2

LEMMA MintStep ==
  ASSUME HubHolds, Mint
  PROVE  HubHolds' /\ (cut' = {} => cut = {})
  <1>0. /\ HubTypeOK /\ PostHolds /\ (cut = {} => TurnsTaken /\ Told)
        /\ UNCHANGED <<post, posted, act, mirror, cut, id, accepted>>
    BY DEF HubHolds, Mint, queueVars
  <1>1. CASE post # Absent
    <2>1. Step("author", "mint", "enqueue") /\ uri' = TRUE /\ UNCHANGED left
      BY <1>1 DEF Mint
    <2>2. /\ doing["author"] = "mint" /\ doing'["author"] = "enqueue"
          /\ \A q \in Actors : q # "author" => doing'[q] = doing[q]
          /\ doing' \in [Actors -> {"idle", "read", "mint", "enqueue", "delete"}]
      BY <1>0, <2>1, ActorNames, StepDoing
    <2>3. left["author"] = Inboxes /\ Inboxes # {} /\ act["author"][1] # "delete"
      BY <1>0, <2>2, HubAssumption DEF PostHolds
    <2>4. HubTypeOK'
      <3>1. \A p \in Actors : doing'[p] = "enqueue" => left[p] # {}
        BY <1>0, <2>2, <2>3, ActorNames DEF HubTypeOK
      <3> QED
        BY <1>0, <2>1, <2>2, <3>1 DEF HubTypeOK
    <2>5. PostHolds'
      BY <1>0, <2>1, <2>2, <2>3, ActorNames DEF PostHolds
    <2>6. ASSUME cut' = {} PROVE TurnsTaken' /\ Told'
      <3>0. TurnsTaken /\ Told
        BY <1>0, <2>6
      <3>1. \A q \in Actors : q # "author" => doing[q] = "idle"
        BY <2>2, <3>0, ActorNames DEF TurnsTaken
      <3>2. TurnsTaken'
        BY <1>0, <1>1, <2>1, <2>2, <3>0, <3>1, ActorNames DEF TurnsTaken
      <3>3. \A i \in Inboxes : Owes("author", i)'
        BY <2>1, <2>2, <2>3 DEF Owes
      <3> QED
        BY <1>0, <3>0, <3>2, <3>3, ActorNames DEF Told
    <2> QED
      BY <1>0, <2>4, <2>5, <2>6 DEF HubHolds
  <1>2. CASE post = Absent
    <2>1. Step("author", "mint", "idle") /\ left' = [left EXCEPT !["author"] = {}]
          /\ UNCHANGED uri
      BY <1>2 DEF Mint
    <2>2. /\ doing["author"] = "mint" /\ doing'["author"] = "idle"
          /\ \A q \in Actors : q # "author" => doing'[q] = doing[q]
          /\ doing' \in [Actors -> {"idle", "read", "mint", "enqueue", "delete"}]
      BY <1>0, <2>1, ActorNames, StepDoing
    <2>3. left' \in [Actors -> SUBSET Inboxes]
          /\ \A q \in Actors : q # "author" => left'[q] = left[q]
      BY <1>0, <2>1 DEF HubTypeOK
    <2>4. HubTypeOK'
      <3>1. \A p \in Actors : doing'[p] = "enqueue" => left'[p] # {}
        BY <1>0, <2>2, <2>3, ActorNames DEF HubTypeOK
      <3> QED
        BY <1>0, <2>1, <2>2, <2>3, <3>1 DEF HubTypeOK
    <2>5. PostHolds'
      BY <1>0, <2>2, ActorNames DEF PostHolds
    <2>6. cut # {}
      BY <1>0, <1>2, <2>2, ActorNames DEF TurnsTaken
    <2> QED
      BY <1>0, <2>4, <2>5, <2>6 DEF HubHolds
  <1> QED
    BY <1>1, <1>2

LEMMA PrepareStep ==
  ASSUME HubHolds, NEW p \in Actors, Prepare(p)
  PROVE  HubHolds' /\ (cut' = {} => cut = {})
  <1>0. /\ HubTypeOK /\ PostHolds /\ (cut = {} => TurnsTaken /\ Told)
        /\ post # Absent /\ posted
        /\ UNCHANGED <<post, posted, uri, mirror, id, accepted>>
    BY DEF HubHolds, Prepare, PostHolds, queueVars
  <1>1. /\ up /\ doing[p] = "idle" /\ doing'[p] = "delete"
        /\ \A q \in Actors : q # p => doing'[q] = doing[q]
        /\ doing' \in [Actors -> {"idle", "read", "mint", "enqueue", "delete"}]
        /\ cut' \subseteq {"crash", "error", "race"}
        /\ cut' = {} => cut = {} /\ \A q \in Actors : doing[q] = "idle"
    BY <1>0, BeginDoing DEF Prepare
  <1>2. /\ act' \in [Actors -> Activities] /\ left' \in [Actors -> SUBSET Inboxes]
        /\ \A q \in Actors : q # p => act'[q] = act[q] /\ left'[q] = left[q]
        /\ uri => act'[p] = <<"delete", 0>> /\ left'[p] = Inboxes
    <2>1. CASE uri
      <3>1. Address(p, <<"delete", 0>>)
        BY <2>1 DEF Prepare
      <3> QED
        BY <1>0, <3>1, AddressTo, RankShape
    <2>2. CASE ~uri
      BY <1>0, <2>2 DEF Prepare, HubTypeOK
    <2> QED
      BY <2>1, <2>2
  <1>3. HubTypeOK'
    <2>1. \A q \in Actors : doing'[q] = "enqueue" => left'[q] # {}
      BY <1>0, <1>1, <1>2 DEF HubTypeOK
    <2> QED
      BY <1>0, <1>1, <1>2, <2>1 DEF HubTypeOK
  <1>4. PostHolds'
    BY <1>0, <1>1, <1>2, ActorNames DEF PostHolds
  <1>5. ASSUME cut' = {} PROVE TurnsTaken' /\ Told'
    <2>0. TurnsTaken /\ Told /\ \A q \in Actors : doing[q] = "idle"
      BY <1>0, <1>1, <1>5
    <2>1. uri /\ Rank(act'[p]) = Absent /\ left'[p] = Inboxes
      BY <1>0, <1>2, <2>0, ActorNames, RankShape DEF TurnsTaken
    <2>2. TurnsTaken'
      BY <1>0, <1>1, <2>0, <2>1 DEF TurnsTaken
    <2>3. \A q \in Actors, i \in Inboxes : ~Owes(q, i) /\ ~Owes(q, i)'
      BY <1>1, <2>0 DEF Owes
    <2> QED
      BY <1>0, <2>0, <2>2, <2>3 DEF Told
  <1> QED
    BY <1>1, <1>3, <1>4, <1>5 DEF HubHolds

LEMMA EnqueueNextStep ==
  ASSUME QueueHolds, HubHolds, NEW p \in Actors, EnqueueNext(p)
  PROVE  QueueHolds' /\ HubHolds' /\ UNCHANGED <<got, fails, mirror, cut>>
  <1>1. PICK i \in left[p] :
           /\ doing[p] = "enqueue" /\ Queue!Enqueue(<<act[p], i>>)
           /\ left'  = [left EXCEPT ![p] = left[p] \ {i}]
           /\ doing' = [doing EXCEPT ![p] = IF left[p] = {i} THEN "idle" ELSE doing[p]]
           /\ UNCHANGED <<post, posted, uri, act, mirror, cut>>
    BY DEF EnqueueNext
  <1> DEFINE new == <<act[p], i>>
  <1>0. /\ HubTypeOK /\ PostHolds /\ (cut = {} => TurnsTaken /\ Told)
        /\ i \in Inboxes /\ act[p] \in Activities /\ new \in Deliveries
        /\ accepted \subseteq Deliveries
    BY <1>1, RowShape, QueueIds DEF HubHolds, HubTypeOK, QueueHolds
  <1>2. /\ QueueHolds' /\ accepted' = accepted \cup {new}
        /\ \A e \in accepted : id'[e] = id[e] /\ id'[e] < id'[new]
        /\ UNCHANGED <<got, fails>>
    BY <1>0, <1>1, HubEnqueue
  <1>3. /\ doing'[p] = IF left[p] = {i} THEN "idle" ELSE "enqueue"
        /\ \A q \in Actors : q # p => doing'[q] = doing[q] /\ left'[q] = left[q]
        /\ left'[p] = left[p] \ {i}
        /\ doing' \in [Actors -> {"idle", "read", "mint", "enqueue", "delete"}]
        /\ left' \in [Actors -> SUBSET Inboxes]
    BY <1>0, <1>1 DEF HubTypeOK
  <1>4. HubTypeOK'
    <2>1. \A q \in Actors : doing'[q] = "enqueue" => left'[q] # {}
      BY <1>0, <1>1, <1>3 DEF HubTypeOK
    <2> QED
      BY <1>0, <1>1, <1>3, <2>1 DEF HubTypeOK
  <1>5. PostHolds'
    <2>1. posted /\ (act[p][1] = "delete" => post = Absent)
      BY <1>0, <1>1 DEF PostHolds
    <2>2. new[1] = act[p]
      OBVIOUS
    <2>3. \A d \in accepted' : posted /\ (d[1][1] = "delete" => post = Absent)
      BY <1>0, <1>2, <2>1, <2>2 DEF PostHolds
    <2> QED
      BY <1>0, <1>1, <1>3, <2>3, ActorNames DEF PostHolds
  <1>6. ASSUME cut' = {} PROVE TurnsTaken' /\ Told'
    <2>0. TurnsTaken /\ Told /\ Rank(act[p]) = post /\ posted
      BY <1>0, <1>1, <1>6 DEF TurnsTaken, PostHolds
    <2>1. \A q \in Actors : q # p => doing[q] = "idle"
      BY <1>1, <2>0 DEF TurnsTaken
    <2>2. TurnsTaken'
      BY <1>1, <1>3, <2>0, <2>1 DEF TurnsTaken
    <2>3. post \in Nat /\ \A a \in Activities : Rank(a) \in Nat
      BY <1>0, RankShape DEF HubTypeOK
    <2>4. \A d \in accepted' : Rank(d[1]) <= post
      <3>1. Rank(new[1]) <= post
        BY <2>0, <2>3
      <3> QED
        BY <1>2, <2>0, <3>1 DEF Told
    <2>5. ASSUME NEW j \in Inboxes, \A q \in Actors : ~Owes(q, j)'
          PROVE  \E a \in Activities : <<a, j>> \in accepted' /\ Rank(a) = post
      <3>1. CASE j = i
        BY <1>0, <1>2, <2>0, <3>1
      <3>2. CASE j # i
        <4>1. ~Owes(p, j)
          BY <1>1, <1>3, <2>5, <3>2 DEF Owes
        <4>2. \A q \in Actors : ~Owes(q, j)
          BY <2>1, <4>1 DEF Owes
        <4>3. PICK a \in Activities : <<a, j>> \in accepted /\ Rank(a) = post
          BY <2>0, <4>2 DEF Told
        <4> QED
          BY <1>2, <4>3
      <3> QED
        BY <3>1, <3>2
    <2>6. post # 0 => \A j \in Inboxes : <<<<"create", 0>>, j>> \in accepted'
      BY <1>2, <2>0 DEF Told
    <2>7. ASSUME NEW j \in Inboxes, NEW a \in Activities, NEW b \in Activities,
                 <<a, j>> \in accepted', <<b, j>> \in accepted', Rank(a) < Rank(b)
          PROVE  id'[<<a, j>>] < id'[<<b, j>>]
      <3>1. CASE <<a, j>> = new
        <4>1. a = act[p]
          BY <3>1
        <4>2. Rank(b) <= post
          <5>1. <<b, j>>[1] = b
            OBVIOUS
          <5> QED
            BY <2>4, <2>7, <5>1
        <4> QED
          BY <2>0, <2>3, <2>7, <4>1, <4>2
      <3>2. CASE <<a, j>> # new /\ <<b, j>> = new
        BY <1>2, <2>7, <3>2
      <3>3. CASE <<a, j>> # new /\ <<b, j>> # new
        BY <1>2, <2>0, <2>7, <3>3 DEF Told
      <3> QED
        BY <3>1, <3>2, <3>3
    <2> QED
      BY <1>1, <2>2, <2>4, <2>5, <2>6, <2>7 DEF Told
  <1> QED
    BY <1>1, <1>2, <1>4, <1>5, <1>6 DEF HubHolds

LEMMA DeleteStep ==
  ASSUME QueueHolds, HubHolds, NEW p \in Actors, Delete(p)
  PROVE  HubHolds' /\ (cut' = {} => cut = {})
  <1>0. /\ HubTypeOK /\ PostHolds /\ (cut = {} => TurnsTaken /\ Told)
        /\ UNCHANGED <<posted, uri, act, mirror, cut, id, accepted>>
    BY DEF HubHolds, Delete, queueVars
  <1>1. CASE post # Absent
    <2> DEFINE to == IF left[p] = {} THEN "idle" ELSE "enqueue"
    <2>1. Step(p, "delete", to) /\ post' = Absent /\ UNCHANGED left
      BY <1>1 DEF Delete
    <2>2. to \in {"idle", "enqueue"} /\ (to = "enqueue" => left[p] # {})
          /\ (left[p] # {} => to = "enqueue")
      OBVIOUS
    <2> HIDE DEF to
    <2>3. /\ doing[p] = "delete" /\ doing'[p] = to
          /\ \A q \in Actors : q # p => doing'[q] = doing[q]
          /\ doing' \in [Actors -> {"idle", "read", "mint", "enqueue", "delete"}]
      BY <1>0, <2>1, <2>2, StepDoing
    <2>4. posted
      BY <1>0, <1>1 DEF PostHolds
    <2>5. HubTypeOK'
      <3>1. \A q \in Actors : doing'[q] = "enqueue" => left[q] # {}
        BY <1>0, <2>2, <2>3 DEF HubTypeOK
      <3>2. post' \in 0 .. Absent
        BY <2>1, RankShape
      <3> QED
        BY <1>0, <2>1, <2>3, <3>1, <3>2 DEF HubTypeOK
    <2>6. PostHolds'
      BY <1>0, <2>1, <2>2, <2>3, <2>4, ActorNames DEF PostHolds
    <2>7. ASSUME cut' = {} PROVE TurnsTaken' /\ Told'
      <3>0. /\ TurnsTaken /\ Told /\ left[p] = Inboxes /\ Rank(act[p]) = Absent
            /\ Inboxes # {}
        BY <1>0, <2>3, <2>7, HubAssumption DEF TurnsTaken
      <3>1. \A q \in Actors : q # p => doing[q] = "idle"
        BY <2>3, <3>0 DEF TurnsTaken
      <3>2. to = "enqueue"
        BY <2>2, <3>0
      <3>3. TurnsTaken'
        BY <1>0, <2>1, <2>3, <3>0, <3>1, <3>2 DEF TurnsTaken
      <3>4. \A i \in Inboxes : Owes(p, i)'
        BY <2>1, <2>3, <3>0, <3>2 DEF Owes
      <3>5. \A d \in accepted : Rank(d[1]) <= Absent
        <4>1. \A d \in accepted : d[1] \in Activities
          BY RowShape, QueueIds DEF QueueHolds
        <4> QED
          BY <4>1, RankShape
      <3>6. ASSUME NEW i \in Inboxes PROVE <<<<"create", 0>>, i>> \in accepted
        <4>1. CASE post # 0
          BY <2>4, <3>0, <4>1 DEF Told
        <4>2. CASE post = 0
          <5>1. \A q \in Actors : ~Owes(q, i)
            BY <2>3, <3>1 DEF Owes
          <5>2. PICK a \in Activities : <<a, i>> \in accepted /\ Rank(a) = post
            BY <2>4, <3>0, <5>1 DEF Told
          <5>3. a = <<"create", 0>>
            BY <4>2, <5>2, RankShape, RankTells
          <5> QED
            BY <5>2, <5>3
        <4> QED
          BY <4>1, <4>2
      <3> QED
        BY <1>0, <2>1, <3>0, <3>3, <3>4, <3>5, <3>6 DEF Told
    <2> QED
      BY <1>0, <2>5, <2>6, <2>7 DEF HubHolds
  <1>2. CASE post = Absent
    <2>1. Step(p, "delete", "idle") /\ left' = [left EXCEPT ![p] = {}] /\ UNCHANGED post
      BY <1>2 DEF Delete
    <2>2. /\ doing[p] = "delete" /\ doing'[p] = "idle"
          /\ \A q \in Actors : q # p => doing'[q] = doing[q]
          /\ doing' \in [Actors -> {"idle", "read", "mint", "enqueue", "delete"}]
      BY <1>0, <2>1, StepDoing
    <2>3. left' \in [Actors -> SUBSET Inboxes]
          /\ \A q \in Actors : q # p => left'[q] = left[q]
      BY <1>0, <2>1 DEF HubTypeOK
    <2>4. HubTypeOK'
      <3>1. \A q \in Actors : doing'[q] = "enqueue" => left'[q] # {}
        BY <1>0, <2>2, <2>3 DEF HubTypeOK
      <3> QED
        BY <1>0, <2>1, <2>2, <2>3, <3>1 DEF HubTypeOK
    <2>5. PostHolds'
      BY <1>0, <2>1, <2>2, <2>3, ActorNames DEF PostHolds
    <2>6. cut # {}
      BY <1>0, <1>2, <2>2 DEF TurnsTaken
    <2> QED
      BY <1>0, <2>4, <2>5, <2>6 DEF HubHolds
  <1> QED
    BY <1>1, <1>2

\* An error or a crash in the middle of something counts as a disturbance.
LEMMA StatementFailsStep ==
  ASSUME HubHolds, NEW p \in Actors, StatementFails(p)
  PROVE  HubHolds' /\ (cut' = {} => cut = {})
  <1>0. /\ HubTypeOK /\ PostHolds
        /\ cut' = cut \cup {"error"} /\ left' = [left EXCEPT ![p] = {}]
        /\ UNCHANGED <<post, posted, uri, act, mirror, id, accepted>>
    BY DEF HubHolds, StatementFails
  <1>1. /\ doing'[p] = "idle"
        /\ \A q \in Actors : q # p => doing'[q] = doing[q]
        /\ doing' \in [Actors -> {"idle", "read", "mint", "enqueue", "delete"}]
    BY <1>0, StepDoing DEF StatementFails
  <1>2. left' \in [Actors -> SUBSET Inboxes]
        /\ \A q \in Actors : q # p => left'[q] = left[q]
    BY <1>0 DEF HubTypeOK
  <1>3. HubTypeOK'
    <2>1. \A q \in Actors : doing'[q] = "enqueue" => left'[q] # {}
      BY <1>0, <1>1, <1>2 DEF HubTypeOK
    <2>2. cut' \subseteq {"crash", "error", "race"}
      BY <1>0 DEF HubTypeOK
    <2> QED
      BY <1>0, <1>1, <1>2, <2>1, <2>2 DEF HubTypeOK
  <1>4. PostHolds'
    BY <1>0, <1>1, <1>2, ActorNames DEF PostHolds
  <1>5. cut' # {}
    BY <1>0
  <1> QED
    BY <1>3, <1>4, <1>5 DEF HubHolds

LEMMA HubCrashStep ==
  ASSUME HubHolds, HubCrash
  PROVE  HubHolds' /\ (cut' = {} => cut = {})
  <1>0. /\ HubTypeOK /\ PostHolds /\ (cut = {} => TurnsTaken /\ Told)
        /\ doing' = [p \in Actors |-> "idle"] /\ left' = [p \in Actors |-> {}]
        /\ cut' = IF \E p \in Actors : doing[p] # "idle" THEN cut \cup {"crash"} ELSE cut
        /\ UNCHANGED <<post, posted, uri, act, mirror, id, accepted>>
    BY DEF HubHolds, HubCrash, Queue!Crash
  <1>1. HubTypeOK'
    <2>1. cut' \subseteq {"crash", "error", "race"}
      BY <1>0 DEF HubTypeOK
    <2> QED
      BY <1>0, <2>1 DEF HubTypeOK
  <1>2. PostHolds'
    BY <1>0, ActorNames DEF PostHolds
  <1>3. ASSUME cut' = {} PROVE cut = {} /\ TurnsTaken' /\ Told'
    <2>0. cut = {} /\ \A p \in Actors : doing[p] = "idle"
      BY <1>0, <1>3
    <2>1. TurnsTaken /\ Told /\ \A p \in Actors : doing'[p] = "idle"
      BY <1>0, <2>0
    <2>2. TurnsTaken'
      BY <1>0, <2>0, <2>1, ActorNames DEF TurnsTaken
    <2>3. \A q \in Actors, i \in Inboxes : ~Owes(q, i) /\ ~Owes(q, i)'
      BY <2>0, <2>1 DEF Owes
    <2> QED
      BY <1>0, <2>0, <2>1, <2>2, <2>3 DEF Told
  <1> QED
    BY <1>1, <1>2, <1>3 DEF HubHolds

\* What the drain does changes nothing on the hub but rows and mirrors.
LEMMA HubStands ==
  ASSUME HubHolds, UNCHANGED hub, UNCHANGED <<id, accepted>>,
         mirror' \in [Inboxes -> 0 .. Absent]
  PROVE  HubHolds'
  <1>1. UNCHANGED <<post, posted, uri, doing, act, left, cut>>
    BY DEF hub
  <1>2. HubTypeOK' /\ PostHolds'
    BY <1>1 DEF HubHolds, HubTypeOK, PostHolds
  <1>3. \A q \in Actors, i \in Inboxes : Owes(q, i)' <=> Owes(q, i)
    BY <1>1 DEF Owes
  <1>4. cut' = {} => TurnsTaken' /\ Told'
    <2>1. ASSUME cut = {} PROVE TurnsTaken' /\ Told'
      BY <1>1, <1>3, <2>1 DEF HubHolds, TurnsTaken, Told
    <2> QED
      BY <1>1, <2>1
  <1> QED
    BY <1>2, <1>4 DEF HubHolds

-----------------------------------------------------------------------------
(* The mirrors. *)

\* What is applied to a text is a text.
LEMMA ApplyType ==
  ASSUME NEW a \in Activities, NEW t \in 0 .. Absent
  PROVE  Apply(a, t) \in 0 .. Absent
  <1>1. CASE a[1] = "create"
    <2>1. a[2] = 0
      BY <1>1, RankShape
    <2> QED
      BY <1>1, <2>1, RankShape DEF Apply
  <1>2. CASE a[1] = "update"
    <2>1. a[2] \in 1 .. MaxEdits
      BY <1>2, RankShape
    <2> QED
      BY <1>2, <2>1, RankShape DEF Apply
  <1>3. CASE a[1] = "delete"
    BY <1>3, RankShape DEF Apply
  <1> QED
    BY <1>1, <1>2, <1>3, RankShape

\* To a subscriber that shows what arrived so far, an activity that comes in turn
\* brings what it tells.
LEMMA ArrivalShows ==
  ASSUME QueueHolds, HubHolds, cut = {}, NEW i \in Inboxes, ~Retried(i), Shown(i),
         NEW a \in Activities, <<a, i>> \in Queue!Current
  PROVE  /\ Apply(a, mirror[i]) = Rank(a)
         /\ \A b \in Activities : got[<<b, i>>] > 0 => Rank(b) <= Rank(a)
  <1>0. /\ Queue!TypeOK /\ RowsHold /\ InTurn(i) /\ Told
        /\ <<a, i>> \in queue /\ <<a, i>> \in accepted
    BY DEF QueueHolds, HubHolds, Queue!Current, Queue!TypeOK, RowsHold
  <1>1. \A b \in Activities :
           id[<<b, i>>] \in Nat /\ Rank(b) \in 0 .. Absent /\ <<b, i>> \in Deliveries
    BY <1>0, RowShape, RankShape, QueueIds
  <1>2. ASSUME NEW b \in Activities, got[<<b, i>>] > 0
        PROVE  Rank(b) <= Rank(a)
    <2>1. id[<<b, i>>] <= id[<<a, i>>] /\ <<b, i>> \in accepted
      BY <1>0, <1>1, <1>2 DEF InTurn, RowsHold
    <2>2. ~(Rank(a) < Rank(b))
      BY <1>0, <1>1, <2>1 DEF Told
    <2>3. Rank(a) \in Nat /\ Rank(b) \in Nat
      BY <1>1, RankShape
    <2> QED
      BY <2>2, <2>3
  <1>3. \/ mirror[i] = Absent /\ \A b \in Activities : ~(got[<<b, i>>] > 0)
        \/ \E b \in Activities : got[<<b, i>>] > 0 /\ Rank(b) = mirror[i]
    BY DEF Shown
  <1>4. CASE a[1] = "create"
    <2>1. a[2] = 0 /\ Rank(a) = 0
      BY <1>4, RankShape
    <2>2. mirror[i] = Absent \/ mirror[i] = 0
      <3>1. ASSUME NEW b \in Activities, got[<<b, i>>] > 0, Rank(b) = mirror[i]
            PROVE  mirror[i] = 0
        BY <1>1, <1>2, <2>1, <3>1, RankShape
      <3> QED
        BY <1>3, <3>1
    <2>3. Apply(a, mirror[i]) = 0
      BY <1>4, <2>1, <2>2 DEF Apply
    <2> QED
      BY <1>2, <2>1, <2>3
  <1>5. CASE a[1] = "update"
    <2>1. Rank(a) = a[2] /\ a[2] \in 1 .. MaxEdits
      BY <1>5, RankShape
    <2> DEFINE c == <<"create", 0>>
    <2>2. c \in Activities /\ Rank(c) = 0
      BY RankShape
    <2> HIDE DEF c
    <2>3. <<c, i>> \in accepted
      <3>1. posted /\ post \in 0 .. Absent
        BY <1>0 DEF HubHolds, HubTypeOK, PostHolds
      <3>2. Rank(a) <= post
        <4>1. <<a, i>>[1] = a
          OBVIOUS
        <4> QED
          BY <1>0, <4>1 DEF Told
      <3>3. post # 0
        BY <2>1, <3>1, <3>2
      <3> QED
        BY <1>0, <3>1, <3>3 DEF Told, c
    <2>4. id[<<c, i>>] < id[<<a, i>>]
      BY <1>0, <2>1, <2>2, <2>3 DEF Told
    <2>5. <<c, i>> \notin queue
      <3>1. ASSUME <<c, i>> \in queue PROVE FALSE
        <4>1. id[<<a, i>>] <= id[<<c, i>>]
          BY <2>2, <3>1, CurrentIsFirst
        <4> QED
          BY <1>1, <2>2, <2>4, <4>1
      <3> QED
        BY <3>1
    <2>6. got[<<c, i>>] > 0
      BY <1>0, <2>2, <2>3, <2>5 DEF InTurn
    <2>7. PICK b \in Activities : got[<<b, i>>] > 0 /\ Rank(b) = mirror[i]
      BY <1>3, <2>2, <2>6
    <2>8. mirror[i] # Absent
      BY <1>1, <1>2, <2>1, <2>7, RankShape
    <2>9. Apply(a, mirror[i]) = a[2]
      BY <1>5, <2>8 DEF Apply
    <2> QED
      BY <1>2, <2>1, <2>9
  <1>6. CASE a[1] = "delete"
    <2>1. Apply(a, mirror[i]) = Absent
      BY <1>6 DEF Apply
    <2> QED
      BY <1>2, <1>6, <2>1, RankShape
  <1> QED
    BY <1>4, <1>5, <1>6, RankShape

LEMMA HubPostStep ==
  ASSUME HubInv, NEW d \in Deliveries, NEW arrives \in BOOLEAN,
         NEW result \in {"ok", "error"}, Post(d, arrives, result)
  PROVE  HubInv'
  <1>0. /\ QueueHolds /\ HubHolds
        /\ \A i \in Inboxes : cut = {} /\ ~Retried(i) => Shown(i)
        /\ Queue!Post(d, arrives, result) /\ d \in Queue!Current
        /\ mirror' = [mirror EXCEPT ![d[2]] = IF arrives THEN Apply(d[1], mirror[d[2]])
                                                         ELSE mirror[d[2]]]
        /\ mirror \in [Inboxes -> 0 .. Absent] /\ UNCHANGED hub /\ UNCHANGED cut
        /\ d[1] \in Activities /\ d[2] \in Inboxes /\ d = <<d[1], d[2]>>
    BY RowShape DEF HubInv, HubHolds, HubTypeOK, Post, Queue!Post, hub
  <1>1. /\ QueueHolds'
        /\ UNCHANGED <<id, accepted, queue>>
        /\ \A i \in Inboxes : ~Retried(i)' => ~Retried(i)
        /\ result = "error" => Retried(d[2])'
        /\ result = "ok" => arrives
        /\ \A e \in Deliveries : e # d => got'[e] = got[e]
        /\ got'[d] = IF arrives THEN got[d] + 1 ELSE got[d]
    BY <1>0, HubPost
  <1>2. /\ mirror' \in [Inboxes -> 0 .. Absent]
        /\ \A i \in Inboxes : i # d[2] => mirror'[i] = mirror[i]
        /\ arrives => mirror'[d[2]] = Apply(d[1], mirror[d[2]])
    <2>1. Apply(d[1], mirror[d[2]]) \in 0 .. Absent
      BY <1>0, ApplyType
    <2> QED
      BY <1>0, <2>1
  <1>3. HubHolds'
    BY <1>0, <1>1, <1>2, HubStands
  <1>4. ASSUME NEW i \in Inboxes, cut' = {}, ~Retried(i)' PROVE Shown(i)'
    <2>0. cut = {} /\ ~Retried(i) /\ Shown(i)
      BY <1>0, <1>1, <1>4
    <2>1. CASE i # d[2]
      <3>1. mirror'[i] = mirror[i]
        BY <1>2, <2>1
      <3>2. ASSUME NEW a \in Activities PROVE got'[<<a, i>>] = got[<<a, i>>]
        <4>1. <<a, i>>[2] = i
          OBVIOUS
        <4> QED
          BY <1>1, <2>1, <4>1, RowShape
      <3> QED
        BY <2>0, <3>1, <3>2 DEF Shown
    <2>2. CASE i = d[2]
      <3> DEFINE a == d[1]
      <3>0. a \in Activities /\ d = <<a, i>>
        BY <1>0, <2>2
      <3> HIDE DEF a
      <3>1. arrives
        BY <1>1, <1>4, <2>2
      <3>2. Apply(a, mirror[i]) = Rank(a)
            /\ \A b \in Activities : got[<<b, i>>] > 0 => Rank(b) <= Rank(a)
        BY <1>0, <2>0, <3>0, ArrivalShows
      <3>3. mirror'[i] = Rank(a)
        BY <1>2, <2>2, <3>1, <3>2 DEF a
      <3>4. got'[<<a, i>>] > 0
        <4>1. got[d] \in Nat
          BY <1>0 DEF QueueHolds, Queue!TypeOK
        <4> QED
          BY <1>1, <3>0, <3>1, <4>1
      <3>5. ASSUME NEW b \in Activities, got'[<<b, i>>] > 0 PROVE Rank(b) <= Rank(a)
        <4>1. CASE b = a
          BY <3>0, <4>1, RankShape
        <4>2. CASE b # a
          <5>1. <<b, i>> # d
            BY <3>0, <4>2
          <5> QED
            BY <1>1, <3>2, <3>5, <5>1, RowShape
        <4> QED
          BY <4>1, <4>2
      <3> QED
        BY <3>0, <3>3, <3>4, <3>5 DEF Shown
    <2> QED
      BY <2>1, <2>2
  <1> QED
    BY <1>1, <1>3, <1>4 DEF HubInv

\* A step without a POST shows what was shown.
LEMMA HubKeeps ==
  ASSUME HubInv, QueueHolds', HubHolds', cut' = {} => cut = {},
         UNCHANGED <<got, fails, mirror>>
  PROVE  HubInv'
  <1>1. ASSUME NEW i \in Inboxes, cut' = {}, ~Retried(i)' PROVE Shown(i)'
    <2>1. ~Retried(i)
      BY <1>1 DEF Retried
    <2>2. Shown(i)
      BY <1>1, <2>1 DEF HubInv
    <2> QED
      BY <2>2 DEF Shown
  <1> QED
    BY <1>1 DEF HubInv

-----------------------------------------------------------------------------
(* The invariant of the hub. *)

LEMMA HubInvInit == HubInit => HubInv
  <1> SUFFICES ASSUME HubInit PROVE HubInv
    OBVIOUS
  <1>0. Queue!Init
    BY DEF HubInit
  <1>1. QueueHolds
    <2>1. Queue!TypeOK
      BY <1>0, HubAssumption DEF Queue!Init, Queue!TypeOK, Queue!QueueAssumption
    <2>2. RowsHold /\ OutcomeHolds
      BY <1>0 DEF Queue!Init, RowsHold, OutcomeHolds, Queue!Current
    <2>3. \A i \in Inboxes : InTurn(i)
      BY <1>0, RowShape DEF Queue!Init, InTurn
    <2> QED
      BY <2>1, <2>2, <2>3 DEF QueueHolds
  <1>2. HubHolds
    <2>1. HubTypeOK
      BY RankShape DEF HubInit, HubTypeOK
    <2>2. PostHolds
      BY <1>0, ActorNames DEF HubInit, PostHolds, Queue!Init
    <2>3. TurnsTaken /\ Told
      BY <1>0, ActorNames DEF HubInit, TurnsTaken, Told, Queue!Init
    <2> QED
      BY <2>1, <2>2, <2>3 DEF HubHolds
  <1>3. \A i \in Inboxes : Shown(i)
    BY <1>0, RowShape DEF HubInit, Queue!Init, Shown
  <1> QED
    BY <1>1, <1>2, <1>3 DEF HubInv

LEMMA HubInvStep == HubInv /\ [HubNext]_hubVars => HubInv'
  <1> SUFFICES ASSUME HubInv, [HubNext]_hubVars PROVE HubInv'
    OBVIOUS
  <1>0. QueueHolds /\ HubHolds /\ Queue!TypeOK /\ mirror \in [Inboxes -> 0 .. Absent]
    BY DEF HubInv, HubHolds, HubTypeOK, QueueHolds
  <1>1. ASSUME up' \in BOOLEAN, faults' \in 0 .. MaxFaults, Queue!Elapse \/ UNCHANGED wait,
               UNCHANGED <<queue, id, attempts, pass, outcome, accepted, posts, fails, got,
                           refused>>
        PROVE  QueueHolds'
    BY <1>0, <1>1, HubWaits
  <1>2. up \in BOOLEAN /\ faults \in 0 .. MaxFaults
    BY <1>0 DEF Queue!TypeOK
  <1>3. CASE SubmitPost \/ Edit \/ Read \/ Mint
    <2>1. HubHolds' /\ (cut' = {} => cut = {}) /\ UNCHANGED queueVars /\ UNCHANGED mirror
      BY <1>0, <1>3, SubmitStep, EditStep, ReadStep, MintStep
      DEF SubmitPost, Edit, Read, Mint
    <2> QED
      BY <1>1, <1>2, <2>1, HubKeeps DEF queueVars
  <1>4. ASSUME NEW p \in Actors, EnqueueNext(p) PROVE HubInv'
    BY <1>0, <1>4, EnqueueNextStep, HubKeeps
  <1>5. ASSUME NEW p \in Actors, Prepare(p) \/ Delete(p) PROVE HubInv'
    <2>1. HubHolds' /\ (cut' = {} => cut = {}) /\ UNCHANGED queueVars /\ UNCHANGED mirror
      BY <1>0, <1>5, PrepareStep, DeleteStep DEF Prepare, Delete
    <2> QED
      BY <1>1, <1>2, <2>1, HubKeeps DEF queueVars
  <1>6. ASSUME NEW p \in Actors, StatementFails(p) PROVE HubInv'
    <2>1. HubHolds' /\ (cut' = {} => cut = {})
      BY <1>0, <1>6, StatementFailsStep
    <2>2. /\ faults < MaxFaults /\ faults' = faults + 1
          /\ UNCHANGED <<mirror, queue, id, attempts, wait, pass, outcome, up, accepted,
                         posts, fails, got, refused>>
      BY <1>6 DEF StatementFails
    <2>3. faults' \in 0 .. MaxFaults
      BY <1>2, <2>2, HubAssumption DEF Queue!QueueAssumption
    <2> QED
      BY <1>1, <1>2, <2>1, <2>2, <2>3, HubKeeps
  <1>7. CASE Deliver
    <2>1. PICK d \in pass : \/ Post(d, TRUE, "ok")
                            \/ \E arrives \in BOOLEAN : Post(d, arrives, "error")
      BY <1>7 DEF Deliver
    <2>2. d \in Deliveries
      BY <1>0 DEF Queue!TypeOK
    <2> QED
      BY <2>1, <2>2, HubPostStep
  <1>8. CASE DrainRest
    <2>1. UNCHANGED hub /\ UNCHANGED mirror
      BY <1>8 DEF DrainRest
    <2>2. QueueHolds' /\ UNCHANGED <<id, accepted, got, fails>>
      <3>1. CASE Queue!StartPass
        BY <1>0, <3>1, HubStartPass DEF Queue!StartPass
      <3>2. CASE \E d \in pass : Queue!MarkDelivered(d) \/ Queue!MarkFailed(d)
        <4>1. PICK d \in pass : Queue!MarkDelivered(d) \/ Queue!MarkFailed(d)
          BY <3>2
        <4>2. d \in Deliveries
          BY <1>0 DEF Queue!TypeOK
        <4> QED
          BY <1>0, <4>1, <4>2, HubMarkDelivered, HubMarkFailed
          DEF Queue!MarkDelivered, Queue!MarkFailed
      <3>3. CASE Queue!PassFails
        BY <1>0, <3>3, HubPassEnds DEF Queue!PassFails
      <3> QED
        BY <1>8, <3>1, <3>2, <3>3 DEF DrainRest
    <2>3. HubHolds'
      BY <1>0, <2>1, <2>2, HubStands
    <2> QED
      BY <2>1, <2>2, <2>3, HubKeeps DEF hub
  <1>9. CASE HubCrash
    <2>1. HubHolds' /\ (cut' = {} => cut = {})
      BY <1>0, <1>9, HubCrashStep
    <2>2. QueueHolds' /\ UNCHANGED <<got, fails, mirror>>
      BY <1>0, <1>9, HubPassEnds DEF HubCrash, Queue!Crash
    <2> QED
      BY <2>1, <2>2, HubKeeps
  <1>10. CASE Restart \/ Elapse \/ UNCHANGED hubVars
    <2>1. /\ UNCHANGED hub /\ UNCHANGED mirror /\ up' \in BOOLEAN /\ UNCHANGED faults
          /\ Queue!Elapse \/ UNCHANGED wait
          /\ UNCHANGED <<queue, id, attempts, pass, outcome, accepted, posts, fails, got,
                         refused>>
      BY <1>2, <1>10 DEF Restart, Elapse, Queue!Restart, Queue!Elapse, hubVars, queueVars
    <2>2. QueueHolds'
      BY <1>1, <1>2, <2>1
    <2>3. HubHolds'
      BY <1>0, <2>1, HubStands
    <2> QED
      BY <2>1, <2>2, <2>3, HubKeeps DEF hub
  <1> QED
    BY <1>3, <1>4, <1>5, <1>6, <1>7, <1>8, <1>9, <1>10 DEF HubNext, Session

LEMMA HubAlways == HubSpec => []HubInv
  BY HubInvInit, HubInvStep, PTL DEF HubSpec

-----------------------------------------------------------------------------
(* The theorems about Syndication. *)

\* Every variable of the hub and of its queue keeps its type.
THEOREM HubTypes == HubSpec => [](HubTypeOK /\ Queue!TypeOK)
  <1>1. HubInv => HubTypeOK /\ Queue!TypeOK
    BY DEF HubInv, HubHolds, QueueHolds
  <1> QED
    BY <1>1, HubAlways, PTL

\* A row that withdraws the post exists only once the post is gone, for any number
\* of subscribers and edits, whoever deletes it and whatever fails in between (the
\* order of prepare_board_delete, delete_message and dispatch_board_delete).
THEOREM WithdrawnOnceGone == HubSpec => []WithdrawalsAreReal
  <1>1. HubInv => WithdrawalsAreReal
    <2> SUFFICES ASSUME HubInv, NEW i \in Inboxes, <<<<"delete", 0>>, i>> \in accepted
                 PROVE  post = Absent
      BY DEF WithdrawalsAreReal
    <2>1. PostHolds
      BY DEF HubInv, HubHolds
    <2>2. <<<<"delete", 0>>, i>>[1][1] = "delete"
      OBVIOUS
    <2> QED
      BY <2>1, <2>2 DEF PostHolds
  <1> QED
    BY <1>1, HubAlways, PTL

\* A subscriber none of whose deliveries failed shows, once nothing is under way
\* for it, what the hub shows, if the sessions took turns and finished: however
\* many others are down, and however often the drain was cut short.
THEOREM SteadyPeersFollow == HubSpec => []SteadyPeerAgrees
  <1>1. HubInv => SteadyPeerAgrees
    <2> SUFFICES ASSUME HubInv, NEW i \in Inboxes, NothingUnderWay(i), ~Retried(i), cut = {}
                 PROVE  mirror[i] = post
      BY DEF SteadyPeerAgrees
    <2>0. /\ QueueHolds /\ RowsHold /\ InTurn(i) /\ PostHolds /\ Told /\ Shown(i)
          /\ post \in 0 .. Absent
      BY DEF HubInv, QueueHolds, HubHolds, HubTypeOK
    <2>1. \A a \in Activities : <<a, i>> \notin queue /\ <<a, i>> \in Deliveries
      <3>1. \A a \in Activities : <<a, i>>[2] = i
        OBVIOUS
      <3> QED
        BY <3>1, RowShape DEF NothingUnderWay
    <2>2. \A p \in Actors : ~Owes(p, i)
      BY DEF NothingUnderWay, Owes
    <2>3. CASE ~posted
      <3>1. post = Absent /\ accepted = {}
        BY <2>0, <2>3 DEF PostHolds
      <3>2. \A a \in Activities : ~(got[<<a, i>>] > 0)
        BY <2>0, <2>1, <3>1 DEF RowsHold
      <3> QED
        BY <2>0, <3>1, <3>2 DEF Shown
    <2>4. CASE posted
      <3>1. PICK a \in Activities : <<a, i>> \in accepted /\ Rank(a) = post
        BY <2>0, <2>2, <2>4 DEF Told
      <3>2. got[<<a, i>>] > 0
        BY <2>0, <2>1, <3>1 DEF InTurn
      <3>3. PICK c \in Activities :
               /\ got[<<c, i>>] > 0 /\ Rank(c) = mirror[i]
               /\ \A b \in Activities : got[<<b, i>>] > 0 => Rank(b) <= Rank(c)
        BY <2>0, <3>2 DEF Shown
      <3>4. post <= Rank(c)
        BY <3>1, <3>2, <3>3
      <3>5. Rank(c) <= post
        <4>1. <<c, i>> \in accepted /\ <<c, i>>[1] = c
          BY <2>0, <2>1, <3>3 DEF RowsHold
        <4> QED
          BY <2>0, <4>1 DEF Told
      <3>6. Rank(c) \in Nat /\ post \in Nat
        BY <2>0, RankShape
      <3> QED
        BY <3>3, <3>4, <3>5, <3>6
    <2> QED
      BY <2>3, <2>4
  <1> QED
    BY <1>1, HubAlways, PTL

=============================================================================
