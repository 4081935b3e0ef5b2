--------------------------- MODULE Library_proofs ---------------------------
(***************************************************************************)
(* What holds of the file areas for every set of workers, users, names and *)
(* sizes: the types, that a file which is listed is there, that the quota  *)
(* holds for users whose uploads do not overlap, and that a download is    *)
(* cut short only beside its upload.                                       *)
(*                                                                         *)
(* Usage is a sum over the rows of a user, so the first part shows by      *)
(* induction what such a sum is.  The library's induction theorems take an *)
(* operator, which the provers cannot instantiate; the least element of a  *)
(* set of naturals, from WFMin, takes their place.                         *)
(***************************************************************************)
EXTENDS Library, FiniteSetTheorems, WellFoundedInduction, TLAPS

-----------------------------------------------------------------------------
(* Induction over naturals and over finite sets. *)

\* A set of naturals that is not empty has a least element.
LEMMA LeastNat ==
  ASSUME NEW T, T \subseteq Nat, T # {}
  PROVE  \E n \in T : \A m \in T : n <= m
  <1> DEFINE R == {ss \in Nat \X Nat : ss[1] < ss[2]}
  <1>1. IsWellFoundedOn(R, Nat)
    BY NatLessThanWellFounded, Zenon DEF OpToRel
  <1>2. ASSUME NEW m \in Nat, NEW n \in Nat, m < n PROVE <<m, n>> \in R
    <2>1. <<m, n>>[1] < <<m, n>>[2] /\ <<m, n>> \in Nat \X Nat
      BY <1>2
    <2> QED
      BY <2>1, Zenon
  <1> HIDE DEF R
  <1>3. PICK n \in T : \A m \in T : <<m, n>> \notin R
    BY <1>1, WFMin
  <1>4. ASSUME NEW m \in T PROVE n <= m
    <2>1. ~ (m < n)
      BY <1>2, <1>3
    <2> QED
      BY <2>1
  <1> QED
    BY <1>4

\* Induction over the naturals, for a set in place of a predicate.
LEMMA NatsIn ==
  ASSUME NEW T, 0 \in T, \A n \in Nat : n \in T => n + 1 \in T
  PROVE  \A n \in Nat : n \in T
  <1> SUFFICES ASSUME Nat \ T # {} PROVE FALSE
    OBVIOUS
  <1>1. PICK n \in Nat \ T : \A m \in Nat \ T : n <= m
    BY LeastNat
  <1> QED
    BY <1>1

\* Induction over the subsets of a finite set, by their size.
LEMMA SubsetsIn ==
  ASSUME NEW S, IsFiniteSet(S), NEW T, {} \in T,
         \A s \in SUBSET S : s # {} /\ (\A x \in s : s \ {x} \in T) => s \in T
  PROVE  \A s \in SUBSET S : s \in T
  <1> DEFINE N == {n \in Nat : \A s \in SUBSET S : Cardinality(s) = n => s \in T}
  <1>1. \A s \in SUBSET S : IsFiniteSet(s) /\ Cardinality(s) \in Nat
    BY FS_Subset, FS_CardinalityType
  <1>2. 0 \in N
    BY <1>1, FS_EmptySet
  <1>3. ASSUME NEW n \in Nat, n \in N PROVE n + 1 \in N
    <2>1. ASSUME NEW s \in SUBSET S, Cardinality(s) = n + 1 PROVE s \in T
      <3>1. s # {}
        <4>1. Cardinality({}) = 0
          BY FS_EmptySet
        <4> QED
          BY <2>1, <4>1
      <3>2. ASSUME NEW x \in s PROVE s \ {x} \in T
        <4>1. Cardinality(s \ {x}) = Cardinality(s) - 1
          BY <1>1, FS_RemoveElement
        <4>2. Cardinality(s \ {x}) = n
          BY <2>1, <4>1
        <4> QED
          BY <4>2, <1>3
      <3> QED
        BY <3>1, <3>2
    <2> QED
      BY <2>1
  <1> HIDE DEF N
  <1>4. \A n \in Nat : n \in N
    BY <1>2, <1>3, NatsIn
  <1> QED
    BY <1>1, <1>4 DEF N

-----------------------------------------------------------------------------
(* Sums: what Usage adds up. *)

\* The member MapThenSumSet takes first.
Pick(s) == CHOOSE x \in s : TRUE

\* g is a solution of the equation MapThenSumSet recurs by.
Solves(g, S) ==
  \A s \in SUBSET S : g[s] = IF s = {} THEN 0 ELSE Pick(s).size + g[s \ {Pick(s)}]

\* The size of a set of files.
Total(S) == MapThenSumSet(LAMBDA r : r.size, S)

\* The recursive equation of MapThenSumSet has one solution at most ...
LEMMA SolutionsAgree ==
  ASSUME NEW S, IsFiniteSet(S), NEW g, NEW h, Solves(g, S), Solves(h, S)
  PROVE  g[S] = h[S]
  <1> DEFINE T == {s \in SUBSET S : g[s] = h[s]}
  <1>1. {} \in T
    BY DEF Solves
  <1>2. ASSUME NEW s \in SUBSET S, s # {}, \A x \in s : s \ {x} \in T PROVE s \in T
    <2>1. Pick(s) \in s
      BY <1>2 DEF Pick
    <2>2. g[s \ {Pick(s)}] = h[s \ {Pick(s)}]
      BY <1>2, <2>1
    <2> QED
      BY <1>2, <2>2 DEF Solves
  <1>3. \A s \in SUBSET S : s \in T
    <2> HIDE DEF T
    <2> QED BY <1>1, <1>2, SubsetsIn
  <1> QED
    BY <1>3

\* ... and has one, for every finite set.
LEMMA SolutionExists ==
  ASSUME NEW S, IsFiniteSet(S)
  PROVE  \E g : g = [s \in SUBSET S |-> IF s = {} THEN 0
                                       ELSE Pick(s).size + g[s \ {Pick(s)}]]
  <1> DEFINE Upto(g, n) == \A s \in SUBSET S : Cardinality(s) <= n =>
                             g[s] = IF s = {} THEN 0 ELSE Pick(s).size + g[s \ {Pick(s)}]
             N == {n \in Nat : \E g : Upto(g, n)}
  <1>1. \A s \in SUBSET S : IsFiniteSet(s) /\ Cardinality(s) \in Nat
    BY FS_Subset, FS_CardinalityType
  <1>2. 0 \in N
    <2>1. \A s \in SUBSET S : Cardinality(s) <= 0 => s = {}
      BY <1>1, FS_EmptySet
    <2>2. Upto([s \in SUBSET S |-> 0], 0)
      BY <2>1
    <2> QED
      BY <2>2
  <1>3. ASSUME NEW n \in Nat, n \in N PROVE n + 1 \in N
    <2>1. PICK g : Upto(g, n)
      BY <1>3
    <2> DEFINE h == [s \in SUBSET S |-> IF Cardinality(s) <= n THEN g[s]
                                        ELSE Pick(s).size + g[s \ {Pick(s)}]]
    <2>2. ASSUME NEW s \in SUBSET S, Cardinality(s) <= n + 1
          PROVE  h[s] = IF s = {} THEN 0 ELSE Pick(s).size + h[s \ {Pick(s)}]
      <3>1. CASE s = {}
        <4>1. Cardinality(s) <= n
          BY <3>1, FS_EmptySet
        <4> QED BY <2>1, <3>1, <4>1
      <3>2. CASE s # {}
        <4>1. Pick(s) \in s
          BY <3>2 DEF Pick
        <4> DEFINE r == s \ {Pick(s)}
        <4>2. r \in SUBSET S /\ Cardinality(r) <= n
          BY <1>1, <2>2, <4>1, FS_RemoveElement
        <4>3. h[r] = g[r]
          BY <4>2
        <4>4. h[s] = Pick(s).size + g[r]
          BY <2>1, <3>2
        <4> QED
          BY <3>2, <4>3, <4>4
      <3> QED
        BY <3>1, <3>2
    <2> HIDE DEF h
    <2>3. Upto(h, n + 1)
      BY <2>2
    <2>4. \E f : Upto(f, n + 1)
      BY <2>3, Zenon
    <2> HIDE DEF Upto
    <2> QED
      BY <2>4
  <1>4. Cardinality(S) \in N
    <2> HIDE DEF N
    <2> QED BY <1>1, <1>2, <1>3, NatsIn
  <1>5. PICK g : Upto(g, Cardinality(S))
    BY <1>4
  <1>6. \A s \in SUBSET S : Cardinality(s) <= Cardinality(S)
    BY FS_Subset
  <1> DEFINE h == [s \in SUBSET S |-> g[s]]
  <1>7. ASSUME NEW s \in SUBSET S
        PROVE  h[s] = IF s = {} THEN 0 ELSE Pick(s).size + h[s \ {Pick(s)}]
    BY <1>5, <1>6
  <1>8. h = [s \in SUBSET S |-> h[s]]
    OBVIOUS
  <1> HIDE DEF h
  <1>9. h = [s \in SUBSET S |-> IF s = {} THEN 0 ELSE Pick(s).size + h[s \ {Pick(s)}]]
    BY <1>7, <1>8
  <1> QED
    BY <1>9

\* So the sum over a set is what that equation says.
LEMMA TotalSolves ==
  ASSUME NEW S, IsFiniteSet(S)
  PROVE  \E g : Solves(g, S) /\ Total(S) = g[S]
  <1> DEFINE g == CHOOSE iter : iter = [s \in SUBSET S |-> IF s = {} THEN 0
                                  ELSE Pick(s).size + iter[s \ {Pick(s)}]]
  <1>1. g = [s \in SUBSET S |-> IF s = {} THEN 0 ELSE Pick(s).size + g[s \ {Pick(s)}]]
    BY SolutionExists
  <1>2. Total(S) = g[S]
    BY DEF Total, MapThenSumSet, MapThenFoldSet, Pick
  <1> HIDE DEF g
  <1>3. Solves(g, S)
    BY <1>1, Zenon DEF Solves
  <1> QED
    BY <1>2, <1>3

\* The sum over a set is the size of one member and the sum over the others.
LEMMA TotalPick ==
  ASSUME NEW S, IsFiniteSet(S)
  PROVE  Total(S) = IF S = {} THEN 0 ELSE Pick(S).size + Total(S \ {Pick(S)})
  <1>1. PICK g : Solves(g, S) /\ Total(S) = g[S]
    BY TotalSolves
  <1> DEFINE R == S \ {Pick(S)}
  <1>2. PICK h : Solves(h, R) /\ Total(R) = h[R]
    BY TotalSolves, FS_Subset
  <1>3. Solves(g, R)
    BY <1>1 DEF Solves
  <1>4. g[R] = h[R]
    <2> HIDE DEF R
    <2> QED BY <1>2, <1>3, SolutionsAgree, FS_Subset DEF R
  <1> QED
    BY <1>1, <1>2, <1>4 DEF Solves

\* A sum of naturals is a natural.
LEMMA TotalNat ==
  ASSUME NEW S, IsFiniteSet(S), \A r \in S : r.size \in Nat
  PROVE  \A s \in SUBSET S : Total(s) \in Nat
  <1> DEFINE T == {s \in SUBSET S : Total(s) \in Nat}
  <1>1. {} \in T
    <2>1. Total({}) = 0
      BY TotalPick, FS_EmptySet
    <2> QED
      BY <2>1
  <1>2. ASSUME NEW s \in SUBSET S, s # {}, \A x \in s : s \ {x} \in T PROVE s \in T
    <2>1. Pick(s) \in s
      BY <1>2 DEF Pick
    <2>2. Total(s) = Pick(s).size + Total(s \ {Pick(s)})
      BY <1>2, TotalPick, FS_Subset
    <2>3. Total(s \ {Pick(s)}) \in Nat /\ Pick(s).size \in Nat
      BY <1>2, <2>1
    <2> QED
      BY <2>2, <2>3
  <1>3. \A s \in SUBSET S : s \in T
    <2> HIDE DEF T
    <2> QED BY <1>1, <1>2, SubsetsIn
  <1> QED
    BY <1>3

\* It does not matter which member is taken out first.
LEMMA TotalRemove ==
  ASSUME NEW S, IsFiniteSet(S), \A r \in S : r.size \in Nat
  PROVE  \A x \in S : Total(S) = x.size + Total(S \ {x})
  <1> DEFINE T == {s \in SUBSET S : \A x \in s : Total(s) = x.size + Total(s \ {x})}
  <1>1. {} \in T
    OBVIOUS
  <1>2. ASSUME NEW s \in SUBSET S, s # {}, \A x \in s : s \ {x} \in T PROVE s \in T
    <2> DEFINE p == Pick(s)
    <2>1. p \in s
      BY <1>2 DEF Pick
    <2>2. Total(s) = p.size + Total(s \ {p})
      BY <1>2, TotalPick, FS_Subset
    <2> HIDE DEF p
    <2>3. ASSUME NEW x \in s, x # p PROVE Total(s) = x.size + Total(s \ {x})
      <3>1. Total(s \ {p}) = x.size + Total((s \ {p}) \ {x})
        BY <1>2, <2>1, <2>3
      <3>2. Total(s \ {x}) = p.size + Total((s \ {x}) \ {p})
        BY <1>2, <2>1, <2>3
      <3>3. (s \ {p}) \ {x} = (s \ {x}) \ {p}
        OBVIOUS
      <3>4. Total((s \ {p}) \ {x}) \in Nat
        BY TotalNat
      <3>5. x.size \in Nat /\ p.size \in Nat
        BY <2>1
      <3> DEFINE c == Total((s \ {p}) \ {x})
                 b == Total(s \ {p})
                 d == Total(s \ {x})
      <3>6. Total(s) = p.size + b /\ b = x.size + c /\ d = p.size + c
        BY <2>2, <3>1, <3>2, <3>3
      <3>7. c \in Nat
        BY <3>4
      <3> HIDE DEF b, c, d
      <3>8. Total(s) = x.size + d
        BY <3>5, <3>6, <3>7
      <3> QED
        BY <3>8 DEF d
    <2> QED
      BY <2>2, <2>3
  <1>3. \A s \in SUBSET S : s \in T
    <2> HIDE DEF T
    <2> QED BY <1>1, <1>2, SubsetsIn
  <1> QED
    BY <1>3

\* A part of a set sums to no more than the set.
LEMMA TotalMonotone ==
  ASSUME NEW S, IsFiniteSet(S), \A r \in S : r.size \in Nat
  PROVE  \A s \in SUBSET S : Total(s) <= Total(S)
  <1> DEFINE T == {s \in SUBSET S : Total(S \ s) <= Total(S)}
  <1>1. \A s \in SUBSET S : Total(s) \in Nat
    BY TotalNat
  <1>2. {} \in T
    BY <1>1
  <1>3. ASSUME NEW s \in SUBSET S, s # {}, \A x \in s : s \ {x} \in T PROVE s \in T
    <2>1. PICK x \in s : TRUE
      BY <1>3
    <2> DEFINE R == S \ (s \ {x})
    <2>2. R \in SUBSET S /\ x \in R /\ S \ s = R \ {x}
      OBVIOUS
    <2>3. Total(R) <= Total(S)
      BY <1>3, <2>1
    <2> HIDE DEF R
    <2>4. Total(R) = x.size + Total(R \ {x})
      BY <2>2, TotalRemove, FS_Subset
    <2>5. Total(R) \in Nat /\ Total(R \ {x}) \in Nat /\ Total(S) \in Nat /\ x.size \in Nat
      BY <1>1, <2>2
    <2> DEFINE rest == Total(R \ {x})
    <2>6. rest <= Total(S)
      <3>1. Total(R) = x.size + rest /\ rest \in Nat
        BY <2>4, <2>5
      <3> HIDE DEF rest
      <3> QED
        BY <2>3, <2>5, <3>1
    <2>7. Total(S \ s) <= Total(S)
      BY <2>2, <2>6
    <2> QED
      BY <2>7
  <1>4. \A s \in SUBSET S : s \in T
    <2> HIDE DEF T
    <2> QED BY <1>2, <1>3, SubsetsIn
  <1>5. ASSUME NEW s \in SUBSET S PROVE Total(s) <= Total(S)
    <2>1. s = S \ (S \ s) /\ S \ s \in SUBSET S
      OBVIOUS
    <2> QED
      BY <1>4, <2>1
  <1> QED
    BY <1>5

\* One more member adds its size ...
LEMMA TotalAdd ==
  ASSUME NEW S, IsFiniteSet(S), \A r \in S : r.size \in Nat,
         NEW x, x \notin S, x.size \in Nat
  PROVE  Total(S \cup {x}) = x.size + Total(S)
  <1>1. IsFiniteSet(S \cup {x}) /\ (\A r \in S \cup {x} : r.size \in Nat)
    BY FS_AddElement
  <1>2. (S \cup {x}) \ {x} = S
    OBVIOUS
  <1>3. Total(S \cup {x}) = x.size + Total((S \cup {x}) \ {x})
    BY <1>1, TotalRemove
  <1> QED
    BY <1>2, <1>3

\* ... and one in place of another of the same size changes nothing.
LEMMA TotalSwap ==
  ASSUME NEW S, IsFiniteSet(S), \A r \in S : r.size \in Nat,
         NEW x \in S, NEW y, y \notin S, x.size = y.size
  PROVE  Total((S \ {x}) \cup {y}) = Total(S)
  <1>1. IsFiniteSet(S \ {x}) /\ (\A r \in S \ {x} : r.size \in Nat)
    BY FS_RemoveElement
  <1>2. y \notin S \ {x}
    OBVIOUS
  <1>3. Total((S \ {x}) \cup {y}) = y.size + Total(S \ {x})
    BY <1>1, <1>2, TotalAdd
  <1>4. Total(S) = x.size + Total(S \ {x})
    BY TotalRemove
  <1> QED
    BY <1>3, <1>4

\* The rows of a user among R.
Owned(R, u) == {r \in R : r.owner = u}

\* The largest of a bounded set of naturals is a member of it.
LEMMA MaxIsMember ==
  ASSUME NEW n \in Nat, NEW S, S \subseteq 1 .. n, S # {}
  PROVE  Max(S) \in S
  <1> DEFINE T == {m \in 0 .. n : n - m \in S}
  <1>1. T \subseteq Nat /\ T # {}
    <2>1. PICK s \in S : TRUE
      OBVIOUS
    <2>2. n - s \in T
      BY <2>1
    <2>3. T \subseteq Nat
      OBVIOUS
    <2> HIDE DEF T
    <2> QED
      BY <2>2, <2>3
  <1>2. PICK m \in T : \A k \in T : m <= k
    <2> HIDE DEF T
    <2> QED BY <1>1, LeastNat
  <1>3. n - m \in S
    BY <1>2
  <1>4. ASSUME NEW y \in S PROVE n - m >= y
    <2>1. n - y \in T
      OBVIOUS
    <2>2. m <= n - y
      BY <1>2, <2>1
    <2> QED
      BY <2>2
  <1>5. \E x \in S : \A y \in S : x >= y
    BY <1>3, <1>4
  <1> QED
    BY <1>5 DEF Max

-----------------------------------------------------------------------------
(* The inductive invariant. *)

Places   == {"idle", "admit", "quota", "insert", "path", "fetch", "create", "fill",
             "undo", "select", "delete", "unlink", "read", "hold", "may", "count",
             "link", "area"}
UploadAt == {"path", "fetch", "create", "fill", "undo"}
ChosenAt == {"admit", "quota", "insert"}
AttachAt == {"may", "count", "link"}
FileAt   == UploadAt \cup {"select", "delete", "unlink", "read", "may", "count", "link"}
Words    == Names \cup {None, "path", "partial", "whole"}

Jobs == [at : Places, area : Areas \cup {None}, name : Words,
         size : Sizes \cup {0}, id : Ids \cup {0}]

\* What a worker keeps is fit for the step it is at; n is the counter of the ids.
Sound(j, n) ==
  /\ j \in Jobs
  /\ j.at \in ChosenAt => j.area \in Areas /\ j.name \in Names /\ j.size \in Sizes
  /\ j.at = "area" => j.area \in Areas
  /\ j.at \in FileAt => j.id \in Ids /\ j.id < n
  /\ j.at = "read" => j.name = None

JobsSound == /\ job \in [Workers -> Jobs]
             /\ \A w \in Workers : Sound(job[w], nextId)
             /\ \A w \in Ctl : job[w].at \notin AttachAt

\* No id is used twice: what the counter has not reached yet is not there.
Below == /\ IsFiniteSet(rows)
         /\ \A r \in rows : r.id < nextId

\* Who unlinks a blob has removed its row.
Removed == \A w \in Workers : job[w].at = "unlink" => ~Exists(job[w].id)

\* A file that passed the quota check fits, unless another was checked with it.
Fits == \A w \in Workers : job[w].at = "insert" =>
  \/ UserQuota = 0 \/ UserOf[w] \in Admins \cup lapped
  \/ Usage(UserOf[w]) + job[w].size <= UserQuota

IInv == /\ TypeOK /\ JobsSound /\ Below
        /\ Removed /\ ListedIsThere
        /\ Fits /\ QuotaHolds

-----------------------------------------------------------------------------
(* What a step does, in the terms the invariant is stated in. *)

\* Rows have natural sizes.
LEMMA SizesOfRows ==
  ASSUME TypeOK
  PROVE  \A r \in rows : r.size \in Nat
  BY LibraryAssumption DEF TypeOK

\* A user's stored bytes are the sum over the rows owned.
LEMMA UsageIsTotal ==
  /\ \A u : Usage(u) = Total(Owned(rows, u))
  /\ \A u : Usage(u)' = Total(Owned(rows', u))
  <1>1. \A u : Usage(u) = Total(Owned(rows, u))
    BY DEF Usage, Total, Owned
  <1>2. \A u : Usage(u)' = Total(Owned(rows', u))
    BY DEF Usage, Total, Owned, MapThenSumSet, MapThenFoldSet
  <1> QED
    BY <1>1, <1>2

\* Usage is a natural, and does not grow when rows go.
LEMMA UsageShrinks ==
  ASSUME TypeOK, Below, rows' \subseteq rows
  PROVE  \A u : Usage(u) \in Nat /\ Usage(u)' \in Nat /\ Usage(u)' <= Usage(u)
  <1> SUFFICES ASSUME NEW u
               PROVE  Usage(u) \in Nat /\ Usage(u)' \in Nat /\ Usage(u)' <= Usage(u)
    OBVIOUS
  <1>1. IsFiniteSet(Owned(rows, u)) /\ (\A r \in Owned(rows, u) : r.size \in Nat)
    BY SizesOfRows, FS_Subset DEF Below, Owned
  <1>2. Owned(rows', u) \in SUBSET Owned(rows, u) /\ Owned(rows, u) \in SUBSET Owned(rows, u)
    BY DEF Owned
  <1>3. /\ Total(Owned(rows, u)) \in Nat
        /\ Total(Owned(rows', u)) \in Nat
        /\ Total(Owned(rows', u)) <= Total(Owned(rows, u))
    BY <1>1, <1>2, TotalNat, TotalMonotone
  <1> QED
    BY <1>3, UsageIsTotal

\* Usage is a natural.
LEMMA UsageNat ==
  ASSUME TypeOK, Below
  PROVE  \A u : Usage(u) \in Nat
  <1> SUFFICES ASSUME NEW u PROVE Usage(u) \in Nat
    OBVIOUS
  <1>1. IsFiniteSet(Owned(rows, u)) /\ (\A r \in Owned(rows, u) : r.size \in Nat)
    BY SizesOfRows, FS_Subset DEF Below, Owned
  <1>2. Total(Owned(rows, u)) \in Nat
    BY <1>1, TotalNat
  <1> QED
    BY <1>2, UsageIsTotal

\* A new row adds its size to its owner's usage.
LEMMA UsageGrows ==
  ASSUME TypeOK, Below, NEW r, r \notin rows, r.size \in Nat, rows' = rows \cup {r}
  PROVE  \A u : Usage(u)' = IF r.owner = u THEN r.size + Usage(u) ELSE Usage(u)
  <1> SUFFICES ASSUME NEW u
               PROVE  Usage(u)' = IF r.owner = u THEN r.size + Usage(u) ELSE Usage(u)
    OBVIOUS
  <1>1. IsFiniteSet(Owned(rows, u)) /\ (\A q \in Owned(rows, u) : q.size \in Nat)
    BY SizesOfRows, FS_Subset DEF Below, Owned
  <1>2. r \notin Owned(rows, u)
    BY DEF Owned
  <1>3. CASE r.owner = u
    <2>1. Owned(rows', u) = Owned(rows, u) \cup {r}
      BY <1>3 DEF Owned
    <2>2. Total(Owned(rows, u) \cup {r}) = r.size + Total(Owned(rows, u))
      BY <1>1, <1>2, TotalAdd
    <2> QED
      BY <1>3, <2>1, <2>2, UsageIsTotal
  <1>4. CASE r.owner # u
    <2>1. Owned(rows', u) = Owned(rows, u)
      BY <1>4 DEF Owned
    <2> QED
      BY <1>4, <2>1, UsageIsTotal
  <1> QED
    BY <1>3, <1>4

\* A row is the only one with its id.
LEMMA RowIsThere ==
  ASSUME TypeOK, NEW i, Exists(i)
  PROVE  Row(i) \in rows /\ Row(i).id = i
  BY DEF Exists, Row

\* What a name leads to is an id in use.
LEMMA NewestExists ==
  ASSUME TypeOK, NEW a, NEW n, Newest(a, n) # 0
  PROVE  Newest(a, n) \in Ids /\ Exists(Newest(a, n))
  <1> DEFINE ids == {r.id : r \in {x \in rows : x.area = a /\ x.name = n}}
  <1>1. ids # {} /\ Newest(a, n) = Max(ids)
    BY DEF Newest
  <1>2. ids \subseteq 1 .. MaxFiles
    BY DEF TypeOK, Ids
  <1>3. Max(ids) \in ids
    <2> HIDE DEF ids
    <2> QED BY <1>1, <1>2, MaxIsMember, LibraryAssumption
  <1>4. Newest(a, n) \in ids
    BY <1>1, <1>3
  <1>5. \A i \in ids : i \in Ids /\ Exists(i)
    BY <1>2 DEF Exists, Ids
  <1> QED
    BY <1>4, <1>5

\* What the quiet steps may touch besides a worker's own place.
Frame == /\ areas' \in [Areas -> {"new", "there", "gone"}]
         /\ links' \subseteq (Workers \ Ctl) \X Ids
         /\ faults' \in 0 .. MaxFaults
         /\ stale \subseteq stale' /\ stale' \subseteq Ids

\* The steps of an operation that leave the catalogue and the disk alone: the
\* conditions under which such a step keeps the invariant.
LEMMA QuietStep ==
  ASSUME IInv, NEW w \in Workers, NEW j \in Jobs,
         job' = [job EXCEPT ![w] = j],
         UNCHANGED <<rows, nextId, blob, lapped>>, Frame,
         Sound(j, nextId),
         j.at \in UploadAt => job[w].at \in UploadAt /\ j.id = job[w].id,
         j.at # "unlink",
         job[w].at \in UploadAt /\ j.at \notin UploadAt => ~Exists(job[w].id) \/ job[w].id \in stale',
         w \in Ctl => j.at \notin AttachAt,
         j.at = "insert" => WithinQuota(w) /\ j.size = job[w].size
  PROVE  IInv'
  <1> USE DEF IInv
  <1>1. /\ \A v \in Workers : job'[v] = IF v = w THEN j ELSE job[v]
        /\ job \in [Workers -> Jobs]
        /\ \A i : Exists(i)' = Exists(i)
        /\ \A u : Usage(u)' = Usage(u)
    BY UsageIsTotal DEF JobsSound, Exists
  <1>2. JobsSound'
    BY <1>1, LibraryAssumption DEF JobsSound, Sound
  <1>3. Below'
    BY DEF Below
  <1>4. Removed'
    BY <1>1 DEF Removed
  <1>5. ListedIsThere'
    <2>1. ASSUME NEW r \in rows, r.id \notin stale', ~Uploading(r.id)' PROVE ~Uploading(r.id)
      BY <1>1, <2>1 DEF Uploading, UploadAt, Exists
    <2>2. ASSUME NEW r \in rows, r.id \notin stale', ~Uploading(r.id)'
          PROVE  blob[r.id] = "whole"
      BY <2>1, <2>2 DEF ListedIsThere, Frame
    <2> QED
      BY <2>2 DEF ListedIsThere
  <1>6. Fits'
    BY <1>1 DEF Fits, WithinQuota
  <1>7. QuotaHolds'
    BY <1>1 DEF QuotaHolds
  <1>8. TypeOK'
    BY <1>1 DEF TypeOK, Frame, Jobs, JobsSound
  <1> QED
    BY <1>2, <1>3, <1>4, <1>5, <1>6, <1>7, <1>8

\* An idle worker is sound.
LEMMA IdleIsSound == Idle \in Jobs /\ Sound(Idle, nextId)
  BY DEF Idle, Jobs, Sound, Places, ChosenAt, FileAt, UploadAt, Words, None

\* An operation that ends before or after its writing keeps the invariant.
LEMMA QuietEnd ==
  ASSUME IInv, NEW w \in Workers, job' = [job EXCEPT ![w] = Idle],
         UNCHANGED <<rows, nextId, blob, lapped>>, Frame,
         job[w].at \in UploadAt => ~Exists(job[w].id) \/ job[w].id \in stale'
  PROVE  IInv'
  <1>1. Idle.at \notin UploadAt \cup AttachAt \cup {"unlink", "insert"}
    BY DEF Idle, UploadAt, AttachAt
  <1> QED
    BY <1>1, IdleIsSound, QuietStep

\* Two places of one kind.
Alike(from, to) == /\ to \in Places \ {"area", "read", "unlink"}
                   /\ to \in ChosenAt => from \in ChosenAt
                   /\ to \in FileAt   => from \in FileAt
                   /\ to \in AttachAt => from \in AttachAt
                   /\ to \in UploadAt <=> from \in UploadAt

\* So does one that goes on to a step of the same kind.
LEMMA QuietMove ==
  ASSUME IInv, NEW w \in Workers, NEW from, NEW to, Step(w, from, to), Alike(from, to),
         UNCHANGED <<rows, nextId, blob, lapped>>, Frame,
         to = "insert" => WithinQuota(w)
  PROVE  IInv'
  <1> DEFINE j == [job[w] EXCEPT !.at = to]
  <1>1. /\ job \in [Workers -> Jobs] /\ Sound(job[w], nextId)
        /\ w \in Ctl => job[w].at \notin AttachAt
    BY DEF IInv, JobsSound
  <1>2. /\ job' = [job EXCEPT ![w] = j] /\ job[w].at = from
        /\ j \in Jobs
        /\ j.at = to /\ j.id = job[w].id /\ j.size = job[w].size
        /\ j.area = job[w].area /\ j.name = job[w].name
    BY <1>1 DEF Jobs, Step, Alike
  <1> HIDE DEF j
  <1>3. Sound(j, nextId)
    BY <1>1, <1>2 DEF Sound, Alike
  <1> QED
    BY <1>1, <1>2, <1>3, QuietStep DEF Alike

\* What a worker starts is harmless until it has chosen or found its file.
LEMMA QuietStart ==
  ASSUME IInv, NEW w \in Workers, NEW j \in Jobs, Begins(w, j),
         UNCHANGED <<rows, nextId, blob, lapped>>, Frame,
         Sound(j, nextId), j.at \notin UploadAt \cup {"unlink", "insert"},
         w \in Ctl => j.at \notin AttachAt
  PROVE  IInv'
  <1>1. Idle.at \notin UploadAt \cup {"unlink"}
    BY DEF Idle, UploadAt
  <1>2. job[w] = Idle /\ job' = [job EXCEPT ![w] = j]
    BY DEF Begins
  <1> QED
    BY <1>1, <1>2, QuietStep

\* The counter of the faults, the areas, the links and the history, left alone.
LEMMA Framed ==
  ASSUME TypeOK, UNCHANGED <<areas, links, faults, stale>>
  PROVE  Frame
  BY DEF TypeOK, Frame

-----------------------------------------------------------------------------
(* The actions keep the invariant. *)

\* A worker opens a file to write, under the write role (OpenWrite).
LEMMA OpenWriteKeeps ==
  ASSUME IInv, NEW w \in Workers, NEW a \in Areas, NEW n \in Names, NEW s \in Sizes,
         OpenWrite(w, a, n, s)
  PROVE  IInv'
  <1> DEFINE j == [at |-> "admit", area |-> a, name |-> n, size |-> s, id |-> 0]
  <1>1. /\ j \in Jobs /\ Sound(j, nextId)
        /\ j.at \notin UploadAt \cup AttachAt \cup {"unlink", "insert"}
    BY DEF Jobs, Sound, Places, ChosenAt, FileAt, UploadAt, AttachAt, Words
  <1>2. Begins(w, j) /\ UNCHANGED <<areas, rows, nextId, blob, links, faults, stale, lapped>>
    BY DEF OpenWrite
  <1> HIDE DEF j
  <1> QED
    BY <1>1, <1>2, QuietStart, Framed DEF IInv

\* The checks before the INSERT (Admit, Quota).
LEMMA ChecksKeep ==
  ASSUME IInv, NEW w \in Workers, Admit(w) \/ Quota(w)
  PROVE  IInv'
  <1>1. UNCHANGED <<areas, rows, nextId, blob, links, faults, stale, lapped>> /\ Frame
    BY Framed DEF Admit, Quota, IInv
  <1>2. Alike("admit", "quota") /\ Alike("quota", "insert")
    BY DEF Alike, Places, ChosenAt, FileAt, UploadAt, AttachAt
  <1>3. CASE Ends(w, "admit") \/ Ends(w, "quota")
    BY <1>1, <1>3, QuietEnd DEF Ends, UploadAt
  <1>4. CASE Step(w, "admit", "quota")
    BY <1>1, <1>2, <1>4, QuietMove
  <1>5. CASE Step(w, "quota", "insert") /\ WithinQuota(w)
    BY <1>1, <1>2, <1>5, QuietMove
  <1> QED
    BY <1>3, <1>4, <1>5 DEF Admit, Quota

\* get_file ends the upload of a row that has gone (Fetch).
LEMMA FetchKeeps ==
  ASSUME IInv, NEW w \in Workers, Fetch(w)
  PROVE  IInv'
  <1>1. UNCHANGED <<areas, rows, nextId, blob, links, faults, stale, lapped>> /\ Frame
    BY Framed DEF Fetch, IInv
  <1>2. Alike("fetch", "create")
    BY DEF Alike, Places, ChosenAt, FileAt, UploadAt, AttachAt
  <1>3. CASE Exists(job[w].id)
    BY <1>1, <1>2, <1>3, QuietMove DEF Fetch
  <1>4. CASE ~Exists(job[w].id)
    BY <1>1, <1>4, QuietEnd DEF Fetch, Ends
  <1> QED
    BY <1>3, <1>4

\* The disk refuses a write (WriteFails).
LEMMA WriteFailsKeeps ==
  ASSUME IInv, NEW w \in Workers, WriteFails(w)
  PROVE  IInv'
  <1>1. UNCHANGED <<rows, nextId, blob, lapped>>
    BY DEF WriteFails
  <1>2. Frame
    BY LibraryAssumption DEF WriteFails, Frame, IInv, TypeOK
  <1>3. Alike("create", "undo") /\ Alike("fill", "undo")
    BY DEF Alike, Places, ChosenAt, FileAt, UploadAt, AttachAt
  <1> QED
    BY <1>1, <1>2, <1>3, QuietMove DEF WriteFails

\* A statement fails, and the operation ends where it is (Fails).
LEMMA FailsKeeps ==
  ASSUME IInv, NEW w \in Workers, Fails(w)
  PROVE  IInv'
  <1>1. /\ job' = [job EXCEPT ![w] = Idle]
        /\ faults < MaxFaults /\ faults' = faults + 1
        /\ stale' = stale \cup {i \in {job[w].id} : job[w].at \in {"path", "fetch", "create", "undo"}}
        /\ job[w].at # "fill"
        /\ UNCHANGED <<areas, rows, nextId, blob, links, lapped>>
    BY DEF Fails, Ends
  <1>2. job[w].at \in UploadAt => job[w].id \in Ids
    BY DEF IInv, JobsSound, Sound, FileAt
  <1>3. job[w].at \in UploadAt <=> job[w].at \in {"path", "fetch", "create", "undo"}
    BY <1>1 DEF UploadAt
  <1>4. Frame
    BY <1>1, <1>2, <1>3, LibraryAssumption DEF Frame, IInv, TypeOK
  <1>5. job[w].at \in UploadAt => job[w].id \in stale'
    BY <1>1, <1>3
  <1> QED
    BY <1>1, <1>4, <1>5, QuietEnd

\* A worker sets out to remove, read or attach a file that exists.
LEMMA FoundIsSound ==
  ASSUME IInv, NEW i \in Ids, Exists(i), NEW at \in {"select", "read", "may"},
         NEW j, j = [Idle EXCEPT !.at = at, !.id = i]
  PROVE  /\ j \in Jobs /\ Sound(j, nextId) /\ j.at = at
         /\ j.at \notin UploadAt \cup {"unlink", "insert"}
  <1>1. i < nextId
    BY DEF IInv, Below, Exists
  <1>2. /\ j \in Jobs /\ j.at = at /\ j.id = i /\ j.name = None
    BY IdleIsSound DEF Jobs, Places, Idle
  <1> QED
    BY <1>1, <1>2 DEF Sound, ChosenAt, UploadAt

\* SFTP's remove and bbsctl rm-file name the file (Resolve).
LEMMA ResolveKeeps ==
  ASSUME IInv, NEW w \in Workers, NEW a \in Areas, NEW n \in Names, Resolve(w, a, n)
  PROVE  IInv'
  <1> DEFINE i == Newest(a, n)
             j == [Idle EXCEPT !.at = "select", !.id = i]
  <1>1. i # 0 /\ Begins(w, j)
        /\ UNCHANGED <<areas, rows, nextId, blob, links, faults, stale, lapped>>
    BY DEF Resolve
  <1>2. i \in Ids /\ Exists(i)
    BY <1>1, NewestExists DEF IInv
  <1> HIDE DEF i
  <1>3. /\ j \in Jobs /\ Sound(j, nextId)
        /\ j.at \notin UploadAt \cup AttachAt \cup {"unlink", "insert"}
    BY <1>2, FoundIsSound DEF AttachAt
  <1> HIDE DEF j
  <1> QED
    BY <1>1, <1>3, QuietStart, Framed DEF IInv

\* SFTP opens a file to read, and the viewer looks into it (Seek).
LEMMA SeekKeeps ==
  ASSUME IInv, NEW w \in Workers, NEW a \in Areas, NEW n \in Names, Seek(w, a, n)
  PROVE  IInv'
  <1> DEFINE i == Newest(a, n)
             j == [Idle EXCEPT !.at = "read", !.id = i]
  <1>1. i # 0 /\ Begins(w, j)
        /\ UNCHANGED <<areas, rows, nextId, blob, links, faults, stale, lapped>>
    BY DEF Seek
  <1>2. i \in Ids /\ Exists(i)
    BY <1>1, NewestExists DEF IInv
  <1> HIDE DEF i
  <1>3. /\ j \in Jobs /\ Sound(j, nextId)
        /\ j.at \notin UploadAt \cup AttachAt \cup {"unlink", "insert"}
    BY <1>2, FoundIsSound DEF AttachAt
  <1> HIDE DEF j
  <1> QED
    BY <1>1, <1>3, QuietStart, Framed DEF IInv

\* A composer picks a file (Stage).
LEMMA StageKeeps ==
  ASSUME IInv, NEW w \in Workers, NEW i \in Ids, Stage(w, i)
  PROVE  IInv'
  <1> DEFINE j == [Idle EXCEPT !.at = "may", !.id = i]
  <1>1. /\ w \notin Ctl /\ Exists(i) /\ Begins(w, j)
        /\ UNCHANGED <<areas, rows, nextId, blob, links, faults, stale, lapped>>
    BY DEF Stage
  <1>2. j \in Jobs /\ Sound(j, nextId) /\ j.at \notin UploadAt \cup {"unlink", "insert"}
    BY <1>1, FoundIsSound
  <1> HIDE DEF j
  <1> QED
    BY <1>1, <1>2, QuietStart, Framed DEF IInv

\* delete_file reads the path, or finds no row (Select).
LEMMA SelectKeeps ==
  ASSUME IInv, NEW w \in Workers, Select(w)
  PROVE  IInv'
  <1>1. /\ UNCHANGED <<areas, rows, nextId, blob, links, faults, stale, lapped>> /\ Frame
        /\ job[w].at = "select" /\ job[w].at \notin UploadAt \cup {"unlink"}
    BY Framed DEF Select, IInv, UploadAt
  <1>2. CASE Exists(job[w].id)
    <2> DEFINE path == IF Row(job[w].id).filed THEN "path" ELSE None
               j    == [job[w] EXCEPT !.at = "delete", !.name = path]
    <2>1. job' = [job EXCEPT ![w].at = "delete", ![w].name = path]
      BY <1>2 DEF Select
    <2>2. path \in Words
      BY DEF Words
    <2>3. job \in [Workers -> Jobs] /\ Sound(job[w], nextId)
      BY DEF IInv, JobsSound
    <2> HIDE DEF path
    <2>4. /\ job' = [job EXCEPT ![w] = j]
          /\ j \in Jobs /\ j.at = "delete" /\ j.id = job[w].id
      BY <2>1, <2>2, <2>3 DEF Jobs, Places
    <2> HIDE DEF j
    <2>5. /\ Sound(j, nextId)
          /\ j.at \notin UploadAt \cup AttachAt \cup {"unlink", "insert"}
      BY <1>1, <2>3, <2>4 DEF Sound, ChosenAt, FileAt, UploadAt, AttachAt
    <2> QED
      BY <1>1, <2>4, <2>5, QuietStep
  <1>3. CASE ~Exists(job[w].id)
    BY <1>1, <1>3, QuietEnd DEF Select, Ends
  <1> QED
    BY <1>2, <1>3

\* The blob is read, or is not there (Read).
LEMMA ReadKeeps ==
  ASSUME IInv, NEW w \in Workers, Read(w)
  PROVE  IInv'
  <1>1. /\ UNCHANGED <<areas, rows, nextId, blob, links, faults, stale, lapped>> /\ Frame
        /\ job[w].at = "read" /\ job[w].at \notin UploadAt \cup {"unlink"}
    BY Framed DEF Read, IInv, UploadAt
  <1>2. CASE blob[job[w].id] # "absent"
    <2> DEFINE got == blob[job[w].id]
               j   == [job[w] EXCEPT !.at = "hold", !.name = got]
    <2>1. job' = [job EXCEPT ![w].at = "hold", ![w].name = got]
      BY <1>2 DEF Read
    <2>2. job \in [Workers -> Jobs] /\ Sound(job[w], nextId)
      BY DEF IInv, JobsSound
    <2>3. got \in Words
      <3>1. job[w].id \in Ids
        BY <1>1, <2>2 DEF Sound, FileAt
      <3> QED
        BY <1>2, <3>1 DEF Words, IInv, TypeOK
    <2> HIDE DEF got
    <2>4. /\ job' = [job EXCEPT ![w] = j]
          /\ j \in Jobs /\ j.at = "hold"
      BY <2>1, <2>2, <2>3 DEF Jobs, Places
    <2> HIDE DEF j
    <2>5. /\ Sound(j, nextId)
          /\ j.at \notin UploadAt \cup AttachAt \cup {"unlink", "insert"}
      BY <2>4 DEF Sound, ChosenAt, FileAt, UploadAt, AttachAt
    <2> QED
      BY <1>1, <2>4, <2>5, QuietStep
  <1>3. CASE blob[job[w].id] = "absent"
    BY <1>1, <1>3, QuietEnd DEF Read, Ends
  <1> QED
    BY <1>2, <1>3

\* The other steps of downloads and attachments (Close, May, Count, Link).
LEMMA AttachmentsKeep ==
  ASSUME IInv, NEW w \in Workers, Close(w) \/ May(w) \/ Count(w) \/ Link(w)
  PROVE  IInv'
  <1>1. UNCHANGED <<rows, nextId, blob, lapped>>
    BY DEF Close, May, Count, Link
  <1>2. Alike("may", "count") /\ Alike("count", "link")
    BY DEF Alike, Places, ChosenAt, FileAt, UploadAt, AttachAt
  <1>3. CASE Link(w)
    <2>1. Ends(w, "link") /\ job[w].at \notin UploadAt \cup {"unlink"}
      BY <1>3 DEF Link, Ends, UploadAt
    <2>2. w \notin Ctl
      BY <2>1, <1>3 DEF Link, Ends, IInv, JobsSound, AttachAt
    <2>3. Frame
      BY <1>3, <2>2 DEF Link, Frame, IInv, TypeOK, Exists
    <2> QED
      BY <1>1, <2>1, <2>3, QuietEnd DEF Ends
  <1>4. CASE Close(w) \/ May(w) \/ Count(w)
    <2>1. Frame
      BY <1>4, Framed DEF Close, May, Count, IInv
    <2>2. CASE Ends(w, "hold") \/ Ends(w, "may") \/ Ends(w, "count")
      BY <1>1, <2>1, <2>2, QuietEnd DEF Ends, UploadAt
    <2>3. CASE Step(w, "may", "count")
      BY <1>1, <1>2, <2>1, <2>3, QuietMove
    <2>4. CASE Step(w, "count", "link")
      BY <1>1, <1>2, <2>1, <2>4, QuietMove
    <2> QED
      BY <1>4, <2>2, <2>3, <2>4 DEF Close, May, Count
  <1> QED
    BY <1>3, <1>4

\* The operator's areas come and go (AddArea, CountFiles, DeleteArea).
LEMMA AreasKeep ==
  ASSUME IInv, NEW w \in Workers,
         (\E a \in Areas : AddArea(w, a) \/ CountFiles(w, a)) \/ DeleteArea(w)
  PROVE  IInv'
  <1>1. UNCHANGED <<rows, nextId, blob, links, faults, stale, lapped>>
    BY DEF AddArea, CountFiles, DeleteArea
  <1>2. CASE \E a \in Areas : AddArea(w, a)
    <2>1. PICK a \in Areas : AddArea(w, a)
      BY <1>2
    <2>2. Frame
      BY <1>1, <2>1 DEF AddArea, Frame, IInv, TypeOK
    <2>3. job[w] = Idle /\ job' = [job EXCEPT ![w] = Idle]
      BY <2>1 DEF AddArea, IInv, JobsSound
    <2>4. Idle.at \notin UploadAt \cup {"unlink"}
      BY DEF Idle, UploadAt
    <2> QED
      BY <1>1, <2>2, <2>3, <2>4, QuietEnd
  <1>3. CASE \E a \in Areas : CountFiles(w, a)
    <2>1. PICK a \in Areas : CountFiles(w, a)
      BY <1>3
    <2>2. Frame
      BY <2>1, Framed DEF CountFiles, IInv
    <2> DEFINE j == [Idle EXCEPT !.at = "area", !.area = a]
    <2>3. /\ j \in Jobs /\ Sound(j, nextId)
          /\ j.at \notin UploadAt \cup AttachAt \cup {"unlink", "insert"}
      BY IdleIsSound DEF Idle, Jobs, Sound, Places, ChosenAt, FileAt, UploadAt, AttachAt
    <2>4. Begins(w, j)
      BY <2>1 DEF CountFiles
    <2> HIDE DEF j
    <2> QED
      BY <1>1, <2>2, <2>3, <2>4, QuietStart
  <1>4. CASE DeleteArea(w)
    <2>1. Frame
      <3>1. job[w].area \in Areas
        BY <1>4 DEF DeleteArea, IInv, JobsSound, Sound
      <3>2. areas' \in [Areas -> {"new", "there", "gone"}]
        BY <1>4, <3>1 DEF DeleteArea, IInv, TypeOK
      <3> QED
        BY <1>1, <3>2 DEF Frame, IInv, TypeOK
    <2>2. Ends(w, "area") /\ job[w].at \notin UploadAt \cup {"unlink"}
      BY <1>4 DEF DeleteArea, Ends, UploadAt
    <2> QED
      BY <1>1, <2>1, <2>2, QuietEnd DEF Ends
  <1> QED
    BY <1>2, <1>3, <1>4

\* What one worker moves, no other worker does.
LEMMA OneMoves ==
  ASSUME IInv, NEW w \in Workers, NEW j, job' = [job EXCEPT ![w] = j]
  PROVE  \A v \in Workers : job'[v] = IF v = w THEN j ELSE job[v]
  BY DEF IInv, JobsSound

\* ... as seen by the part of the invariant about the jobs.
LEMMA JobsKept ==
  ASSUME IInv, NEW w \in Workers, NEW j \in Jobs, job' = [job EXCEPT ![w] = j],
         Sound(j, nextId'), w \in Ctl => j.at \notin AttachAt, nextId' >= nextId, nextId' \in Nat
  PROVE  JobsSound'
  <1>1. \A v \in Workers : job'[v] = IF v = w THEN j ELSE job[v]
    BY OneMoves
  <1>2. job \in [Workers -> Jobs] /\ (\A v \in Workers : Sound(job[v], nextId)) /\ nextId \in Nat
    BY DEF IInv, JobsSound, TypeOK
  <1>3. ASSUME NEW v \in Workers, v # w PROVE Sound(job'[v], nextId')
    <2>1. job'[v] = job[v] /\ Sound(job[v], nextId)
      BY <1>1, <1>2, <1>3
    <2>2. job[v].at \in FileAt => job[v].id < nextId'
      BY <2>1, <1>2, LibraryAssumption DEF Sound, Ids
    <2> QED
      BY <2>1, <2>2 DEF Sound
  <1>4. job' \in [Workers -> Jobs]
    BY <1>2
  <1>5. \A v \in Ctl : job'[v].at \notin AttachAt
    BY <1>1, LibraryAssumption DEF IInv, JobsSound
  <1>6. Sound(job'[w], nextId')
    BY <1>1
  <1> QED
    BY <1>3, <1>4, <1>5, <1>6 DEF JobsSound

\* The INSERT takes a number nobody has used (Insert).
LEMMA InsertKeeps ==
  ASSUME IInv, NEW w \in Workers, Insert(w)
  PROVE  IInv'
  <1>1. /\ job[w].at = "insert" /\ nextId <= MaxFiles /\ nextId \in Ids
        /\ job \in [Workers -> Jobs] /\ Sound(job[w], nextId)
    BY LibraryAssumption DEF Insert, IInv, TypeOK, JobsSound, Ids
  <1>2. CASE areas[job[w].area] # "there"
    <2>1. Ends(w, "insert") /\ UNCHANGED <<areas, rows, nextId, blob, links, faults, stale, lapped>>
      BY <1>2 DEF Insert
    <2>2. Frame /\ job[w].at \notin UploadAt \cup {"unlink"}
      BY <1>1, <2>1, Framed DEF IInv, UploadAt
    <2> QED
      BY <2>1, <2>2, QuietEnd DEF Ends
  <1>3. CASE areas[job[w].area] = "there"
    <2> DEFINE r == [id |-> nextId, area |-> job[w].area, owner |-> UserOf[w],
                     name |-> job[w].name, size |-> job[w].size, filed |-> FALSE]
               j == [job[w] EXCEPT !.at = "path", !.id = nextId]
    <2>1. /\ rows' = rows \cup {r} /\ nextId' = nextId + 1
          /\ job' = [job EXCEPT ![w].at = "path", ![w].id = nextId]
          /\ lapped' = lapped \cup {UserOf[v] : v \in {x \in Workers \ {w} :
                              job[x].at = "insert" /\ UserOf[x] = UserOf[w]}}
          /\ UNCHANGED <<areas, blob, links, faults, stale>>
      BY <1>3 DEF Insert, Number
    <2>2. /\ job[w].area \in Areas /\ job[w].name \in Names /\ job[w].size \in Sizes
          /\ job[w].size \in Nat
      BY <1>1, LibraryAssumption DEF Sound, ChosenAt
    <2>3. /\ r.id = nextId /\ r.owner = UserOf[w] /\ r.size = job[w].size
          /\ r \in [id : Ids, area : Areas, owner : {UserOf[v] : v \in Workers},
                    name : Names, size : Sizes, filed : BOOLEAN]
      BY <1>1, <2>2
    <2>4. /\ job' = [job EXCEPT ![w] = j] /\ j \in Jobs
          /\ j.at = "path" /\ j.id = nextId
      BY <1>1, <2>1 DEF Jobs, Places
    <2> HIDE DEF r, j
    <2>5. \A v \in Workers : job'[v] = IF v = w THEN j ELSE job[v]
      BY <2>4, OneMoves
    <2>6. /\ \A q \in rows : q.id # nextId /\ q.id \in Nat
          /\ r \notin rows
          /\ \A v \in Workers : job[v].at \in FileAt => job[v].id # nextId /\ job[v].id \in Ids
      BY <1>1, <2>3 DEF IInv, Below, JobsSound, Sound, TypeOK, Ids
    <2>7. /\ \A i : Exists(i)' <=> Exists(i) \/ i = nextId
          /\ \A i : Exists(i) => i # nextId
      BY <2>1, <2>3, <2>6 DEF Exists
    <2>8. TypeOK'
      BY <1>1, <2>1, <2>3, <2>4, <2>6, LibraryAssumption DEF IInv, TypeOK, Jobs, Ids
    <2>9. JobsSound'
      <3>1. nextId' >= nextId /\ nextId' \in Nat /\ nextId < nextId'
        BY <1>1, <2>1, LibraryAssumption DEF Ids
      <3>2. Sound(j, nextId')
        BY <1>1, <2>1, <2>4, <3>1 DEF Sound, ChosenAt
      <3>3. j.at \notin AttachAt
        BY <2>4 DEF AttachAt
      <3> QED
        BY <2>4, <3>1, <3>2, <3>3, JobsKept
    <2>10. Below'
      <3>1. IsFiniteSet(rows')
        BY <2>1, FS_AddElement DEF IInv, Below
      <3> QED
        BY <1>1, <2>1, <2>3, <2>6, <3>1, LibraryAssumption DEF IInv, Below, TypeOK, Ids
    <2>11. Removed'
      BY <2>1, <2>4, <2>5, <2>6, <2>7 DEF IInv, Removed, FileAt
    <2>12. ListedIsThere'
      <3>1. \E v \in Workers : job'[v].id = nextId /\ job'[v].at = "path"
        BY <2>4, <2>5
      <3>2. ASSUME NEW q \in rows, ~Uploading(q.id)' PROVE ~Uploading(q.id)
        BY <1>1, <2>5, <3>2 DEF Uploading
      <3>3. ASSUME NEW q \in rows', q.id \notin stale, ~Uploading(q.id)'
            PROVE  q \in rows /\ ~Uploading(q.id)
        <4>1. q.id # nextId
          BY <3>1, <3>3 DEF Uploading
        <4> QED
          BY <2>1, <2>3, <3>2, <3>3, <4>1
      <3> QED
        BY <2>1, <3>3 DEF IInv, ListedIsThere
    <2>13. /\ \A u : Usage(u)' = IF u = UserOf[w] THEN job[w].size + Usage(u) ELSE Usage(u)
           /\ \A u : Usage(u) \in Nat
      <3>1. \A u : Usage(u)' = IF r.owner = u THEN r.size + Usage(u) ELSE Usage(u)
        BY <2>1, <2>2, <2>3, <2>6, UsageGrows DEF IInv
      <3>2. IInv => TypeOK /\ Below
        BY DEF IInv
      <3>3. \A u : Usage(u) \in Nat
        BY <3>2, UsageNat
      <3> QED
        BY <2>3, <3>1, <3>3
    <2>14. Fits'
      <3> SUFFICES ASSUME NEW v \in Workers, job'[v].at = "insert", UserQuota # 0,
                          UserOf[v] \notin Admins \cup lapped'
                   PROVE  Usage(UserOf[v])' + job'[v].size <= UserQuota
        BY DEF Fits
      <3>1. v # w /\ job'[v] = job[v] /\ job[v].at = "insert"
        BY <2>4, <2>5
      <3>2. UserOf[v] # UserOf[w]
        BY <2>1, <3>1
      <3>3. Usage(UserOf[v])' = Usage(UserOf[v])
        BY <2>13, <3>2
      <3> QED
        BY <2>1, <3>1, <3>3 DEF IInv, Fits
    <2>15. QuotaHolds'
      <3> SUFFICES ASSUME NEW v \in Workers, UserQuota # 0, UserOf[v] \notin Admins \cup lapped'
                   PROVE  Usage(UserOf[v])' <= UserQuota
        BY DEF QuotaHolds
      <3>1. UserOf[v] \notin Admins \cup lapped
        BY <2>1
      <3>2. CASE UserOf[v] = UserOf[w]
        <4>1. Usage(UserOf[w]) + job[w].size <= UserQuota
          BY <1>1, <3>1, <3>2 DEF IInv, Fits
        <4> QED
          BY <2>2, <2>13, <3>2, <4>1, LibraryAssumption
      <3>3. CASE UserOf[v] # UserOf[w]
        BY <2>13, <3>1, <3>3 DEF IInv, QuotaHolds
      <3> QED
        BY <3>2, <3>3
    <2> QED
      BY <2>8, <2>9, <2>10, <2>11, <2>12, <2>14, <2>15 DEF IInv
  <1> QED
    BY <1>2, <1>3

\* Setting a path changes one row, in nothing the sums or the ids depend on.
LEMMA PathSet ==
  ASSUME IInv, NEW w \in Workers, SetPath(w)
  PROVE  /\ rows' \subseteq [id : Ids, area : Areas, owner : {UserOf[v] : v \in Workers},
                             name : Names, size : Sizes, filed : BOOLEAN]
         /\ \A r, q \in rows' : r.id = q.id => r = q
         /\ \A q \in rows' : \E r \in rows : r.id = q.id
         /\ \A r \in rows : \E q \in rows' : r.id = q.id
         /\ IsFiniteSet(rows')
         /\ \A u : Usage(u)' = Usage(u)
  <1> DEFINE f(r) == [r EXCEPT !.filed = r.filed \/ r.id = job[w].id]
             Rows == [id : Ids, area : Areas, owner : {UserOf[v] : v \in Workers},
                      name : Names, size : Sizes, filed : BOOLEAN]
  <1>1. /\ rows \subseteq Rows /\ (\A r, q \in rows : r.id = q.id => r = q)
        /\ IsFiniteSet(rows) /\ (\A r \in rows : r.size \in Nat)
    BY SizesOfRows DEF IInv, TypeOK, Below
  <1>2. rows' = {f(r) : r \in rows}
    BY DEF SetPath
  <1>3. ASSUME NEW r \in rows
        PROVE  f(r) \in Rows /\ f(r).id = r.id /\ f(r).owner = r.owner /\ f(r).size = r.size
    <2>1. r \in Rows
      BY <1>1
    <2>2. (r.filed \/ r.id = job[w].id) \in BOOLEAN
      BY Zenon
    <2> QED
      BY <2>1, <2>2
  <1>4. ASSUME NEW r \in rows, r.id # job[w].id PROVE f(r) = r
    <2>1. r \in Rows /\ r.filed \in BOOLEAN
      BY <1>1
    <2>2. (r.filed \/ r.id = job[w].id) = r.filed
      BY <1>4, <2>1, Zenon
    <2> QED
      BY <2>1, <2>2
  <1> HIDE DEF f, Rows
  <1>5. \A r, q \in rows' : r.id = q.id => r = q
    BY <1>1, <1>2, <1>3
  <1>6. CASE \E k \in rows : k.id = job[w].id /\ f(k) # k
    <2>1. PICK k \in rows : k.id = job[w].id /\ f(k) # k
      BY <1>6
    <2>2. /\ rows' = (rows \ {k}) \cup {f(k)}
          /\ f(k) \notin rows
      BY <1>1, <1>2, <1>3, <1>4, <2>1
    <2>3. IsFiniteSet(rows')
      BY <1>1, <2>2, FS_AddElement, FS_RemoveElement
    <2>4. ASSUME NEW u PROVE Usage(u)' = Usage(u)
      <3> DEFINE S == Owned(rows, u)
      <3>1. IsFiniteSet(S) /\ (\A r \in S : r.size \in Nat)
        BY <1>1, FS_Subset DEF Owned
      <3>2. CASE k.owner = u
        <4>1. k \in S /\ f(k) \notin S /\ k.size = f(k).size
          BY <1>3, <2>1, <2>2, <3>2 DEF Owned
        <4>2. Owned(rows', u) = (S \ {k}) \cup {f(k)}
          BY <1>3, <2>1, <2>2, <3>2 DEF Owned
        <4> HIDE DEF S
        <4>3. Total((S \ {k}) \cup {f(k)}) = Total(S)
          BY <3>1, <4>1, TotalSwap
        <4> QED
          BY <4>2, <4>3, UsageIsTotal DEF S
      <3>3. CASE k.owner # u
        <4>1. Owned(rows', u) = S
          BY <1>3, <2>1, <2>2, <3>3 DEF Owned
        <4> QED
          BY <4>1, UsageIsTotal
      <3> QED
        BY <3>2, <3>3
    <2> QED
      BY <1>1, <1>2, <1>3, <1>5, <2>3, <2>4 DEF Rows
  <1>7. CASE ~ \E k \in rows : k.id = job[w].id /\ f(k) # k
    <2>1. \A r \in rows : f(r) = r
      BY <1>4, <1>7
    <2>2. rows' = rows
      BY <1>2, <2>1
    <2> QED
      BY <1>1, <1>5, <2>2, UsageIsTotal DEF Rows
  <1> QED
    BY <1>6, <1>7

\* set_file_path fills in the path of the row just inserted (SetPath).
LEMMA SetPathKeeps ==
  ASSUME IInv, NEW w \in Workers, SetPath(w)
  PROVE  IInv'
  <1> DEFINE j == [job[w] EXCEPT !.at = "fetch"]
  <1>1. /\ job[w].at = "path" /\ job' = [job EXCEPT ![w] = j]
        /\ UNCHANGED <<areas, nextId, blob, links, faults, stale, lapped>>
    BY DEF SetPath, Step
  <1>2. job \in [Workers -> Jobs] /\ Sound(job[w], nextId) /\ nextId \in Nat
    BY LibraryAssumption DEF IInv, JobsSound, TypeOK
  <1>3. j \in Jobs /\ j.at = "fetch" /\ j.id = job[w].id /\ j.id \in Ids /\ j.id < nextId
    BY <1>1, <1>2 DEF Jobs, Places, Sound, FileAt, UploadAt
  <1> HIDE DEF j
  <1>4. \A v \in Workers : job'[v] = IF v = w THEN j ELSE job[v]
    BY <1>1, OneMoves
  <1>5. \A i : Exists(i)' <=> Exists(i)
    BY PathSet DEF Exists
  <1>6. TypeOK'
    BY <1>1, <1>3, <1>4, PathSet DEF IInv, TypeOK
  <1>7. JobsSound'
    <2>1. Sound(j, nextId') /\ j.at \notin AttachAt
      BY <1>1, <1>3 DEF Sound, ChosenAt, AttachAt
    <2>2. nextId' >= nextId /\ nextId' \in Nat
      BY <1>1, <1>2
    <2> QED
      BY <1>1, <1>3, <2>1, <2>2, JobsKept
  <1>8. Below'
    BY <1>1, PathSet DEF IInv, Below
  <1>9. Removed'
    BY <1>1, <1>3, <1>4, <1>5 DEF IInv, Removed
  <1>10. ListedIsThere'
    <2>1. ASSUME NEW i, ~Uploading(i)' PROVE ~Uploading(i)
      BY <1>1, <1>3, <1>4, <2>1 DEF Uploading
    <2>2. ASSUME NEW q \in rows', q.id \notin stale, ~Uploading(q.id)'
          PROVE  blob[q.id] = "whole"
      <3>1. PICK r \in rows : r.id = q.id
        BY PathSet
      <3> QED
        BY <2>1, <2>2, <3>1 DEF IInv, ListedIsThere
    <2> QED
      BY <1>1, <2>2 DEF ListedIsThere
  <1>11. Fits' /\ QuotaHolds'
    BY <1>1, <1>3, <1>4, PathSet DEF IInv, Fits, QuotaHolds
  <1> QED
    BY <1>6, <1>7, <1>8, <1>9, <1>10, <1>11 DEF IInv

\* fs::write makes the file (Create).
LEMMA CreateKeeps ==
  ASSUME IInv, NEW w \in Workers, Create(w)
  PROVE  IInv'
  <1> DEFINE j == [job[w] EXCEPT !.at = "fill"]
  <1>1. /\ job[w].at = "create" /\ job' = [job EXCEPT ![w] = j]
        /\ blob' = [blob EXCEPT ![job[w].id] = "partial"]
        /\ UNCHANGED <<areas, rows, nextId, links, faults, stale, lapped>>
    BY DEF Create, Step
  <1>2. /\ job \in [Workers -> Jobs] /\ Sound(job[w], nextId) /\ nextId \in Nat
        /\ blob \in [Ids -> {"absent", "partial", "whole"}]
    BY LibraryAssumption DEF IInv, JobsSound, TypeOK
  <1>3. j \in Jobs /\ j.at = "fill" /\ j.id = job[w].id /\ j.id \in Ids /\ j.id < nextId
    BY <1>1, <1>2 DEF Jobs, Places, Sound, FileAt, UploadAt
  <1> HIDE DEF j
  <1>4. /\ \A v \in Workers : job'[v] = IF v = w THEN j ELSE job[v]
        /\ \A i \in Ids : blob'[i] = IF i = j.id THEN "partial" ELSE blob[i]
    BY <1>1, <1>2, <1>3, OneMoves
  <1>5. /\ \A i : Exists(i)' <=> Exists(i)
        /\ \A u : Usage(u)' = Usage(u)
    BY <1>1, UsageIsTotal DEF Exists
  <1>6. TypeOK'
    BY <1>1, <1>2, <1>3, <1>4 DEF IInv, TypeOK
  <1>7. JobsSound'
    <2>1. Sound(j, nextId') /\ j.at \notin AttachAt
      BY <1>1, <1>3 DEF Sound, ChosenAt, AttachAt
    <2>2. nextId' >= nextId /\ nextId' \in Nat
      BY <1>1, <1>2
    <2> QED
      BY <1>1, <1>3, <2>1, <2>2, JobsKept
  <1>8. Below'
    BY <1>1, <1>3, <1>4 DEF IInv, Below
  <1>9. Removed'
    BY <1>1, <1>3, <1>4, <1>5 DEF IInv, Removed
  <1>10. ListedIsThere'
    <2>1. ASSUME NEW i, ~Uploading(i)' PROVE ~Uploading(i) /\ i # j.id
      BY <1>1, <1>3, <1>4, <2>1 DEF Uploading
    <2> QED
      BY <1>1, <1>4, <2>1 DEF IInv, ListedIsThere, TypeOK
  <1>11. Fits' /\ QuotaHolds'
    BY <1>1, <1>3, <1>4, <1>5 DEF IInv, Fits, QuotaHolds
  <1> QED
    BY <1>6, <1>7, <1>8, <1>9, <1>10, <1>11 DEF IInv

\* What ends an operation changes nothing in the others' places.
LEMMA EndKeepsJobs ==
  ASSUME IInv, NEW w \in Workers, job' = [job EXCEPT ![w] = Idle],
         UNCHANGED nextId
  PROVE  JobsSound'
  <1>1. nextId \in Nat /\ nextId' >= nextId
    BY LibraryAssumption DEF IInv, TypeOK
  <1>2. Idle.at \notin AttachAt
    BY DEF Idle, AttachAt
  <1> QED
    BY <1>1, <1>2, IdleIsSound, JobsKept

\* ... and fills it (Fill).
LEMMA FillKeeps ==
  ASSUME IInv, NEW w \in Workers, Fill(w)
  PROVE  IInv'
  <1> DEFINE k == job[w].id
  <1>1. /\ job[w].at = "fill" /\ job' = [job EXCEPT ![w] = Idle]
        /\ blob' = [blob EXCEPT ![k] = "whole"]
        /\ UNCHANGED <<areas, rows, nextId, links, faults, stale, lapped>>
    BY DEF Fill, Ends
  <1>2. /\ job \in [Workers -> Jobs] /\ Sound(job[w], nextId)
        /\ blob \in [Ids -> {"absent", "partial", "whole"}]
        /\ k \in Ids /\ k < nextId
    BY <1>1 DEF IInv, JobsSound, TypeOK, Sound, FileAt, UploadAt
  <1>3. /\ \A v \in Workers : job'[v] = IF v = w THEN Idle ELSE job[v]
        /\ \A i \in Ids : blob'[i] = IF i = k THEN "whole" ELSE blob[i]
    BY <1>1, <1>2, OneMoves
  <1>4. Idle.at \notin UploadAt \cup {"insert", "unlink"} /\ Idle.id = 0
    BY DEF Idle, UploadAt
  <1>5. /\ \A i : Exists(i)' <=> Exists(i)
        /\ \A u : Usage(u)' = Usage(u)
    BY <1>1, UsageIsTotal DEF Exists
  <1> HIDE DEF k
  <1>6. TypeOK'
    BY <1>1, <1>2, <1>3, <1>4 DEF IInv, TypeOK
  <1>7. JobsSound'
    BY <1>1, EndKeepsJobs
  <1>8. Below'
    BY <1>1, <1>2, <1>3 DEF IInv, Below
  <1>9. Removed'
    BY <1>1, <1>3, <1>4, <1>5 DEF IInv, Removed
  <1>10. ListedIsThere'
    <2>1. ASSUME NEW i \in Ids, i # k, ~Uploading(i)' PROVE ~Uploading(i)
      BY <1>3, <2>1 DEF Uploading, k
    <2> QED
      BY <1>1, <1>3, <2>1 DEF IInv, ListedIsThere, TypeOK
  <1>11. Fits' /\ QuotaHolds'
    BY <1>1, <1>3, <1>4, <1>5 DEF IInv, Fits, QuotaHolds
  <1> QED
    BY <1>6, <1>7, <1>8, <1>9, <1>10, <1>11 DEF IInv

\* What remains of the catalogue when a row goes.
LEMMA Erased ==
  ASSUME IInv, NEW i, Erase(i)
  PROVE  /\ rows' \subseteq rows /\ links' \subseteq links
         /\ \A n : Exists(n)' <=> Exists(n) /\ n # i
         /\ \A u : Usage(u) \in Nat /\ Usage(u)' \in Nat /\ Usage(u)' <= Usage(u)
         /\ IsFiniteSet(rows')
         /\ \A r \in rows' : r.id # i
  <1>1. rows' \subseteq rows /\ links' \subseteq links /\ (\A r \in rows' : r.id # i)
        /\ \A n : Exists(n)' <=> Exists(n) /\ n # i
    BY DEF Erase, Exists
  <1> QED
    BY <1>1, UsageShrinks, FS_Subset DEF IInv, Below

\* A sum that does not grow leaves the quota as it was.
LEMMA QuotaKept ==
  ASSUME IInv, lapped' = lapped,
         \A u : Usage(u) \in Nat /\ Usage(u)' \in Nat /\ Usage(u)' <= Usage(u),
         \A v \in Workers : job'[v].at = "insert" => job'[v] = job[v]
  PROVE  Fits' /\ QuotaHolds'
  <1>1. Fits'
    <2> SUFFICES ASSUME NEW v \in Workers, job'[v].at = "insert",
                        UserQuota # 0, UserOf[v] \notin Admins \cup lapped
                 PROVE  Usage(UserOf[v])' + job'[v].size <= UserQuota
      BY DEF Fits
    <2>1. job[v].size \in Nat /\ job'[v] = job[v]
      BY LibraryAssumption DEF IInv, JobsSound, Sound, ChosenAt
    <2>2. Usage(UserOf[v]) + job[v].size <= UserQuota
      BY <2>1 DEF IInv, Fits
    <2> QED
      BY <2>1, <2>2, LibraryAssumption
  <1>2. QuotaHolds'
    <2> SUFFICES ASSUME NEW v \in Workers, UserQuota # 0, UserOf[v] \notin Admins \cup lapped
                 PROVE  Usage(UserOf[v])' <= UserQuota
      BY DEF QuotaHolds
    <2>1. Usage(UserOf[v]) <= UserQuota
      BY DEF IInv, QuotaHolds
    <2> QED
      BY <2>1, LibraryAssumption
  <1> QED
    BY <1>1, <1>2

\* "Roll the row back so quota accounting stays honest" (RollBack).
LEMMA RollBackKeeps ==
  ASSUME IInv, NEW w \in Workers, RollBack(w)
  PROVE  IInv'
  <1> DEFINE k == job[w].id
  <1>1. /\ job[w].at = "undo" /\ job' = [job EXCEPT ![w] = Idle] /\ Erase(k)
        /\ UNCHANGED <<areas, nextId, blob, faults, stale, lapped>>
    BY DEF RollBack, Undo, Ends
  <1>2. /\ \A v \in Workers : job'[v] = IF v = w THEN Idle ELSE job[v]
        /\ Idle.at \notin UploadAt \cup {"insert", "unlink"} /\ Idle.id = 0
    BY <1>1, OneMoves DEF Idle, UploadAt
  <1> HIDE DEF k
  <1>3. /\ rows' \subseteq rows /\ links' \subseteq links /\ IsFiniteSet(rows')
        /\ \A r \in rows' : r.id # k
        /\ \A n : Exists(n)' <=> Exists(n) /\ n # k
        /\ \A u : Usage(u) \in Nat /\ Usage(u)' \in Nat /\ Usage(u)' <= Usage(u)
    BY <1>1, Erased
  <1>4. TypeOK'
    BY <1>1, <1>2, <1>3 DEF IInv, TypeOK
  <1>5. JobsSound'
    BY <1>1, EndKeepsJobs
  <1>6. Below'
    BY <1>1, <1>3 DEF IInv, Below
  <1>7. Removed'
    BY <1>1, <1>2, <1>3 DEF IInv, Removed
  <1>8. ListedIsThere'
    <2>1. ASSUME NEW i, i # k, ~Uploading(i)' PROVE ~Uploading(i)
      BY <1>2, <2>1 DEF Uploading, k
    <2> QED
      BY <1>1, <1>3, <2>1 DEF IInv, ListedIsThere
  <1>9. Fits' /\ QuotaHolds'
    <2>1. \A v \in Workers : job'[v].at = "insert" => job'[v] = job[v]
      BY <1>2
    <2> QED
      BY <1>1, <1>3, <2>1, QuotaKept
  <1> QED
    BY <1>4, <1>5, <1>6, <1>7, <1>8, <1>9 DEF IInv

\* The row goes first (Delete) ...
LEMMA DeleteKeeps ==
  ASSUME IInv, NEW w \in Workers, Delete(w)
  PROVE  IInv'
  <1> DEFINE k == job[w].id
             j == [job[w] EXCEPT !.at = "unlink"]
  <1>1. /\ job[w].at = "delete" /\ job' = [job EXCEPT ![w] = j] /\ Erase(k)
        /\ UNCHANGED <<areas, nextId, blob, faults, stale, lapped>>
    BY DEF Delete, Step
  <1>2. /\ job \in [Workers -> Jobs] /\ Sound(job[w], nextId) /\ nextId \in Nat
    BY LibraryAssumption DEF IInv, JobsSound, TypeOK
  <1>3. /\ j \in Jobs /\ j.at = "unlink" /\ j.id = k /\ j.name = job[w].name
        /\ k \in Ids /\ k < nextId
    BY <1>1, <1>2 DEF Jobs, Places, Sound, FileAt
  <1> HIDE DEF j
  <1>4. /\ \A v \in Workers : job'[v] = IF v = w THEN j ELSE job[v]
        /\ "unlink" \notin UploadAt \cup AttachAt \cup {"insert"}
        /\ job[w].at \notin UploadAt
    BY <1>1, OneMoves DEF UploadAt, AttachAt
  <1> HIDE DEF k
  <1>5. /\ rows' \subseteq rows /\ links' \subseteq links /\ IsFiniteSet(rows')
        /\ \A r \in rows' : r.id # k
        /\ \A n : Exists(n)' <=> Exists(n) /\ n # k
        /\ \A u : Usage(u) \in Nat /\ Usage(u)' \in Nat /\ Usage(u)' <= Usage(u)
    BY <1>1, Erased
  <1>6. TypeOK'
    BY <1>1, <1>3, <1>4, <1>5 DEF IInv, TypeOK
  <1>7. JobsSound'
    <2>1. Sound(j, nextId') /\ j.at \notin AttachAt
      BY <1>1, <1>3, <1>4 DEF Sound, ChosenAt
    <2>2. nextId' >= nextId /\ nextId' \in Nat
      BY <1>1, <1>2
    <2> QED
      BY <1>1, <1>3, <2>1, <2>2, JobsKept
  <1>8. Below'
    BY <1>1, <1>5 DEF IInv, Below
  <1>9. Removed'
    BY <1>3, <1>4, <1>5 DEF IInv, Removed
  <1>10. ListedIsThere'
    <2>1. ASSUME NEW i, ~Uploading(i)' PROVE ~Uploading(i)
      BY <1>4, <2>1 DEF Uploading, UploadAt
    <2> QED
      BY <1>1, <1>5, <2>1 DEF IInv, ListedIsThere
  <1>11. Fits' /\ QuotaHolds'
    <2>1. \A v \in Workers : job'[v].at = "insert" => job'[v] = job[v]
      BY <1>3, <1>4
    <2> QED
      BY <1>1, <1>5, <2>1, QuotaKept
  <1> QED
    BY <1>6, <1>7, <1>8, <1>9, <1>10, <1>11 DEF IInv

\* ... and the blob after it (RemoveBlob).
LEMMA RemoveBlobKeeps ==
  ASSUME IInv, NEW w \in Workers, RemoveBlob(w)
  PROVE  IInv'
  <1> DEFINE k == job[w].id
  <1>1. /\ job[w].at = "unlink" /\ job' = [job EXCEPT ![w] = Idle]
        /\ blob' = IF job[w].name = None THEN blob ELSE [blob EXCEPT ![k] = "absent"]
        /\ UNCHANGED <<areas, rows, nextId, links, faults, stale, lapped>>
    BY DEF RemoveBlob, Unlink, Ends
  <1>2. /\ \A v \in Workers : job'[v] = IF v = w THEN Idle ELSE job[v]
        /\ Idle.at \notin UploadAt \cup {"insert", "unlink"} /\ Idle.id = 0
    BY <1>1, OneMoves DEF Idle, UploadAt
  <1>3. /\ \A i \in Ids : blob'[i] = blob[i] \/ (i = k /\ blob'[i] = "absent")
        /\ ~Exists(k)
        /\ blob' \in [Ids -> {"absent", "partial", "whole"}]
    <2>1. k \in Ids /\ blob \in [Ids -> {"absent", "partial", "whole"}]
      BY <1>1 DEF IInv, TypeOK, JobsSound, Sound, FileAt
    <2>2. ~Exists(k)
      BY <1>1 DEF IInv, Removed
    <2> HIDE DEF k
    <2>3. CASE job[w].name = None
      BY <1>1, <2>1, <2>2, <2>3
    <2>4. CASE job[w].name # None
      <3>1. blob' = [blob EXCEPT ![k] = "absent"]
        BY <1>1, <2>4
      <3> QED
        BY <2>1, <2>2, <3>1
    <2> QED
      BY <2>3, <2>4
  <1>4. /\ \A i : Exists(i)' <=> Exists(i)
        /\ \A u : Usage(u)' = Usage(u)
    BY <1>1, UsageIsTotal DEF Exists
  <1>5. \A v \in Workers : job[v].at \in UploadAt => job[v].id \in Ids
    BY DEF IInv, JobsSound, Sound, FileAt
  <1> HIDE DEF k
  <1>6. TypeOK'
    BY <1>1, <1>2, <1>3 DEF IInv, TypeOK
  <1>7. JobsSound'
    BY <1>1, EndKeepsJobs
  <1>8. Below'
    BY <1>1, <1>3 DEF IInv, Below
  <1>9. Removed'
    BY <1>1, <1>2, <1>4 DEF IInv, Removed
  <1>10. ListedIsThere'
    <2>1. ASSUME NEW i, ~Uploading(i)' PROVE ~Uploading(i)
      BY <1>1, <1>2, <2>1 DEF Uploading
    <2> QED
      BY <1>1, <1>3, <2>1 DEF IInv, ListedIsThere, Exists, TypeOK
  <1>11. Fits' /\ QuotaHolds'
    BY <1>1, <1>2, <1>4 DEF IInv, Fits, QuotaHolds
  <1> QED
    BY <1>6, <1>7, <1>8, <1>9, <1>10, <1>11 DEF IInv

\* The server dies in the middle of whatever it was doing (Crash).
LEMMA CrashKeeps ==
  ASSUME IInv, Crash
  PROVE  IInv'
  <1> DEFINE lost == {job[w].id : w \in {v \in Workers \ Ctl : job[v].at \in
                       {"path", "fetch", "create", "fill", "undo"}}}
  <1>1. /\ job' = [w \in Workers |-> IF w \in Ctl THEN job[w] ELSE Idle]
        /\ stale' = stale \cup lost
        /\ faults < MaxFaults /\ faults' = faults + 1
        /\ UNCHANGED <<areas, rows, nextId, blob, links, lapped>>
    BY DEF Crash
  <1>2. /\ \A v \in Workers : job'[v] = IF v \in Ctl THEN job[v] ELSE Idle
        /\ Idle.at \notin UploadAt \cup AttachAt \cup {"insert", "unlink"}
        /\ Idle.id = 0
    BY <1>1 DEF Idle, UploadAt, AttachAt
  <1>3. \A v \in Workers \ Ctl : job[v].at \in UploadAt => job[v].id \in lost
    BY DEF UploadAt
  <1>4. lost \subseteq Ids
    BY DEF IInv, JobsSound, Sound, FileAt, UploadAt
  <1> HIDE DEF lost
  <1>5. /\ \A i : Exists(i)' <=> Exists(i)
        /\ \A u : Usage(u)' = Usage(u)
    BY <1>1, UsageIsTotal DEF Exists
  <1>6. TypeOK'
    BY <1>1, <1>2, <1>4, LibraryAssumption DEF IInv, TypeOK
  <1>7. JobsSound'
    BY <1>1, <1>2, IdleIsSound, LibraryAssumption DEF IInv, JobsSound
  <1>8. Below'
    BY <1>1 DEF IInv, Below
  <1>9. Removed'
    BY <1>1, <1>2, <1>5 DEF IInv, Removed
  <1>10. ListedIsThere'
    <2>1. ASSUME NEW i, i \notin lost, ~Uploading(i)' PROVE ~Uploading(i)
      BY <1>2, <1>3, <2>1 DEF Uploading, UploadAt
    <2> QED
      BY <1>1, <2>1 DEF IInv, ListedIsThere
  <1>11. Fits' /\ QuotaHolds'
    BY <1>1, <1>2, <1>5 DEF IInv, Fits, QuotaHolds
  <1> QED
    BY <1>6, <1>7, <1>8, <1>9, <1>10, <1>11 DEF IInv

\* A step that changes nothing.
LEMMA StutterKeeps ==
  ASSUME IInv, UNCHANGED vars
  PROVE  IInv'
  <1>1. /\ \A i : Exists(i)' <=> Exists(i)
        /\ \A u : Usage(u)' = Usage(u)
        /\ \A i : Uploading(i)' <=> Uploading(i)
    BY UsageIsTotal DEF Exists, Uploading, vars
  <1>2. TypeOK' /\ JobsSound' /\ Below'
    BY DEF vars, IInv, TypeOK, JobsSound, Below
  <1>3. Removed' /\ ListedIsThere'
    BY <1>1 DEF vars, IInv, Removed, ListedIsThere
  <1>4. Fits' /\ QuotaHolds'
    BY <1>1 DEF vars, IInv, Fits, QuotaHolds
  <1> QED
    BY <1>2, <1>3, <1>4 DEF IInv

\* Nothing is stored and nobody works at first.
LEMMA InitHolds ==
  ASSUME Init
  PROVE  IInv
  <1>1. /\ \A w \in Workers : job[w] = Idle
        /\ job \in [Workers -> Jobs]
        /\ Idle.at \notin UploadAt \cup AttachAt \cup {"insert", "unlink"}
        /\ Idle.id = 0
    BY IdleIsSound DEF Init, Idle, UploadAt, AttachAt
  <1>2. TypeOK
    BY <1>1, LibraryAssumption DEF Init, TypeOK, Ids
  <1>3. JobsSound
    <2>1. Sound(Idle, nextId)
      BY IdleIsSound
    <2> QED
      BY <1>1, <2>1, LibraryAssumption DEF JobsSound
  <1>4. Below
    BY FS_EmptySet DEF Init, Below
  <1>5. Removed
    BY <1>1 DEF Removed
  <1>6. ListedIsThere
    BY DEF Init, ListedIsThere
  <1>7. Fits /\ QuotaHolds
    <2>1. \A u : Usage(u) = 0
      <3>1. \A u : Owned(rows, u) = {}
        BY DEF Init, Owned
      <3>2. Total({}) = 0
        BY TotalPick, FS_EmptySet
      <3> QED
        BY <3>1, <3>2, UsageIsTotal
    <2> QED
      BY <1>1, <2>1, LibraryAssumption DEF Fits, QuotaHolds
  <1> QED
    BY <1>2, <1>3, <1>4, <1>5, <1>6, <1>7 DEF IInv

\* Every step keeps the invariant, whoever takes it.
LEMMA NextKeeps ==
  ASSUME IInv, [Next]_vars
  PROVE  IInv'
  <1>1. ASSUME NEW w \in Workers, Proceed(w) PROVE IInv'
    BY <1>1, ChecksKeep, InsertKeeps, SetPathKeeps, FetchKeeps, CreateKeeps, FillKeeps,
       WriteFailsKeeps, FailsKeeps, RollBackKeeps, SelectKeeps, DeleteKeeps, RemoveBlobKeeps, ReadKeeps,
       AttachmentsKeep, AreasKeep DEF Proceed
  <1>2. ASSUME NEW w \in Workers, NEW a \in Areas, NEW n \in Names,
               \/ \E s \in Sizes : OpenWrite(w, a, n, s)
               \/ Resolve(w, a, n)
               \/ Seek(w, a, n)
        PROVE  IInv'
    BY <1>2, OpenWriteKeeps, ResolveKeeps, SeekKeeps
  <1>3. ASSUME NEW w \in Workers, NEW i \in Ids, Stage(w, i) PROVE IInv'
    BY <1>3, StageKeeps
  <1>4. ASSUME NEW w \in Workers, NEW a \in Areas, AddArea(w, a) \/ CountFiles(w, a) PROVE IInv'
    BY <1>4, AreasKeep
  <1>5. CASE Crash
    BY <1>5, CrashKeeps
  <1>6. CASE UNCHANGED vars
    BY <1>6, StutterKeeps
  <1> QED
    BY <1>1, <1>2, <1>3, <1>4, <1>5, <1>6 DEF Next

-----------------------------------------------------------------------------
(* The theorems. *)

\* The inductive invariant holds of every reachable state.
THEOREM Invariant == Spec => []IInv
  <1>1. Init => IInv
    BY InitHolds
  <1>2. IInv /\ [Next]_vars => IInv'
    BY NextKeeps
  <1> QED
    BY <1>1, <1>2, PTL DEF Spec

\* Every variable stays within its type, and no two rows share an id.
THEOREM TypeCorrect == Spec => []TypeOK
  <1>1. IInv => TypeOK
    BY DEF IInv
  <1> QED
    BY <1>1, Invariant, PTL

\* A listed file whose upload is over is there in full, but for an upload that a
\* crash or a failed statement cut short: rows have numbers of their own, and a
\* blob is taken away only after its row.
THEOREM ListedFilesAreThere == Spec => []ListedIsThere
  <1>1. IInv => ListedIsThere
    BY DEF IInv
  <1> QED
    BY <1>1, Invariant, PTL

\* A user who is no admin and never had two uploads between check and INSERT at
\* once stays within the quota.
THEOREM QuotaIsKept == Spec => []QuotaHolds
  <1>1. IInv => QuotaHolds
    BY DEF IInv
  <1> QED
    BY <1>1, Invariant, PTL

\* Who is at "read" stays there, reads, or falls with the server.
LEMMA OnlyReadLeavesRead ==
  ASSUME IInv, Next, NEW w \in Workers, job[w].at = "read"
  PROVE  job'[w] = job[w] \/ Read(w) \/ job'[w] = Idle
  <1>1. job \in [Workers -> Jobs] /\ job[w] # Idle
    BY DEF IInv, JobsSound, Idle
  <1>2. ASSUME NEW v \in Workers, Admit(v) \/ Quota(v) \/ Insert(v) \/ SetPath(v) \/ Fetch(v)
                                  \/ Create(v) \/ Fill(v) \/ WriteFails(v) \/ RollBack(v)
        PROVE  job'[w] = job[w]
    BY <1>1, <1>2 DEF Admit, Quota, Insert, SetPath, Fetch, Create, Fill, WriteFails, RollBack,
                      Undo, Step, Ends
  <1>3. ASSUME NEW v \in Workers, Select(v) \/ Delete(v) \/ RemoveBlob(v) \/ Close(v) \/ May(v)
                                  \/ Count(v) \/ Link(v) \/ DeleteArea(v)
        PROVE  job'[w] = job[w]
    BY <1>1, <1>3 DEF Select, Delete, RemoveBlob, Unlink, Close, May, Count, Link, DeleteArea,
                      Step, Ends
  <1>4. ASSUME NEW v \in Workers, Read(v) PROVE job'[w] = job[w] \/ Read(w)
    <2>1. CASE v # w
      BY <1>1, <1>4, <2>1 DEF Read, Ends
    <2> QED
      BY <1>4, <2>1
  <1>5. ASSUME NEW v \in Workers, NEW j, Begins(v, j) PROVE job'[w] = job[w]
    BY <1>1, <1>5 DEF Begins
  <1>6. ASSUME NEW v \in Workers, NEW a \in Areas, NEW n \in Names,
               (\E s \in Sizes : OpenWrite(v, a, n, s)) \/ Resolve(v, a, n) \/ Seek(v, a, n)
        PROVE  job'[w] = job[w]
    BY <1>5, <1>6 DEF OpenWrite, Resolve, Seek
  <1>7. ASSUME NEW v \in Workers,
               (\E i \in Ids : Stage(v, i)) \/ (\E a \in Areas : AddArea(v, a) \/ CountFiles(v, a))
        PROVE  job'[w] = job[w]
    BY <1>5, <1>7 DEF Stage, AddArea, CountFiles
  <1>8. CASE Crash
    BY <1>8 DEF Crash
  <1>9. ASSUME NEW v \in Workers, Fails(v) PROVE job'[w] = job[w] \/ job'[w] = Idle
    BY <1>1, <1>9 DEF Fails, Ends
  <1> QED
    BY <1>2, <1>3, <1>4, <1>6, <1>7, <1>8, <1>9 DEF Next, Proceed

\* One step of the download cuts a file short only in the cases allowed.
LEMMA StepReadsWhole ==
  ASSUME IInv, [Next]_vars
  PROVE  \A w \in Workers : job[w].at = "read" /\ job'[w].name = "partial" =>
           ~Exists(job[w].id) \/ Uploading(job[w].id) \/ job[w].id \in stale
  <1> SUFFICES ASSUME NEW w \in Workers, job[w].at = "read", job'[w].name = "partial",
                      Exists(job[w].id), ~Uploading(job[w].id), job[w].id \notin stale
               PROVE  FALSE
    OBVIOUS
  <1>1. /\ job[w].name # "partial" /\ Idle.name # "partial"
        /\ job \in [Workers -> Jobs] /\ Idle.at # "read"
    BY DEF IInv, JobsSound, Sound, None, Idle
  <1>2. blob[job[w].id] = "whole"
    BY DEF IInv, ListedIsThere, Exists
  <1>3. ASSUME Read(w) PROVE FALSE
    <2>1. \/ job'[w] = Idle
          \/ job'[w].name = blob[job[w].id]
      BY <1>1, <1>3 DEF Read, Ends, Jobs
    <2> QED
      BY <1>1, <1>2, <2>1
  <1>4. CASE UNCHANGED vars
    BY <1>1, <1>4 DEF vars
  <1> QED
    BY <1>1, <1>3, <1>4, OnlyReadLeavesRead

\* A download of a listed file comes out short only beside its own upload, or
\* where a crash or a failed statement has cut that short.
THEOREM ReadsAreWhole == Spec => TornOnlyMidway
  <1>1. IInv /\ [Next]_vars =>
          [\A w \in Workers : job[w].at = "read" /\ job'[w].name = "partial" =>
             ~Exists(job[w].id) \/ Uploading(job[w].id) \/ job[w].id \in stale]_vars
    BY StepReadsWhole
  <1> QED
    BY <1>1, Invariant, PTL DEF Spec, TornOnlyMidway

-----------------------------------------------------------------------------
(* The areas of the files, and the links from posts to files. *)

\* The steps that leave the rows, the areas and the links alone.
Still(w) ==
  \/ Admit(w) \/ Quota(w) \/ Fetch(w) \/ Create(w) \/ Fill(w) \/ WriteFails(w)
  \/ Fails(w) \/ Select(w) \/ RemoveBlob(w) \/ Read(w) \/ Close(w) \/ May(w) \/ Count(w)
  \/ \E a \in Areas, n \in Names : \/ \E s \in Sizes : OpenWrite(w, a, n, s)
                                   \/ Resolve(w, a, n)
                                   \/ Seek(w, a, n)
  \/ \E i \in Ids : Stage(w, i)
  \/ \E a \in Areas : CountFiles(w, a)

LEMMA StillStep ==
  ASSUME NEW w \in Workers, Still(w)
  PROVE  UNCHANGED <<rows, areas, links>>
  BY DEF Still, Admit, Quota, Fetch, Create, Fill, WriteFails, Fails, Select, RemoveBlob, Read, Close,
         May, Count, OpenWrite, Resolve, Seek, Stage, CountFiles

\* The others, by what they do to the three.
LEMMA Moves ==
  ASSUME [Next]_vars
  PROVE  \/ UNCHANGED <<rows, areas, links>>
         \/ \E w \in Workers :
              \/ Insert(w) \/ SetPath(w) \/ RollBack(w) \/ Delete(w) \/ Link(w) \/ DeleteArea(w)
              \/ \E a \in Areas : AddArea(w, a)
  <1>1. CASE UNCHANGED vars
    BY <1>1 DEF vars
  <1>2. CASE Crash
    BY <1>2 DEF Crash
  <1>3. CASE \E w \in Workers : Still(w)
    BY <1>3, StillStep
  <1> QED
    BY <1>1, <1>2, <1>3 DEF Next, Proceed, Still

\* An old row keeps its area: what is listed after a step under an id already
\* given out was listed there before.
SameAreas == \A q \in rows' : q.id < nextId =>
  \E r \in rows : r.id = q.id /\ r.area = q.area

\* Every step keeps that, and the areas of the files.
LEMMA AreasKept ==
  ASSUME IInv, AreaOfFile, [Next]_vars
  PROVE  SameAreas /\ AreaOfFile'
  <1> USE DEF SameAreas, AreaOfFile
  <1>1. /\ rows \subseteq [id : Ids, area : Areas, owner : {UserOf[w] : w \in Workers},
                           name : Names, size : Sizes, filed : BOOLEAN]
        /\ areas \in [Areas -> {"new", "there", "gone"}]
        /\ job \in [Workers -> Jobs] /\ nextId \in Nat
        /\ \A w \in Workers : Sound(job[w], nextId)
    BY LibraryAssumption DEF IInv, TypeOK, JobsSound
  <1>2. CASE UNCHANGED <<rows, areas, links>>
    BY <1>2
  <1>3. ASSUME NEW w \in Workers, Insert(w) PROVE SameAreas /\ AreaOfFile'
    <2>1. CASE areas[job[w].area] # "there"
      BY <1>3, <2>1 DEF Insert
    <2>2. CASE areas[job[w].area] = "there"
      <3> DEFINE new == [id |-> nextId, area |-> job[w].area, owner |-> UserOf[w],
                         name |-> job[w].name, size |-> job[w].size, filed |-> FALSE]
      <3>1. rows' = rows \cup {new} /\ areas' = areas
        BY <1>3, <2>2 DEF Insert, Number
      <3>2. new.id = nextId /\ new.area = job[w].area
        OBVIOUS
      <3> HIDE DEF new
      <3>3. ~(new.id < nextId)
        BY <1>1, <3>2
      <3> QED
        BY <2>2, <3>1, <3>2, <3>3
    <2> QED
      BY <2>1, <2>2
  <1>4. ASSUME NEW w \in Workers, SetPath(w) PROVE SameAreas /\ AreaOfFile'
    <2>1. /\ rows' = {[r EXCEPT !.filed = r.filed \/ r.id = job[w].id] : r \in rows}
          /\ areas' = areas
      BY <1>4 DEF SetPath
    <2>2. \A q \in rows' : \E r \in rows : r.id = q.id /\ r.area = q.area
      BY <1>1, <2>1
    <2> QED
      BY <2>1, <2>2
  <1>5. ASSUME NEW w \in Workers, RollBack(w) \/ Delete(w) PROVE SameAreas /\ AreaOfFile'
    <2>1. rows' \subseteq rows /\ areas' = areas
      BY <1>5 DEF RollBack, Undo, Delete, Erase
    <2> QED
      BY <2>1
  <1>6. ASSUME NEW w \in Workers, Link(w) PROVE SameAreas /\ AreaOfFile'
    BY <1>6 DEF Link
  <1>7. ASSUME NEW w \in Workers, DeleteArea(w) PROVE SameAreas /\ AreaOfFile'
    <2>1. rows' = rows
      BY <1>7 DEF DeleteArea
    <2>2. CASE AreaInUse(job[w].area)
      BY <1>7, <2>1, <2>2 DEF DeleteArea
    <2>3. CASE ~AreaInUse(job[w].area)
      <3>1. areas' = [areas EXCEPT ![job[w].area] = "gone"]
        BY <1>7, <2>3 DEF DeleteArea
      <3>2. \A r \in rows : r.area # job[w].area
        BY <2>3 DEF AreaInUse
      <3>3. \A r \in rows : areas'[r.area] = areas[r.area]
        BY <1>1, <3>1, <3>2
      <3> QED
        BY <2>1, <3>3
    <2> QED
      BY <2>2, <2>3
  <1>8. ASSUME NEW w \in Workers, NEW a \in Areas, AddArea(w, a) PROVE SameAreas /\ AreaOfFile'
    <2>1. rows' = rows /\ areas' = [areas EXCEPT ![a] = "there"]
      BY <1>8 DEF AddArea
    <2>2. \A r \in rows : areas'[r.area] = "there"
      BY <1>1, <2>1
    <2> QED
      BY <2>1, <2>2
  <1> QED
    BY <1>2, <1>3, <1>4, <1>5, <1>6, <1>7, <1>8, Moves

\* No row of files outlives its area, though delete_area counts the files and
\* removes the area in two statements, with uploads in between.
THEOREM AreasOutliveFiles == Spec => []AreaOfFile
  <1>1. Init => AreaOfFile
    BY DEF Init, AreaOfFile
  <1>2. IInv /\ AreaOfFile /\ [Next]_vars => AreaOfFile'
    BY AreasKept
  <1> QED
    BY <1>1, <1>2, Invariant, PTL DEF Spec

\* The links of a worker's post, and the two places where one is about to be made.
Mine(w) == {l \in links : l[1] = w}
Passed  == {"count", "link"}

\* What LinksAreGood rests on: links lead to files their author may read, who is
\* about to link a file has been let to read its area, and who has counted the
\* links of the post has room for one more.
LinkInv ==
  /\ \A l \in links : Exists(l[2])
  /\ \A l \in links : \A r \in rows : r.id = l[2] => CanUse(l[1], r.area)
  /\ \A w \in Workers : \A r \in rows :
       job[w].at \in Passed /\ r.id = job[w].id => CanUse(w, r.area)
  /\ \A w \in Workers : /\ IsFiniteSet(Mine(w))
                        /\ MaxAttachments = 0 \/ Cardinality(Mine(w)) <= MaxAttachments
                        /\ job[w].at = "link" =>
                             MaxAttachments = 0 \/ Cardinality(Mine(w)) < MaxAttachments

\* Who is about to make a link stayed there, or has just passed a check.
LEMMA Passing ==
  ASSUME IInv, [Next]_vars, NEW w \in Workers, job'[w].at \in Passed
  PROVE  \/ job'[w] = job[w]
         \/ /\ May(w) /\ job'[w].at = "count" /\ job'[w].id = job[w].id
            /\ Exists(job[w].id) /\ CanUse(w, Row(job[w].id).area)
         \/ /\ Count(w) /\ job[w].at = "count" /\ job'[w].id = job[w].id
            /\ MaxAttachments = 0 \/ Cardinality(Mine(w)) < MaxAttachments
  <1>1. job \in [Workers -> Jobs] /\ Idle.at \notin Passed
    BY DEF IInv, JobsSound, Idle, Passed
  <1>2. ASSUME NEW v \in Workers, v # w, NEW j, job' = [job EXCEPT ![v] = j]
        PROVE  job'[w] = job[w]
    BY <1>1, <1>2
  <1>3. ASSUME NEW to, job' = [job EXCEPT ![w].at = to]
        PROVE  to \in Passed /\ job'[w].at = to /\ job'[w].id = job[w].id
    <2>1. job'[w] = [job[w] EXCEPT !.at = to]
      BY <1>1, <1>3
    <2> QED
      BY <1>1, <2>1 DEF Jobs
  <1>4. ASSUME NEW j, job' = [job EXCEPT ![w] = j] PROVE j.at \in Passed
    BY <1>1, <1>4
  <1>5. ASSUME NEW v \in Workers, Proceed(v), v # w PROVE job'[w] = job[w]
    <2>1. \E j : job' = [job EXCEPT ![v] = j]
      BY <1>5 DEF Proceed, Admit, Quota, Insert, SetPath, Fetch, Create, Fill, WriteFails, RollBack,
                  Undo, Select, Delete, RemoveBlob, Unlink, Read, Close, May, Count, Link, DeleteArea,
                  Fails, Step, Ends
    <2> QED
      BY <1>2, <1>5, <2>1
  <1>6. ASSUME Proceed(w), ~May(w), ~Count(w) PROVE FALSE
    <2>1. ~Ends(w, job[w].at)
      BY <1>1, <1>4 DEF Ends
    <2>2. \A from, to : Ends(w, from) => Ends(w, job[w].at)
      BY DEF Ends
    <2>3. \A from, to : Step(w, from, to) => to \in Passed
      BY <1>3 DEF Step
    <2>4. /\ ~Admit(w) /\ ~Quota(w) /\ ~SetPath(w) /\ ~Fetch(w) /\ ~Create(w) /\ ~Fill(w)
          /\ ~WriteFails(w) /\ ~RollBack(w) /\ ~Delete(w) /\ ~RemoveBlob(w) /\ ~Close(w)
          /\ ~Link(w) /\ ~DeleteArea(w) /\ ~Fails(w)
      BY <2>1, <2>2, <2>3 DEF Admit, Quota, SetPath, Fetch, Create, Fill, WriteFails, RollBack, Undo,
         Delete, RemoveBlob, Unlink, Close, Link, DeleteArea, Fails, Passed
    <2>5. ~Insert(w) /\ ~Select(w) /\ ~Read(w)
      <3>1. ~Insert(w)
        <4>1. ASSUME job' = [job EXCEPT ![w].at = "path", ![w].id = Number] PROVE FALSE
          <5>1. job'[w].at = "path"
            BY <1>1, <4>1 DEF Jobs
          <5> QED
            BY <5>1 DEF Passed
        <4> QED
          BY <2>1, <2>2, <4>1 DEF Insert
      <3>2. ~Select(w)
        <4>1. ASSUME NEW n, job' = [job EXCEPT ![w].at = "delete", ![w].name = n] PROVE FALSE
          <5>1. job'[w].at = "delete"
            BY <1>1, <4>1 DEF Jobs
          <5> QED
            BY <5>1 DEF Passed
        <4> QED
          BY <2>1, <2>2, <4>1 DEF Select
      <3>3. ~Read(w)
        <4>1. ASSUME NEW n, job' = [job EXCEPT ![w].at = "hold", ![w].name = n] PROVE FALSE
          <5>1. job'[w].at = "hold"
            BY <1>1, <4>1 DEF Jobs
          <5> QED
            BY <5>1 DEF Passed
        <4> QED
          BY <2>1, <2>2, <4>1 DEF Read
      <3> QED
        BY <3>1, <3>2, <3>3
    <2> QED
      BY <1>6, <2>4, <2>5 DEF Proceed
  <1>7. ASSUME NEW v \in Workers, NEW j, Begins(v, j), j.at \notin Passed PROVE job'[w] = job[w]
    BY <1>2, <1>4, <1>7 DEF Begins
  <1>8. ASSUME NEW v \in Workers,
               \/ \E a \in Areas, n \in Names : \/ \E s \in Sizes : OpenWrite(v, a, n, s)
                                                \/ Resolve(v, a, n)
                                                \/ Seek(v, a, n)
               \/ \E i \in Ids : Stage(v, i)
               \/ \E a \in Areas : AddArea(v, a) \/ CountFiles(v, a)
        PROVE  job'[w] = job[w]
    BY <1>7, <1>8 DEF OpenWrite, Resolve, Seek, Stage, AddArea, CountFiles, Passed, Idle
  <1>9. ASSUME May(w)
        PROVE  /\ job'[w].at = "count" /\ job'[w].id = job[w].id
               /\ Exists(job[w].id) /\ CanUse(w, Row(job[w].id).area)
    BY <1>1, <1>3, <1>4, <1>9 DEF May, Step, Ends
  <1>10. ASSUME Count(w)
         PROVE  /\ job[w].at = "count" /\ job'[w].id = job[w].id
                /\ MaxAttachments = 0 \/ Cardinality(Mine(w)) < MaxAttachments
    BY <1>1, <1>3, <1>4, <1>10 DEF Count, Step, Ends, Mine
  <1>11. CASE Crash
    BY <1>1, <1>11 DEF Crash
  <1>12. CASE UNCHANGED vars
    BY <1>12 DEF vars
  <1> QED
    BY <1>5, <1>6, <1>8, <1>9, <1>10, <1>11, <1>12 DEF Next

\* A link is made by Link, and goes when its file goes.
LEMMA LinksMove ==
  ASSUME IInv, LinkInv, [Next]_vars
  PROVE  /\ \A l \in links' : Exists(l[2])'
         /\ \/ links' \subseteq links
            \/ \E w \in Workers : /\ Link(w) /\ Exists(job[w].id)
                                  /\ links' = links \cup {<<w, job[w].id>>}
                                  /\ job' = [job EXCEPT ![w] = Idle]
  <1> USE DEF LinkInv
  <1>1. CASE UNCHANGED <<rows, areas, links>>
    BY <1>1 DEF Exists
  <1>2. ASSUME NEW w \in Workers, Insert(w) \/ SetPath(w) \/ DeleteArea(w) \/ \E a \in Areas : AddArea(w, a)
        PROVE  links' = links /\ \A i : Exists(i) => Exists(i)'
    <2>1. CASE Insert(w)
      BY <2>1 DEF Insert, Exists
    <2>2. CASE SetPath(w)
      <3>1. /\ rows' = {[r EXCEPT !.filed = r.filed \/ r.id = job[w].id] : r \in rows}
            /\ links' = links
        BY <2>2 DEF SetPath
      <3>2. ASSUME NEW r \in rows PROVE \E q \in rows' : q.id = r.id
        <4> DEFINE q == [r EXCEPT !.filed = r.filed \/ r.id = job[w].id]
        <4>1. q \in rows'
          BY <3>1
        <4>2. q.id = r.id
          BY DEF IInv, TypeOK
        <4> HIDE DEF q
        <4> QED
          BY <4>1, <4>2
      <3> QED
        BY <3>1, <3>2 DEF Exists
    <2>3. CASE DeleteArea(w) \/ \E a \in Areas : AddArea(w, a)
      BY <2>3 DEF DeleteArea, AddArea, Exists
    <2> QED
      BY <1>2, <2>1, <2>2, <2>3
  <1>3. ASSUME NEW w \in Workers, RollBack(w) \/ Delete(w)
        PROVE  links' \subseteq links /\ \A l \in links' : Exists(l[2])'
    <2>1. Erase(job[w].id)
      BY <1>3 DEF RollBack, Undo, Delete
    <2>2. \A n : Exists(n)' <=> Exists(n) /\ n # job[w].id
      BY <2>1, Erased
    <2> QED
      BY <2>1, <2>2 DEF Erase
  <1>4. ASSUME NEW w \in Workers, Link(w)
        PROVE  /\ \A l \in links' : Exists(l[2])'
               /\ \/ links' = links
                  \/ /\ Exists(job[w].id) /\ links' = links \cup {<<w, job[w].id>>}
                     /\ job' = [job EXCEPT ![w] = Idle]
    <2>1. /\ links' = links \cup {<<w, i>> : i \in {x \in {job[w].id} : Exists(x)}}
          /\ rows' = rows /\ job' = [job EXCEPT ![w] = Idle]
      BY <1>4 DEF Link, Ends
    <2>2. \A i : Exists(i)' <=> Exists(i)
      BY <2>1 DEF Exists
    <2>3. CASE Exists(job[w].id)
      <3>1. links' = links \cup {<<w, job[w].id>>}
        BY <2>1, <2>3
      <3> QED
        BY <2>1, <2>2, <2>3, <3>1
    <2>4. CASE ~Exists(job[w].id)
      <3>1. links' = links
        BY <2>1, <2>4
      <3> QED
        BY <2>2, <3>1
    <2> QED
      BY <2>3, <2>4
  <1> QED
    BY <1>1, <1>2, <1>3, <1>4, Moves

\* The links stay good, step by step.
LEMMA LinkStep ==
  ASSUME IInv, AreaOfFile, LinkInv, [Next]_vars
  PROVE  LinkInv'
  <1>1. SameAreas
    BY AreasKept
  <1>2. /\ \A l \in links : Exists(l[2])
        /\ \A l \in links : \A r \in rows : r.id = l[2] => CanUse(l[1], r.area)
        /\ \A w \in Workers : \A r \in rows :
             job[w].at \in Passed /\ r.id = job[w].id => CanUse(w, r.area)
        /\ \A w \in Workers : /\ IsFiniteSet(Mine(w))
                              /\ MaxAttachments = 0 \/ Cardinality(Mine(w)) <= MaxAttachments
                              /\ job[w].at = "link" =>
                                   MaxAttachments = 0 \/ Cardinality(Mine(w)) < MaxAttachments
    BY DEF LinkInv
  <1>3. /\ \A w \in Workers : job[w].at \in Passed \cup {"may"} =>
             job[w].id \in Ids /\ job[w].id < nextId
        /\ \A l \in links : l[1] \in Workers /\ l[2] \in Ids
        /\ \A i : Exists(i) => i < nextId
        /\ MaxAttachments \in Nat
    BY LibraryAssumption DEF IInv, JobsSound, Sound, FileAt, TypeOK, Below, Exists, Passed
  <1>4. /\ \A l \in links' : Exists(l[2])'
        /\ \/ links' \subseteq links
           \/ \E w \in Workers : /\ Link(w) /\ Exists(job[w].id)
                                 /\ links' = links \cup {<<w, job[w].id>>}
                                 /\ job' = [job EXCEPT ![w] = Idle]
    BY LinksMove
  <1>5. ASSUME NEW l \in links', NEW q \in rows', q.id = l[2] PROVE CanUse(l[1], q.area)
    <2>1. CASE l \in links
      <3>1. q.id < nextId
        BY <1>2, <1>3, <1>5, <2>1
      <3>2. PICK r \in rows : r.id = q.id /\ r.area = q.area
        BY <1>1, <3>1 DEF SameAreas
      <3> QED
        BY <1>2, <1>5, <2>1, <3>2
    <2>2. ASSUME NEW w \in Workers, Link(w), l = <<w, job[w].id>> PROVE CanUse(l[1], q.area)
      <3>1. job[w].at \in Passed /\ rows' = rows /\ l[1] = w /\ l[2] = job[w].id
        BY <2>2 DEF Link, Ends, Passed
      <3> QED
        BY <1>2, <1>5, <3>1
    <2> QED
      BY <1>4, <2>1, <2>2
  <1>6. ASSUME NEW w \in Workers, NEW q \in rows', job'[w].at \in Passed, q.id = job'[w].id
        PROVE  CanUse(w, q.area)
    <2>1. CASE job[w].at \in Passed /\ job'[w].id = job[w].id
      <3>1. PICK r \in rows : r.id = q.id /\ r.area = q.area
        BY <1>1, <1>3, <1>6, <2>1 DEF SameAreas
      <3> QED
        BY <1>2, <1>6, <2>1, <3>1
    <2>2. CASE May(w) /\ job'[w].id = job[w].id /\ CanUse(w, Row(job[w].id).area)
      <3>1. rows' = rows
        BY <2>2 DEF May
      <3>2. q = Row(job[w].id)
        <4>1. Exists(job[w].id)
          BY <1>6, <2>2, <3>1 DEF Exists
        <4> QED
          BY <1>6, <2>2, <3>1, <4>1, RowIsThere DEF IInv, TypeOK
      <3> QED
        BY <2>2, <3>2
    <2> QED
      BY <1>6, <2>1, <2>2, Passing DEF Passed
  <1>7. ASSUME NEW w \in Workers
        PROVE  /\ IsFiniteSet(Mine(w)')
               /\ MaxAttachments = 0 \/ Cardinality(Mine(w)') <= MaxAttachments
               /\ job'[w].at = "link" =>
                    MaxAttachments = 0 \/ Cardinality(Mine(w)') < MaxAttachments
    <2>1. ASSUME ~Link(w) \/ links' \subseteq links
          PROVE  Mine(w)' \subseteq Mine(w)
      BY <1>4, <2>1 DEF Mine
    <2>2. CASE ~Link(w) \/ links' \subseteq links
      <3>1. /\ IsFiniteSet(Mine(w)') /\ Cardinality(Mine(w)') <= Cardinality(Mine(w))
            /\ Cardinality(Mine(w)) \in Nat /\ Cardinality(Mine(w)') \in Nat
        BY <1>2, <2>1, <2>2, FS_Subset, FS_CardinalityType
      <3>2. ASSUME job'[w].at = "link"
            PROVE  MaxAttachments = 0 \/ Cardinality(Mine(w)) < MaxAttachments
        BY <1>2, <3>2, Passing DEF Passed
      <3> QED
        BY <1>2, <1>3, <3>1, <3>2
    <2>3. CASE Link(w) /\ ~(links' \subseteq links)
      <3>1. job[w].at = "link" /\ job'[w] = Idle
        BY <2>3 DEF Link, Ends, IInv, JobsSound
      <3>2. PICK v \in Workers : links' = links \cup {<<v, job[v].id>>} /\ job' = [job EXCEPT ![v] = Idle]
        BY <1>4, <2>3
      <3>3. v = w
        BY <2>3, <3>1, <3>2 DEF Link, Ends, Idle, IInv, JobsSound
      <3>4. Mine(w)' = Mine(w) \cup {<<w, job[w].id>>}
        BY <3>2, <3>3 DEF Mine
      <3>5. /\ IsFiniteSet(Mine(w)') /\ Cardinality(Mine(w)') <= Cardinality(Mine(w)) + 1
            /\ Cardinality(Mine(w)) \in Nat /\ Cardinality(Mine(w)') \in Nat
        <4> DEFINE M == Mine(w)
                   x == <<w, job[w].id>>
        <4>1. IsFiniteSet(M) /\ Cardinality(M) \in Nat
          BY <1>2, FS_CardinalityType
        <4> HIDE DEF M, x
        <4>2. /\ IsFiniteSet(M \cup {x})
              /\ Cardinality(M \cup {x}) = IF x \in M THEN Cardinality(M) ELSE Cardinality(M) + 1
          BY <4>1, FS_AddElement
        <4>3. Cardinality(M \cup {x}) \in Nat /\ Cardinality(M \cup {x}) <= Cardinality(M) + 1
          BY <4>1, <4>2
        <4>4. Mine(w)' = M \cup {x} /\ Mine(w) = M
          BY <3>4 DEF M, x
        <4> QED
          BY <4>1, <4>2, <4>3, <4>4
      <3>6. (MaxAttachments = 0 \/ Cardinality(Mine(w)) < MaxAttachments) /\ job'[w].at # "link"
        BY <1>2, <3>1 DEF Idle
      <3> QED
        BY <1>3, <3>5, <3>6
    <2> QED
      BY <2>2, <2>3
  <1> QED
    BY <1>4, <1>5, <1>6, <1>7 DEF LinkInv, CanUse

\* The good links are links as LinksAreGood has them.
LEMMA LinksGood ==
  ASSUME IInv, LinkInv
  PROVE  LinksAreGood
  <1> SUFFICES ASSUME NEW w \in Workers
               PROVE  /\ MaxAttachments = 0 \/ Cardinality({l[2] : l \in Mine(w)}) <= MaxAttachments
                      /\ \A i \in {l[2] : l \in Mine(w)} : Exists(i) /\ CanUse(w, Row(i).area)
    BY DEF LinksAreGood, Mine
  <1> DEFINE ids == {l[2] : l \in Mine(w)}
             f   == [l \in Mine(w) |-> l[2]]
  <1>1. f \in Surjection(Mine(w), ids)
    BY DEF Surjection
  <1>2. IsFiniteSet(Mine(w)) /\ (MaxAttachments = 0 \/ Cardinality(Mine(w)) <= MaxAttachments)
    BY DEF LinkInv
  <1>3. Cardinality(ids) <= Cardinality(Mine(w)) /\ IsFiniteSet(ids)
    <2> HIDE DEF ids, f
    <2> QED BY <1>1, <1>2, FS_Surjection
  <1>4. /\ Cardinality(ids) \in Nat /\ Cardinality(Mine(w)) \in Nat /\ MaxAttachments \in Nat
    BY <1>2, <1>3, FS_CardinalityType, LibraryAssumption
  <1>5. ASSUME NEW l \in Mine(w) PROVE Exists(l[2]) /\ CanUse(w, Row(l[2]).area)
    <2>1. l \in links /\ l[1] = w
      BY DEF Mine
    <2>2. Exists(l[2]) /\ Row(l[2]) \in rows /\ Row(l[2]).id = l[2]
      BY <2>1, RowIsThere DEF LinkInv, IInv
    <2> QED
      BY <2>1, <2>2 DEF LinkInv
  <1> QED
    BY <1>2, <1>3, <1>4, <1>5

\* A post never carries more files than allowed, nor one that is gone or that its
\* author may not read, though the check, the count and the link are statements
\* of their own with removals in between (may_attach, link_attachments).
THEOREM AttachmentsAreGood == Spec => []LinksAreGood
  <1>1. Init => LinkInv
    <2> SUFFICES ASSUME Init PROVE LinkInv
      OBVIOUS
    <2>1. /\ \A w \in Workers : job[w] = Idle /\ Mine(w) = {}
          /\ links = {}
          /\ Idle.at \notin Passed /\ Idle.at # "link"
      BY DEF Init, Mine, Idle, Passed
    <2> QED
      BY <2>1, FS_EmptySet, LibraryAssumption DEF LinkInv
  <1>2. IInv /\ AreaOfFile /\ LinkInv /\ [Next]_vars => LinkInv'
    BY LinkStep
  <1>3. IInv /\ LinkInv => LinksAreGood
    BY LinksGood
  <1> QED
    BY <1>1, <1>2, <1>3, Invariant, AreasOutliveFiles, PTL DEF Spec

=============================================================================
