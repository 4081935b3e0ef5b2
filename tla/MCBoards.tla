------------------------------ MODULE MCBoards ------------------------------
(* An instance of Boards for TLC: a caller with two sessions and a sysop.   *)
(* Reactions, votes and visits are stories of their own.                    *)
EXTENDS Boards

CONSTANTS a, b, r, gen, dev, ann, root, zoe

MCUserOf == [s \in Sessions |-> IF s = r THEN root ELSE ann]

\* The two sessions of ann are alike, and so are the boards.
Alike == Permutations({a, b}) \cup Permutations({gen, dev})

Doing(ats) == \E s \in Sessions : job[s].at \in ats

Voting  == poll # "none"
Feeling == reacts # {} \/ Doing({"react", "unreact"})
Reading == (\E u \in Users : shown[u] # {}) \/ Doing({"stamp", "mark"})
Moving  == staff # {} \/ \E p \in posts : p.edited \/ p.pinned
Locking == \E g \in BoardIds : lock[g]

Stories  == SelectSeq(<<Voting, Feeling, Reading, Moving, Locking>>,
                      LAMBDA x : x)
Busy     == Cardinality({s \in Sessions : job[s] # Idle})
OneStory ==
  LET told == Stories IN
  /\ Busy <= IF made > 1 THEN 1 ELSE 2
  /\ made = MaxPosts => ~Doing({"parent", "rate", "insert"})
  /\ Len(told) <= 1
  /\ told # <<>> => made <= 2 /\ now <= 1 /\ ~Doing({"parent", "rate"})
  /\ Voting => made = 0
  /\ Reading \/ Feeling => made <= 1
  /\ Moving \/ Locking => now = 0
=============================================================================
