----------------------------- MODULE MCAccounts -----------------------------
(* An instance of Accounts for TLC.                                          *)
EXTENDS Accounts, TLC

CONSTANTS c, d, root, guest, ann

Alike == Permutations(Conns)

\* What a history is about: registrations, mail, blocks, keys, roles, bans of
\* accounts, time, bans of the address.
Story ==
  LET rows == users \cup {Me(x) : x \in {y \in Conns : conn[y].at \in {"proof", "in"}}}
  IN
  {t \in {"people", "mail", "block", "key", "role", "ban", "time", "address"} :
     CASE t = "people"  -> lastId > 2
       [] t = "mail"    -> sent > 0 \/ \E x \in Conns : Online(x) /\ conn[x].job = "send"
       [] t = "block"   -> blocks # {} \/ \E x \in Conns : Online(x) /\ conn[x].job = "block"
       [] t = "key"     -> keys # {}
       [] t = "role"    -> raised # {}
       [] t = "ban"     -> \E u \in rows : u.banned
       [] t = "time"    -> due > 0
       [] t = "address" -> ipBan > 0 \/ fails > 0}

\* The constraint: histories about two of them, time alone with one connection from
\* the fourth tick on, time with people or with bans for a tick, and
\* the mail and the blocks of new people.
ShortStory ==
  /\ \/ "time" \notin Story /\ Cardinality(Story) <= 2
     \/ Story = {"time"} /\ (now > 3 => \E x \in Conns : conn[x].at = "off")
     \/ Story \in {{"time", t} : t \in {"people", "ban", "address"}} /\ now <= 1
     \/ Story \subseteq {"people", "mail", "block"}
  /\ Cardinality(keys) <= 1 /\ Cardinality(blocks) <= 1
  /\ Cardinality({u \in users : u.banned}) <= 1
=============================================================================
