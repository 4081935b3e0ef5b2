---------------------------- MODULE DeliveryQueue ----------------------------
(***************************************************************************)
(* The durable queue of outbound federation deliveries, one row per        *)
(* activity and inbox, and the background task that drains it: each pass   *)
(* fetches a batch of the rows that are due, POSTs them one after another, *)
(* and deletes a row that went through or backs it off, until it has       *)
(* failed too often and is dropped.                                        *)
(*                                                                         *)
(* The rows survive a crash of the server, the pass does not.  The network *)
(* may lose a request, or the answer to one that arrived.  Time is counted *)
(* per row, down to the moment it is due again.                            *)
(***************************************************************************)
EXTENDS Naturals, FiniteSets

CONSTANTS
  Deliveries,   \* the rows that may be enqueued, each at most once
  MaxAttempts,  \* [federation] delivery_max_attempts
  Batch,        \* rows a pass handles at most (32 in the code)
  Base,         \* first unit of the backoff (60 s in the code)
  BackoffCap,   \* longest backoff (3 h in the code)
  MaxFaults     \* bound: crashes and database errors

ASSUME QueueAssumption ==
  /\ IsFiniteSet(Deliveries)
  /\ MaxAttempts \in Nat \ {0}
  /\ Batch \in Nat \ {0}
  /\ Base \in Nat \ {0}
  /\ BackoffCap \in Nat \ {0}
  /\ MaxFaults \in Nat

\* What the provers do not know about powers.
ASSUME ShiftAssumption == \A n \in 0 .. 16 : 2 ^ n \in Nat

VARIABLES
  queue,     \* the outstanding rows
  id,        \* their ids, in the order they were enqueued
  attempts,  \* a row's failed attempts so far
  wait,      \* time until a row is due
  pass,      \* what the current pass has fetched and not finished
  outcome,   \* how the POST of the first of them went, not yet recorded
  up,        \* is the server running?
  faults,    \* crashes and database errors so far
  accepted,  \* history: every row that was ever enqueued
  posts,     \* history: POSTs made for a row
  fails,     \* history: POSTs of a row that ended in an error
  got,       \* history: arrivals of a row at its inbox
  refused    \* history: rows policy kept from being sent at all

vars == <<queue, id, attempts, wait, pass, outcome, up, faults, accepted, posts,
          fails, got, refused>>

-----------------------------------------------------------------------------
MinOf(a, b) == IF a <= b THEN a ELSE b

\* The wait after the n-th failure; the shift is clamped so that 64 bits hold it.
BackoffSecs(n) == MinOf(Base * 2 ^ MinOf(n, 16), BackoffCap)

\* The first n of a set of rows, by id.
Oldest(S, n) == {d \in S : Cardinality({e \in S : id[e] < id[d]}) < n}

\* Faulty: only rows that never failed.
FaultyDueOnce == Oldest({d \in queue : wait[d] = 0 /\ attempts[d] = 0}, Batch)

\* Rows whose backoff has elapsed, oldest first.
Due == Oldest({d \in queue : wait[d] = 0}, Batch)

Init ==
  /\ queue    = {}
  /\ id       = [d \in Deliveries |-> 0]
  /\ attempts = [d \in Deliveries |-> 0]
  /\ wait     = [d \in Deliveries |-> 0]
  /\ pass     = {}
  /\ outcome  = "none"
  /\ up       = TRUE
  /\ faults   = 0
  /\ accepted = {}
  /\ posts    = [d \in Deliveries |-> 0]
  /\ fails    = [d \in Deliveries |-> 0]
  /\ got      = [d \in Deliveries |-> 0]
  /\ refused  = {}

-----------------------------------------------------------------------------
\* The row the pass is at.
Current == {d \in pass : \A e \in pass : id[d] <= id[e]}

\* INSERT of a row, due at once.
Enqueue(d) ==
  /\ up
  /\ d \notin accepted
  /\ queue'    = queue \cup {d}
  /\ id'       = [id EXCEPT ![d] = Cardinality(accepted) + 1]
  /\ accepted' = accepted \cup {d}
  /\ UNCHANGED <<attempts, wait, pass, outcome, up, faults, posts, fails, got,
                 refused>>

\* A tick of the drain's interval; one without work leaves everything as it is.
StartPass ==
  /\ up
  /\ pass = {}
  /\ pass' = Due
  /\ pass' # {}
  /\ UNCHANGED <<queue, id, attempts, wait, outcome, up, faults, accepted, posts,
                 fails, got, refused>>

\* sign_and_send.  The request may arrive although the answer is an error.
Post(d, arrives, result) ==
  /\ up
  /\ d \in Current
  /\ outcome = "none"
  /\ result = "ok" => arrives
  /\ outcome' = result
  /\ posts'   = [posts EXCEPT ![d] = @ + 1]
  /\ got'     = [got EXCEPT ![d] = IF arrives THEN @ + 1 ELSE @]
  /\ fails'   = [fails EXCEPT ![d] = IF result = "ok" THEN @ ELSE @ + 1]
  /\ UNCHANGED <<queue, id, attempts, wait, pass, up, faults, accepted, refused>>

\* The inbox is local or its domain is not allowed: there is nothing to send,
\* and the row counts as delivered.
Refuse(d) ==
  /\ up
  /\ d \in Current
  /\ outcome = "none"
  /\ outcome' = "ok"
  /\ refused' = refused \cup {d}
  /\ UNCHANGED <<queue, id, attempts, wait, pass, up, faults, accepted, posts, fails,
                 got>>

MarkDelivered(d) ==
  /\ up
  /\ d \in Current
  /\ outcome = "ok"
  /\ queue'   = queue \ {d}
  /\ pass'    = pass \ {d}
  /\ outcome' = "none"
  /\ UNCHANGED <<id, attempts, wait, up, faults, accepted, posts, fails, got, refused>>

\* Faulty: a failure deletes the row whatever its number.
FaultyMarkFailed(d) ==
  /\ up
  /\ d \in Current
  /\ outcome = "error"
  /\ queue'   = queue \ {d}
  /\ pass'    = pass \ {d}
  /\ outcome' = "none"
  /\ UNCHANGED <<id, attempts, wait, up, faults, accepted, posts, fails, got, refused>>

\* Faulty: the attempt is not counted.
FaultyMarkFailedUncounted(d) ==
  /\ up
  /\ d \in Current
  /\ outcome = "error"
  /\ wait'    = [wait EXCEPT ![d] = BackoffSecs(attempts[d] + 1)]
  /\ pass'    = pass \ {d}
  /\ outcome' = "none"
  /\ UNCHANGED <<queue, id, attempts, up, faults, accepted, posts, fails, got, refused>>

\* Count the failure; give up for good, or back off.
MarkFailed(d) ==
  LET n == attempts[d] + 1 IN
  /\ up
  /\ d \in Current
  /\ outcome = "error"
  /\ \/ /\ n >= MaxAttempts
        /\ queue' = queue \ {d}
        /\ UNCHANGED <<attempts, wait>>
     \/ /\ n < MaxAttempts
        /\ attempts' = [attempts EXCEPT ![d] = n]
        /\ wait'     = [wait EXCEPT ![d] = BackoffSecs(n)]
        /\ UNCHANGED queue
  /\ pass'    = pass \ {d}
  /\ outcome' = "none"
  /\ UNCHANGED <<id, up, faults, accepted, posts, fails, got, refused>>

\* The database refuses a statement of the pass, which ends it.
PassFails ==
  /\ up
  /\ pass # {}
  /\ outcome # "none"
  /\ faults < MaxFaults
  /\ faults'  = faults + 1
  /\ pass'    = {}
  /\ outcome' = "none"
  /\ UNCHANGED <<queue, id, attempts, wait, up, accepted, posts, fails, got, refused>>

Crash ==
  /\ up
  /\ faults < MaxFaults
  /\ up'      = FALSE
  /\ faults'  = faults + 1
  /\ pass'    = {}
  /\ outcome' = "none"
  /\ UNCHANGED <<queue, id, attempts, wait, accepted, posts, fails, got, refused>>

Restart ==
  /\ ~up
  /\ up' = TRUE
  /\ UNCHANGED <<queue, id, attempts, wait, pass, outcome, faults, accepted, posts,
                 fails, got, refused>>

\* Time goes by, whether or not the server runs.
Elapse ==
  /\ \E d \in queue : wait[d] > 0
  /\ wait' = [d \in Deliveries |-> IF wait[d] > 0 THEN wait[d] - 1 ELSE 0]
  /\ UNCHANGED <<queue, id, attempts, pass, outcome, up, faults, accepted, posts,
                 fails, got, refused>>

-----------------------------------------------------------------------------
Sending(d) == \E arrives \in BOOLEAN, result \in {"ok", "error"} : Post(d, arrives, result)

Drain ==
  \/ StartPass
  \/ \E d \in Deliveries : Sending(d) \/ Refuse(d) \/ MarkDelivered(d) \/ MarkFailed(d)
  \/ PassFails

Next ==
  \/ \E d \in Deliveries : Enqueue(d)
  \/ Drain
  \/ Crash
  \/ Restart
  \/ Elapse

\* The interval ticks, a POST comes back (its client times out), the operator
\* restarts the server, and time passes.  Peers owe us no success.
Fairness == WF_vars(Drain) /\ WF_vars(Restart) /\ WF_vars(Elapse)

Spec == Init /\ [][Next]_vars /\ Fairness

-----------------------------------------------------------------------------
(* Properties. *)

TypeOK ==
  /\ queue \subseteq Deliveries
  /\ id \in [Deliveries -> Nat]
  /\ attempts \in [Deliveries -> 0 .. MaxAttempts - 1]
  /\ wait \in [Deliveries -> Nat]
  /\ pass \subseteq queue
  /\ outcome \in {"none", "ok", "error"}
  /\ outcome # "none" => pass # {}
  /\ up \in BOOLEAN
  /\ faults \in 0 .. MaxFaults
  /\ accepted \subseteq Deliveries
  /\ posts \in [Deliveries -> Nat]
  /\ fails \in [Deliveries -> Nat]
  /\ got \in [Deliveries -> Nat]
  /\ refused \subseteq Deliveries

\* A restart never silently drops a delivery: a row that was enqueued is still
\* there unless it arrived, was refused by policy, or failed as often as it may.
NothingLost ==
  \A d \in accepted :
     \/ d \in queue
     \/ got[d] > 0
     \/ d \in refused
     \/ fails[d] >= MaxAttempts

\* A peer sees at most MaxAttempts requests for a row, but for the passes that
\* ended between a POST and its record.
PostsBounded == \A d \in Deliveries : posts[d] <= MaxAttempts + faults

\* Every row leaves the queue: a dead peer is given up in the end, and however
\* many rows it has in front, the others' turn comes.
Drains == \A d \in Deliveries : d \in queue ~> d \notin queue

\* The queue keeps the promise made of a delivery when it was enqueued: its
\* rows are what is owed, and every step of a pass, every crash and every
\* restart is a step of Outbox, or none.
Promise == INSTANCE Outbox WITH owed <- queue
KeepsPromise == Promise!Spec

=============================================================================
