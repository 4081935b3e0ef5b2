------------------------------- MODULE Outbox -------------------------------
(***************************************************************************)
(* What federation promises of a delivery once it is enqueued, whatever    *)
(* passes, batches, backoffs and crashes the queue consists of: it is owed *)
(* until it has arrived, policy refuses it, or it has failed as often as   *)
(* the operator allows.  At least once: an inbox may see it again.         *)
(***************************************************************************)
EXTENDS Naturals

CONSTANTS Deliveries, MaxAttempts

VARIABLES
  accepted,  \* the deliveries that were enqueued
  owed,      \* those still to be made
  fails,     \* attempts that ended in an error
  got,       \* arrivals at the inbox
  refused    \* those policy keeps from being sent

vars == <<accepted, owed, fails, got, refused>>

Init ==
  /\ accepted = {}
  /\ owed     = {}
  /\ fails    = [d \in Deliveries |-> 0]
  /\ got      = [d \in Deliveries |-> 0]
  /\ refused  = {}

Accept(d) ==
  /\ d \notin accepted
  /\ accepted' = accepted \cup {d}
  /\ owed'     = owed \cup {d}
  /\ UNCHANGED <<fails, got, refused>>

\* An error may hide an arrival; a success never hides a loss.
Attempt(d, arrives, failed) ==
  /\ d \in owed
  /\ arrives \/ failed
  /\ got'   = [got EXCEPT ![d] = IF arrives THEN @ + 1 ELSE @]
  /\ fails' = [fails EXCEPT ![d] = IF failed THEN @ + 1 ELSE @]
  /\ UNCHANGED <<accepted, owed, refused>>

Decline(d) ==
  /\ d \in owed
  /\ refused' = refused \cup {d}
  /\ UNCHANGED <<accepted, owed, fails, got>>

Settle(d) ==
  /\ d \in owed
  /\ got[d] > 0 \/ d \in refused \/ fails[d] >= MaxAttempts
  /\ owed' = owed \ {d}
  /\ UNCHANGED <<accepted, fails, got, refused>>

Next ==
  \E d \in Deliveries :
     \/ Accept(d)
     \/ \E arrives, failed \in BOOLEAN : Attempt(d, arrives, failed)
     \/ Decline(d)
     \/ Settle(d)

Spec == Init /\ [][Next]_vars
=============================================================================
