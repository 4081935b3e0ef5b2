------------------------ MODULE DeliveryQueue_proofs ------------------------
(***************************************************************************)
(* What the delivery queue guarantees for any set of rows, any bound on    *)
(* attempts, batch size, backoff and number of faults: no row is lost, and *)
(* no peer is asked more often than the bound allows.                      *)
(***************************************************************************)
EXTENDS DeliveryQueue, FiniteSetTheorems, TLAPS

\* The backoff is a number of seconds.
LEMMA BackoffType == \A n \in Nat : BackoffSecs(n) \in Nat
  <1> SUFFICES ASSUME NEW n \in Nat PROVE BackoffSecs(n) \in Nat
    OBVIOUS
  <1>1. MinOf(n, 16) \in 0 .. 16
    BY DEF MinOf
  <1> DEFINE shift == 2 ^ MinOf(n, 16)
  <1>2. shift \in Nat
    BY <1>1, ShiftAssumption
  <1> HIDE DEF shift
  <1>3. Base * shift \in Nat
    BY <1>2, QueueAssumption
  <1>4. BackoffSecs(n) = MinOf(Base * shift, BackoffCap)
    BY DEF BackoffSecs, shift
  <1> QED
    BY <1>3, <1>4, QueueAssumption DEF MinOf

-----------------------------------------------------------------------------
(* The inductive invariant. *)

\* Ids are those of the rows enqueued so far, and no two rows share one; so a
\* pass is at one row at a time.
IdsUnique ==
  /\ queue \subseteq accepted
  /\ \A d \in accepted : id[d] \in 1 .. Cardinality(accepted)
  /\ \A d, e \in accepted : id[d] = id[e] => d = e

\* What a row's counters say about its history.  A POST that is not recorded yet
\* is one of the row the pass is at.
Counted ==
  \A d \in Deliveries :
     /\ d \notin accepted => posts[d] = 0
     /\ d \in queue /\ (outcome = "none" \/ d \notin Current)
          => posts[d] <= attempts[d] + faults
     /\ d \in queue /\ d \in Current => posts[d] <= attempts[d] + 1 + faults
     /\ d \notin queue => posts[d] <= MaxAttempts + faults
     /\ attempts[d] <= fails[d]

\* A recorded outcome is what happened.
OutcomeHonest ==
  \A d \in Current :
     /\ outcome = "ok" => got[d] > 0 \/ d \in refused
     /\ outcome = "error" => attempts[d] + 1 <= fails[d]

QueueInv == TypeOK /\ IdsUnique /\ Counted /\ OutcomeHonest /\ NothingLost

LEMMA QueueInit == Init => QueueInv
  <1> SUFFICES ASSUME Init PROVE QueueInv
    OBVIOUS
  <1>1. TypeOK
    BY QueueAssumption DEF Init, TypeOK
  <1>2. IdsUnique
    BY DEF Init, IdsUnique
  <1>3. Counted
    BY QueueAssumption DEF Init, Counted, Current
  <1>4. OutcomeHonest /\ NothingLost
    BY DEF Init, OutcomeHonest, NothingLost, Current
  <1> QED
    BY <1>1, <1>2, <1>3, <1>4 DEF QueueInv

\* A pass is at one row at a time.
LEMMA OneCurrent ==
  ASSUME TypeOK, IdsUnique, NEW d \in Current, NEW e \in Current
  PROVE  d = e
  <1>1. d \in accepted /\ e \in accepted /\ id[d] <= id[e] /\ id[e] <= id[d]
    BY DEF Current, TypeOK, IdsUnique
  <1>2. id[d] \in Nat /\ id[e] \in Nat
    BY <1>1 DEF TypeOK
  <1> QED
    BY <1>1, <1>2 DEF IdsUnique

\* The set of rows enqueued so far is finite.
LEMMA AcceptedFinite ==
  ASSUME TypeOK
  PROVE  IsFiniteSet(accepted) /\ Cardinality(accepted) \in Nat
  <1>1. accepted \subseteq Deliveries
    BY DEF TypeOK
  <1>2. IsFiniteSet(accepted)
    BY <1>1, FS_Subset, QueueAssumption
  <1> QED
    BY <1>2, FS_CardinalityType

\* A pass selects rows of the queue.
LEMMA DueInQueue == Due \subseteq queue
  BY DEF Due, Oldest

-----------------------------------------------------------------------------
(* One lemma per action. *)

LEMMA EnqueueStep ==
  ASSUME QueueInv, NEW d \in Deliveries, Enqueue(d)
  PROVE  QueueInv'
  <1> DEFINE n == Cardinality(accepted)
  <1>0. /\ TypeOK /\ IdsUnique /\ Counted /\ OutcomeHonest /\ NothingLost
        /\ d \notin accepted /\ d \notin queue /\ d \notin pass
    BY DEF QueueInv, Enqueue, IdsUnique, TypeOK
  <1>1. n \in Nat /\ IsFiniteSet(accepted) /\ accepted' = accepted \cup {d}
    BY <1>0, AcceptedFinite DEF Enqueue
  <1>2. Cardinality(accepted') = n + 1
    BY <1>0, <1>1, FS_AddElement
  <1>3. id' = [id EXCEPT ![d] = n + 1] /\ id \in [Deliveries -> Nat]
    BY <1>0 DEF Enqueue, TypeOK
  <1> HIDE DEF n
  <1>4. TypeOK'
    BY <1>0, <1>1, <1>3 DEF Enqueue, TypeOK
  <1>5. IdsUnique'
    <2>1. accepted \subseteq Deliveries
      BY <1>0 DEF TypeOK
    <2>2. \A e \in accepted : id[e] \in 1 .. n /\ id'[e] = id[e]
      BY <1>0, <1>3, <2>1 DEF IdsUnique, n
    <2>3. id'[d] = n + 1
      BY <1>3
    <2>4. queue' \subseteq accepted'
      BY <1>0, <1>1 DEF Enqueue, IdsUnique
    <2>5. \A e \in accepted' : id'[e] \in 1 .. n + 1
      BY <1>1, <2>2, <2>3
    <2>6. ASSUME NEW e \in accepted', NEW f \in accepted', id'[e] = id'[f] PROVE e = f
      <3>1. CASE e \in accepted /\ f \in accepted
        BY <1>0, <2>2, <2>6, <3>1 DEF IdsUnique
      <3>2. CASE e = d \/ f = d
        BY <1>1, <2>2, <2>3, <2>6, <3>2
      <3> QED
        BY <1>1, <3>1, <3>2
    <2> QED
      BY <1>2, <2>4, <2>5, <2>6 DEF IdsUnique
  <1>6. Current' = Current
    BY <1>0, <1>3 DEF Enqueue, Current, TypeOK
  <1>7. Counted'
    <2>1. UNCHANGED <<posts, attempts, fails, faults, outcome>>
      BY DEF Enqueue
    <2>2. queue' = queue \cup {d} /\ posts[d] = 0
      BY <1>0 DEF Enqueue, Counted
    <2>3. d \notin Current
      BY <1>0 DEF Current
    <2>4. attempts[d] \in Nat /\ faults \in Nat
      BY <1>0, QueueAssumption DEF TypeOK
    <2> QED
      BY <1>0, <1>1, <1>6, <2>1, <2>2, <2>3, <2>4 DEF Counted
  <1>8. OutcomeHonest'
    BY <1>0, <1>6 DEF OutcomeHonest, Enqueue
  <1>9. NothingLost'
    BY <1>0 DEF NothingLost, Enqueue
  <1> QED
    BY <1>4, <1>5, <1>7, <1>8, <1>9 DEF QueueInv

LEMMA StartPassStep ==
  ASSUME QueueInv, StartPass
  PROVE  QueueInv'
  <1>0. /\ TypeOK /\ IdsUnique /\ Counted /\ OutcomeHonest /\ NothingLost
        /\ pass = {} /\ outcome = "none" /\ pass' \subseteq queue
        /\ UNCHANGED <<queue, id, attempts, wait, outcome, up, faults, accepted,
                       posts, fails, got, refused>>
    BY DueInQueue DEF QueueInv, StartPass, TypeOK
  <1>1. TypeOK' /\ IdsUnique' /\ NothingLost'
    BY <1>0 DEF TypeOK, IdsUnique, NothingLost
  <1>2. ASSUME NEW d \in Deliveries, d \in queue
        PROVE  posts[d] <= attempts[d] + faults /\ posts[d] <= attempts[d] + 1 + faults
    <2>1. posts[d] <= attempts[d] + faults
      BY <1>0, <1>2 DEF Counted
    <2>2. posts[d] \in Nat /\ attempts[d] \in Nat /\ faults \in Nat
      BY <1>0, QueueAssumption DEF TypeOK
    <2> QED
      BY <2>1, <2>2
  <1>3. Counted'
    BY <1>0, <1>2 DEF Counted
  <1>4. OutcomeHonest'
    BY <1>0 DEF OutcomeHonest
  <1> QED
    BY <1>1, <1>3, <1>4 DEF QueueInv

LEMMA PostStep ==
  ASSUME QueueInv, NEW d \in Deliveries, NEW arrives \in BOOLEAN,
         NEW result \in {"ok", "error"}, Post(d, arrives, result)
  PROVE  QueueInv'
  <1>0. /\ TypeOK /\ IdsUnique /\ Counted /\ OutcomeHonest /\ NothingLost
        /\ d \in Current /\ d \in queue /\ pass # {} /\ outcome = "none"
        /\ UNCHANGED <<queue, id, attempts, wait, pass, up, faults, accepted, refused>>
    BY DEF QueueInv, Post, TypeOK, Current
  <1>1. /\ posts' = [posts EXCEPT ![d] = posts[d] + 1]
        /\ got'   = [got EXCEPT ![d] = IF arrives THEN got[d] + 1 ELSE got[d]]
        /\ fails' = [fails EXCEPT ![d] = IF result = "ok" THEN fails[d] ELSE fails[d] + 1]
        /\ outcome' = result /\ (result = "ok" => arrives)
    BY DEF Post
  <1>2. /\ posts \in [Deliveries -> Nat] /\ got \in [Deliveries -> Nat]
        /\ fails \in [Deliveries -> Nat] /\ faults \in Nat
        /\ \A e \in Deliveries : attempts[e] \in Nat
    BY <1>0, QueueAssumption DEF TypeOK
  <1>3. TypeOK'
    BY <1>0, <1>1, <1>2 DEF TypeOK
  <1>4. IdsUnique'
    BY <1>0 DEF IdsUnique
  <1>5. Current' = Current
    BY <1>0 DEF Current
  <1>6. ASSUME NEW e \in Deliveries
        PROVE  /\ e \notin accepted' => posts'[e] = 0
               /\ e \in queue' /\ (outcome' = "none" \/ e \notin Current')
                    => posts'[e] <= attempts'[e] + faults'
               /\ e \in queue' /\ e \in Current' => posts'[e] <= attempts'[e] + 1 + faults'
               /\ e \notin queue' => posts'[e] <= MaxAttempts + faults'
               /\ attempts'[e] <= fails'[e]
    <2>1. CASE e = d
      <3>1. posts[d] <= attempts[d] + faults /\ attempts[d] <= fails[d]
        BY <1>0 DEF Counted
      <3>2. posts'[d] = posts[d] + 1 /\ fails'[d] \in {fails[d], fails[d] + 1}
        BY <1>1, <1>2
      <3>3. d \in accepted
        BY <1>0 DEF IdsUnique
      <3> QED
        BY <1>0, <1>1, <1>2, <1>5, <2>1, <3>1, <3>2, <3>3
    <2>2. CASE e # d
      <3>1. e \notin Current
        BY <1>0, <2>2, OneCurrent
      <3>2. posts'[e] = posts[e] /\ fails'[e] = fails[e]
        BY <1>1, <1>2, <2>2
      <3> QED
        BY <1>0, <1>5, <3>1, <3>2 DEF Counted
    <2> QED
      BY <2>1, <2>2
  <1>7. Counted'
    BY <1>6 DEF Counted
  <1>8. OutcomeHonest'
    <2>1. ASSUME NEW e \in Current PROVE e = d
      BY <1>0, OneCurrent
    <2>2. result = "ok" => got'[d] > 0
      BY <1>1, <1>2
    <2>3. result = "error" => attempts[d] + 1 <= fails'[d]
      <3>1. attempts[d] <= fails[d]
        BY <1>0 DEF Counted
      <3>2. result = "error" => fails'[d] = fails[d] + 1
        BY <1>1, <1>2
      <3> QED
        BY <1>2, <3>1, <3>2
    <2> QED
      BY <1>0, <1>1, <1>5, <2>1, <2>2, <2>3 DEF OutcomeHonest
  <1>9. NothingLost'
    <2>1. \A e \in Deliveries : (got[e] > 0 => got'[e] > 0)
                              /\ (fails[e] >= MaxAttempts => fails'[e] >= MaxAttempts)
      BY <1>1, <1>2, QueueAssumption
    <2>2. accepted \subseteq Deliveries
      BY <1>0 DEF TypeOK
    <2> QED
      BY <1>0, <2>1, <2>2 DEF NothingLost
  <1> QED
    BY <1>3, <1>4, <1>7, <1>8, <1>9 DEF QueueInv

LEMMA RefuseStep ==
  ASSUME QueueInv, NEW d \in Deliveries, Refuse(d)
  PROVE  QueueInv'
  <1>0. /\ TypeOK /\ IdsUnique /\ Counted /\ OutcomeHonest /\ NothingLost
        /\ d \in Current /\ pass # {} /\ outcome = "none" /\ outcome' = "ok"
        /\ refused' = refused \cup {d}
        /\ UNCHANGED <<queue, id, attempts, wait, pass, up, faults, accepted, posts,
                       fails, got>>
    BY DEF QueueInv, Refuse, Current
  <1>1. TypeOK' /\ IdsUnique' /\ NothingLost'
    BY <1>0 DEF TypeOK, IdsUnique, NothingLost
  <1>2. Current' = Current
    BY <1>0 DEF Current
  <1>3. Counted'
    BY <1>0, <1>2 DEF Counted
  <1>4. OutcomeHonest'
    <2>1. ASSUME NEW e \in Current PROVE e = d
      BY <1>0, OneCurrent
    <2> QED
      BY <1>0, <1>2, <2>1 DEF OutcomeHonest
  <1> QED
    BY <1>1, <1>3, <1>4 DEF QueueInv

\* What both ways of finishing with a row have in common: the pass goes on to
\* rows that have nothing unrecorded.
LEMMA NextRow ==
  ASSUME QueueInv, NEW d \in Current, outcome # "none", outcome' = "none",
         pass' = pass \ {d}, queue' \in {queue, queue \ {d}},
         UNCHANGED <<id, faults, accepted, posts, fails, got, refused>>,
         \A e \in Deliveries : e # d => attempts'[e] = attempts[e],
         attempts'[d] \in 0 .. MaxAttempts - 1,
         d \in queue' => posts[d] <= attempts'[d] + faults,
         d \notin queue' => posts[d] <= MaxAttempts + faults,
         attempts'[d] <= fails[d]
  PROVE  Counted' /\ OutcomeHonest' /\ IdsUnique'
  <1>0. /\ TypeOK /\ IdsUnique /\ Counted
        /\ posts \in [Deliveries -> Nat] /\ faults \in Nat
        /\ \A e \in Deliveries : attempts[e] \in Nat /\ attempts'[e] \in Nat
        /\ d \in Deliveries
    BY QueueAssumption DEF QueueInv, TypeOK, Current
  <1>1. ASSUME NEW e \in Deliveries
        PROVE  /\ e \notin accepted' => posts'[e] = 0
               /\ e \in queue' /\ (outcome' = "none" \/ e \notin Current')
                    => posts'[e] <= attempts'[e] + faults'
               /\ e \in queue' /\ e \in Current' => posts'[e] <= attempts'[e] + 1 + faults'
               /\ e \notin queue' => posts'[e] <= MaxAttempts + faults'
               /\ attempts'[e] <= fails'[e]
    <2>1. posts[e] \in Nat /\ attempts'[e] \in Nat
      BY <1>0
    <2>2. CASE e = d
      <3>1. e \notin accepted => posts[e] = 0
        BY <1>0 DEF Counted
      <3>2. d \in queue' => posts[d] <= attempts'[d] + 1 + faults
        BY <1>0
      <3> QED
        BY <2>2, <3>1, <3>2
    <2>3. CASE e # d
      <3>1. e \notin Current
        BY <1>0, <2>3, OneCurrent
      <3>2. /\ e \notin accepted => posts[e] = 0
            /\ e \in queue => posts[e] <= attempts[e] + faults
            /\ e \notin queue => posts[e] <= MaxAttempts + faults
            /\ attempts[e] <= fails[e]
        BY <1>0, <3>1 DEF Counted
      <3>3. attempts'[e] = attempts[e] /\ (e \in queue' <=> e \in queue)
        BY <2>3
      <3>4. e \in queue => posts[e] <= attempts[e] + 1 + faults
        BY <1>0, <2>1, <3>2
      <3> QED
        BY <3>2, <3>3, <3>4
    <2> QED
      BY <2>2, <2>3
  <1>2. Counted'
    BY <1>1 DEF Counted
  <1>3. OutcomeHonest'
    BY DEF OutcomeHonest
  <1>4. IdsUnique'
    BY <1>0 DEF IdsUnique
  <1> QED
    BY <1>2, <1>3, <1>4

LEMMA MarkDeliveredStep ==
  ASSUME QueueInv, NEW d \in Deliveries, MarkDelivered(d)
  PROVE  QueueInv'
  <1>0. /\ TypeOK /\ Counted /\ OutcomeHonest /\ NothingLost
        /\ d \in Current /\ d \in queue /\ outcome = "ok" /\ outcome' = "none"
        /\ queue' = queue \ {d} /\ pass' = pass \ {d}
        /\ UNCHANGED <<id, attempts, wait, up, faults, accepted, posts, fails, got,
                       refused>>
    BY DEF QueueInv, MarkDelivered, Current, TypeOK
  <1>1. TypeOK'
    BY <1>0 DEF TypeOK
  <1>2. posts[d] <= MaxAttempts + faults
    <2>1. posts[d] <= attempts[d] + 1 + faults
      BY <1>0 DEF Counted
    <2>2. attempts[d] \in 0 .. MaxAttempts - 1 /\ posts[d] \in Nat /\ faults \in Nat
      BY <1>0, QueueAssumption DEF TypeOK
    <2> QED
      BY <2>1, <2>2, QueueAssumption
  <1>3. attempts[d] \in 0 .. MaxAttempts - 1 /\ attempts[d] <= fails[d]
    BY <1>0 DEF TypeOK, Counted
  <1>4. Counted' /\ OutcomeHonest' /\ IdsUnique'
    BY <1>0, <1>2, <1>3, NextRow
  <1>5. NothingLost'
    BY <1>0 DEF NothingLost, OutcomeHonest
  <1> QED
    BY <1>1, <1>4, <1>5 DEF QueueInv

LEMMA MarkFailedStep ==
  ASSUME QueueInv, NEW d \in Deliveries, MarkFailed(d)
  PROVE  QueueInv'
  <1> DEFINE n == attempts[d] + 1
  <1>0. /\ TypeOK /\ Counted /\ OutcomeHonest /\ NothingLost
        /\ d \in Current /\ d \in queue /\ outcome = "error" /\ outcome' = "none"
        /\ pass' = pass \ {d}
        /\ UNCHANGED <<id, up, faults, accepted, posts, fails, got, refused>>
    BY DEF QueueInv, MarkFailed, Current, TypeOK
  <1>1. /\ attempts \in [Deliveries -> 0 .. MaxAttempts - 1] /\ n \in Nat
        /\ posts[d] \in Nat /\ fails[d] \in Nat /\ faults \in Nat
        /\ MaxAttempts \in Nat /\ wait \in [Deliveries -> Nat]
    BY <1>0, QueueAssumption DEF TypeOK
  <1>2. posts[d] <= n + faults /\ n <= fails[d] /\ attempts[d] <= fails[d]
    BY <1>0, <1>1 DEF Counted, OutcomeHonest
  <1>3. CASE n >= MaxAttempts /\ queue' = queue \ {d} /\ UNCHANGED <<attempts, wait>>
    <2>1. TypeOK'
      BY <1>0, <1>3 DEF TypeOK
    <2>2. posts[d] <= MaxAttempts + faults
      BY <1>1, <1>2
    <2>3. attempts'[d] \in 0 .. MaxAttempts - 1 /\ attempts'[d] <= fails[d]
      BY <1>1, <1>2, <1>3
    <2>4. Counted' /\ OutcomeHonest' /\ IdsUnique'
      BY <1>0, <1>3, <2>2, <2>3, NextRow
    <2>5. fails[d] >= MaxAttempts
      BY <1>1, <1>2, <1>3
    <2>6. NothingLost'
      BY <1>0, <1>3, <2>5 DEF NothingLost
    <2> QED
      BY <2>1, <2>4, <2>6 DEF QueueInv
  <1>4. CASE /\ n < MaxAttempts /\ UNCHANGED queue
             /\ attempts' = [attempts EXCEPT ![d] = n]
             /\ wait' = [wait EXCEPT ![d] = BackoffSecs(n)]
    <2>1. n \in 0 .. MaxAttempts - 1
      BY <1>1, <1>4
    <2>2. attempts' \in [Deliveries -> 0 .. MaxAttempts - 1] /\ attempts'[d] = n
          /\ \A e \in Deliveries : e # d => attempts'[e] = attempts[e]
      BY <1>1, <1>4, <2>1
    <2>3. wait' \in [Deliveries -> Nat]
      BY <1>1, <1>4, BackoffType
    <2>4. TypeOK'
      BY <1>0, <1>4, <2>2, <2>3 DEF TypeOK
    <2>5. Counted' /\ OutcomeHonest' /\ IdsUnique'
      BY <1>0, <1>2, <1>4, <2>1, <2>2, NextRow
    <2>6. NothingLost'
      BY <1>0, <1>4 DEF NothingLost
    <2> QED
      BY <2>4, <2>5, <2>6 DEF QueueInv
  <1> QED
    BY <1>3, <1>4 DEF MarkFailed

\* A pass that ends before its outcome is recorded costs one fault.
LEMMA FaultStep ==
  ASSUME QueueInv, PassFails \/ Crash
  PROVE  QueueInv'
  <1>0. /\ TypeOK /\ IdsUnique /\ Counted /\ NothingLost
        /\ pass' = {} /\ outcome' = "none" /\ faults' = faults + 1 /\ faults < MaxFaults
        /\ up' \in BOOLEAN
        /\ UNCHANGED <<queue, id, attempts, wait, accepted, posts, fails, got, refused>>
    BY DEF QueueInv, PassFails, Crash, TypeOK
  <1>1. faults \in Nat /\ faults' \in 0 .. MaxFaults
    BY <1>0, QueueAssumption DEF TypeOK
  <1>2. TypeOK' /\ IdsUnique' /\ NothingLost'
    BY <1>0, <1>1 DEF TypeOK, IdsUnique, NothingLost
  <1>3. ASSUME NEW e \in Deliveries
        PROVE  /\ e \notin accepted => posts[e] = 0
               /\ e \in queue => posts[e] <= attempts[e] + faults'
               /\ e \in queue => posts[e] <= attempts[e] + 1 + faults'
               /\ e \notin queue => posts[e] <= MaxAttempts + faults'
               /\ attempts[e] <= fails[e]
    <2>1. posts[e] \in Nat /\ attempts[e] \in Nat /\ MaxAttempts \in Nat
      BY <1>0, QueueAssumption DEF TypeOK
    <2>2. e \in queue => posts[e] <= attempts[e] + faults \/ posts[e] <= attempts[e] + 1 + faults
      BY <1>0 DEF Counted
    <2> QED
      BY <1>0, <1>1, <2>1, <2>2 DEF Counted
  <1>4. Counted'
    BY <1>0, <1>3 DEF Counted
  <1>5. OutcomeHonest'
    BY <1>0 DEF OutcomeHonest
  <1> QED
    BY <1>2, <1>4, <1>5 DEF QueueInv

LEMMA ClockStep ==
  ASSUME QueueInv, Restart \/ Elapse \/ UNCHANGED vars
  PROVE  QueueInv'
  <1>0. /\ TypeOK /\ IdsUnique /\ Counted /\ OutcomeHonest /\ NothingLost
        /\ UNCHANGED <<queue, id, attempts, pass, outcome, faults, accepted, posts,
                       fails, got, refused>>
    BY DEF QueueInv, Restart, Elapse, vars
  <1>1. up' \in BOOLEAN /\ wait' \in [Deliveries -> Nat]
    <2>1. wait \in [Deliveries -> Nat] /\ up \in BOOLEAN
      BY <1>0 DEF TypeOK
    <2>2. CASE Elapse
      <3>1. ASSUME NEW d \in Deliveries
            PROVE  (IF wait[d] > 0 THEN wait[d] - 1 ELSE 0) \in Nat
        BY <2>1
      <3> QED
        BY <2>1, <2>2, <3>1 DEF Elapse
    <2> QED
      BY <2>1, <2>2 DEF Restart, vars
  <1>2. TypeOK' /\ IdsUnique' /\ NothingLost'
    BY <1>0, <1>1 DEF TypeOK, IdsUnique, NothingLost
  <1>3. Current' = Current
    BY <1>0 DEF Current
  <1>4. Counted' /\ OutcomeHonest'
    BY <1>0, <1>3 DEF Counted, OutcomeHonest
  <1> QED
    BY <1>2, <1>4 DEF QueueInv

LEMMA QueueStep == QueueInv /\ [Next]_vars => QueueInv'
  <1> SUFFICES ASSUME QueueInv, [Next]_vars PROVE QueueInv'
    OBVIOUS
  <1>1. ASSUME NEW d \in Deliveries, Enqueue(d) PROVE QueueInv'
    BY <1>1, EnqueueStep
  <1>2. ASSUME NEW d \in Deliveries, Sending(d) PROVE QueueInv'
    BY <1>2, PostStep DEF Sending
  <1>3. ASSUME NEW d \in Deliveries, Refuse(d) \/ MarkDelivered(d) \/ MarkFailed(d)
        PROVE  QueueInv'
    BY <1>3, RefuseStep, MarkDeliveredStep, MarkFailedStep
  <1>4. ASSUME StartPass PROVE QueueInv'
    BY <1>4, StartPassStep
  <1>5. ASSUME PassFails \/ Crash PROVE QueueInv'
    BY <1>5, FaultStep
  <1>6. ASSUME Restart \/ Elapse \/ UNCHANGED vars PROVE QueueInv'
    BY <1>6, ClockStep
  <1> QED
    BY <1>1, <1>2, <1>3, <1>4, <1>5, <1>6 DEF Next, Drain

LEMMA QueueAlways == Spec => []QueueInv
  BY QueueInit, QueueStep, PTL DEF Spec

-----------------------------------------------------------------------------
(* The theorems. *)

\* The variables keep their types; no outstanding row has used up its attempts.
THEOREM TypeCorrect == Spec => []TypeOK
  <1>1. QueueInv => TypeOK
    BY DEF QueueInv
  <1> QED
    BY <1>1, QueueAlways, PTL

\* A restart never drops a row silently, whatever faults happen when (the promise
\* of run_delivery_queue).
THEOREM RowsSurvive == Spec => []NothingLost
  <1>1. QueueInv => NothingLost
    BY DEF QueueInv
  <1> QED
    BY <1>1, QueueAlways, PTL

\* A peer is asked for a row at most MaxAttempts times, and once more for each
\* pass that ended between a POST and its record.
THEOREM PeersSpared == Spec => []PostsBounded
  <1>1. QueueInv => PostsBounded
    <2> SUFFICES ASSUME QueueInv, NEW d \in Deliveries
                 PROVE  posts[d] <= MaxAttempts + faults
      BY DEF PostsBounded
    <2>1. attempts[d] \in 0 .. MaxAttempts - 1 /\ posts[d] \in Nat /\ faults \in Nat
          /\ MaxAttempts \in Nat
      BY QueueAssumption DEF QueueInv, TypeOK
    <2>2. \/ posts[d] <= attempts[d] + faults
          \/ posts[d] <= attempts[d] + 1 + faults
          \/ posts[d] <= MaxAttempts + faults
      BY DEF QueueInv, Counted
    <2> QED
      BY <2>1, <2>2
  <1> QED
    BY <1>1, QueueAlways, PTL

-----------------------------------------------------------------------------
(* The refinement. *)

\* A POST, whatever becomes of it, is an attempt.
LEMMA PostAttempts ==
  ASSUME QueueInv, NEW d \in Deliveries, NEW arrives \in BOOLEAN,
         NEW result \in {"ok", "error"}, Post(d, arrives, result)
  PROVE  Promise!Attempt(d, arrives, result = "error")
  <1>1. d \in queue
    BY DEF Post, Current, QueueInv, TypeOK
  <1>2. arrives \/ result = "error"
    BY DEF Post
  <1>3. fails' = [fails EXCEPT ![d] = IF result = "error" THEN @ + 1 ELSE @]
    BY DEF Post
  <1> QED
    BY <1>1, <1>2, <1>3 DEF Post, Promise!Attempt

\* A row goes when its delivery was made or refused.
LEMMA DeliveredSettles ==
  ASSUME QueueInv, NEW d \in Deliveries, MarkDelivered(d)
  PROVE  Promise!Settle(d)
  <1>1. d \in queue
    BY DEF MarkDelivered, Current, QueueInv, TypeOK
  <1>2. got[d] > 0 \/ d \in refused
    BY DEF MarkDelivered, QueueInv, OutcomeHonest
  <1> QED
    BY <1>1, <1>2 DEF MarkDelivered, Promise!Settle

\* A row is given up after as many failures as it may have, and a failure
\* before the last leaves the promise as it is.
LEMMA FailedSettles ==
  ASSUME QueueInv, NEW d \in Deliveries, MarkFailed(d)
  PROVE  Promise!Settle(d) \/ UNCHANGED Promise!vars
  <1>1. d \in queue /\ d \in Current
    BY DEF MarkFailed, Current, QueueInv, TypeOK
  <1>2. attempts[d] + 1 <= fails[d]
    BY <1>1 DEF MarkFailed, QueueInv, OutcomeHonest
  <1>3. attempts[d] \in Nat /\ fails[d] \in Nat
    BY QueueAssumption DEF QueueInv, TypeOK
  <1>4. CASE attempts[d] + 1 >= MaxAttempts
    <2>1. queue' = queue \ {d}
      BY <1>3, <1>4, QueueAssumption DEF MarkFailed
    <2>2. fails[d] >= MaxAttempts
      BY <1>2, <1>3, <1>4, QueueAssumption
    <2> QED
      BY <1>1, <2>1, <2>2 DEF MarkFailed, Promise!Settle
  <1>5. CASE ~(attempts[d] + 1 >= MaxAttempts)
    <2>1. UNCHANGED queue
      BY <1>3, <1>5, QueueAssumption DEF MarkFailed
    <2> QED
      BY <2>1 DEF MarkFailed, Promise!vars
  <1> QED
    BY <1>4, <1>5

\* The queue implements Outbox: with its rows for what is owed, every step of
\* the server, of the network or of time is a step of the promise or none.
THEOREM QueueKeepsPromise == Spec => KeepsPromise
  <1>1. Init => Promise!Init
    BY DEF Init, Promise!Init
  <1>2. QueueInv /\ [Next]_vars => [Promise!Next]_(Promise!vars)
    <2> SUFFICES ASSUME QueueInv, [Next]_vars
                 PROVE  Promise!Next \/ UNCHANGED Promise!vars
      OBVIOUS
    <2>1. CASE \E d \in Deliveries : Enqueue(d)
      BY <2>1 DEF Enqueue, Promise!Next, Promise!Accept
    <2>2. CASE \E d \in Deliveries : Sending(d)
      <3>1. PICK d \in Deliveries, arrives \in BOOLEAN, result \in {"ok", "error"} :
                 Post(d, arrives, result)
        BY <2>2 DEF Sending
      <3>2. Promise!Attempt(d, arrives, result = "error")
        BY <3>1, PostAttempts
      <3>3. (result = "error") \in BOOLEAN
        OBVIOUS
      <3> QED
        BY <3>2, <3>3 DEF Promise!Next
    <2>3. CASE \E d \in Deliveries : Refuse(d)
      <3>1. PICK d \in Deliveries : Refuse(d)
        BY <2>3
      <3>2. d \in queue
        BY <3>1 DEF Refuse, Current, QueueInv, TypeOK
      <3> QED
        BY <3>1, <3>2 DEF Refuse, Promise!Next, Promise!Decline
    <2>4. CASE \E d \in Deliveries : MarkDelivered(d)
      BY <2>4, DeliveredSettles DEF Promise!Next
    <2>5. CASE \E d \in Deliveries : MarkFailed(d)
      BY <2>5, FailedSettles DEF Promise!Next
    <2>6. CASE StartPass \/ PassFails \/ Crash \/ Restart \/ Elapse
      BY <2>6 DEF StartPass, PassFails, Crash, Restart, Elapse, Promise!vars
    <2>7. CASE UNCHANGED vars
      BY <2>7 DEF vars, Promise!vars
    <2> QED
      BY <2>1, <2>2, <2>3, <2>4, <2>5, <2>6, <2>7 DEF Next, Drain
  <1> QED
    BY <1>1, <1>2, QueueAlways, PTL DEF Spec, KeepsPromise, Promise!Spec

=============================================================================
